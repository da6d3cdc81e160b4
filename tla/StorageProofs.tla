---------------------------- MODULE StorageProofs ----------------------------
(***************************************************************************)
(* Safety of StorageMaintenance for every set of volumes, any waiting      *)
(* time, any number of generations and any owner.                          *)
(***************************************************************************)
EXTENDS StorageInvariant, SequenceTheorems, TLAPS

USE StorageAssumption
USE DEF vars, settings, pool, absence, journal, disks, machine, contents, locals, ghosts,
        Generations, Images, Copies, Kinds, Phases, None, Gone, Torn
USE DEF OwnerMay, OwnerLeaves

-----------------------------------------------------------------------------
(* The steps of a tick.                                                    *)

LEMMA StepsAre ==
  ASSUME NEW s \in Seq(StepNames)
  PROVE  /\ StepsOf(s) \subseteq StepNames
         /\ StepsOf(s) = {} => s = <<>>
<1>1. \A n \in 1..Len(s) : s[n] \in StepNames
  BY ElementOfSeq
<1>2. s # <<>> => s[1] \in StepsOf(s)
  BY DEF StepsOf
<1>3. StepsOf(s) \subseteq StepNames
  BY <1>1 DEF StepsOf
<1> QED
  BY <1>2, <1>3

LEMMA TailOf ==
  ASSUME NEW s \in Seq(StepNames), s # <<>>, Ordered(s)
  PROVE  /\ Tail(s) \in Seq(StepNames) /\ Ordered(Tail(s))
         /\ StepsOf(s) = {Head(s)} \cup StepsOf(Tail(s))
         /\ \A x, y \in StepNames : Before(s, x, y) /\ Head(s) = y => x \notin StepsOf(s)
         /\ Head(s) = "save" => StepsOf(Tail(s)) = {}
<1>1. /\ Tail(s) \in Seq(StepNames) /\ Len(Tail(s)) = Len(s) - 1 /\ Len(s) \in Nat \ {0}
      /\ \A n \in 1..Len(Tail(s)) : Tail(s)[n] = s[n + 1]
      /\ Head(s) = s[1]
  BY HeadTailProperties
<1>2. StepsOf(s) = {Head(s)} \cup StepsOf(Tail(s))
  <2>1. ASSUME NEW n \in 1..Len(s) PROVE s[n] \in {Head(s)} \cup StepsOf(Tail(s))
    <3>1. CASE n = 1
      BY <1>1, <3>1
    <3>2. CASE n # 1
      <4>1. n - 1 \in 1..Len(Tail(s)) /\ Tail(s)[n - 1] = s[n]
        BY <1>1, <3>2
      <4> QED
        BY <4>1 DEF StepsOf
    <3> QED
      BY <3>1, <3>2
  <2>2. ASSUME NEW n \in 1..Len(Tail(s)) PROVE Tail(s)[n] \in StepsOf(s)
    <3>1. n + 1 \in 1..Len(s) /\ Tail(s)[n] = s[n + 1]
      BY <1>1
    <3> QED
      BY <3>1 DEF StepsOf
  <2>3. 1 \in 1..Len(s)
    BY <1>1
  <2> QED
    BY <1>1, <2>1, <2>2, <2>3 DEF StepsOf
<1>3. ASSUME NEW x \in StepNames, NEW y \in StepNames, Before(s, x, y)
      PROVE  Before(Tail(s), x, y) /\ (Head(s) = y => x \notin StepsOf(s))
  <2>1. Before(Tail(s), x, y)
    BY <1>1, <1>3 DEF Before
  <2>2. 1 \in 1..Len(s)
    BY <1>1
  <2>3. ASSUME s[1] = y, NEW n \in 1..Len(s), s[n] = x PROVE FALSE
    BY <1>3, <2>2, <2>3 DEF Before
  <2> QED
    BY <1>1, <2>1, <2>3 DEF StepsOf
<1>4. \A n \in 1..Len(Tail(s)) : Tail(s)[n] = "save" => n = Len(Tail(s))
  <2> SUFFICES ASSUME NEW n \in 1..Len(Tail(s)), Tail(s)[n] = "save" PROVE n = Len(Tail(s))
    OBVIOUS
  <2>1. n + 1 \in 1..Len(s) /\ s[n + 1] = "save"
    BY <1>1
  <2>2. n + 1 = Len(s)
    BY <2>1 DEF Ordered
  <2>3. n \in Int /\ Len(s) \in Int /\ Len(Tail(s)) = Len(s) - 1
    BY <1>1
  <2> QED
    BY <2>2, <2>3
<1>5. Ordered(Tail(s))
  <2>1. {"backup", "compare", "make", "boot", "apply", "check", "detach", "configure"}
          \subseteq StepNames
    BY DEF StepNames
  <2> QED
    BY <1>3, <1>4, <2>1 DEF Ordered
<1>6. Head(s) = "save" => StepsOf(Tail(s)) = {}
  <2> SUFFICES ASSUME s[1] = "save" PROVE Len(Tail(s)) = 0
    <3>1. 1..0 = {}
      OBVIOUS
    <3> QED
      BY <1>1, <3>1 DEF StepsOf
  <2>1. 1 \in 1..Len(s)
    BY <1>1
  <2>2. Len(s) = 1
    BY <2>1 DEF Ordered
  <2> QED
    BY <1>1, <2>2
<1> QED
  BY <1>1, <1>2, <1>3, <1>5, <1>6

LEMMA SaveLast ==
  ASSUME NEW s \in Seq(StepNames), Ordered(s), "save" \notin StepsOf(s)
  PROVE  LET all == s \o <<"save">>
         IN  /\ all \in Seq(StepNames) /\ Ordered(all) /\ StepsOf(all) = StepsOf(s) \cup {"save"}
<1> DEFINE all == s \o <<"save">>
<1>1. /\ all \in Seq(StepNames) /\ Len(all) = Len(s) + 1 /\ Len(s) \in Nat
      /\ \A n \in 1..Len(s) : all[n] = s[n]
      /\ all[Len(s) + 1] = "save"
  BY DEF StepNames
<1>2. \A n \in 1..Len(all) : n \in 1..Len(s) \/ n = Len(s) + 1
  BY <1>1
<1>3. \A n \in 1..Len(s) : n \in 1..Len(all) /\ s[n] # "save"
  BY <1>1 DEF StepsOf
<1>4. StepsOf(all) = StepsOf(s) \cup {"save"}
  <2>1. Len(s) + 1 \in 1..Len(all)
    BY <1>1
  <2> QED
    BY <1>1, <1>2, <1>3, <2>1 DEF StepsOf
<1>5. ASSUME NEW x, NEW y, x # "save", y # "save", Before(s, x, y) PROVE Before(all, x, y)
  BY <1>1, <1>2, <1>5 DEF Before
<1>6. \A n \in 1..Len(all) : all[n] = "save" => n = Len(all)
  BY <1>1, <1>2, <1>3
<1>7. Ordered(all)
  BY <1>5, <1>6 DEF Ordered
<1> QED
  BY <1>1, <1>4, <1>7

\* What is known of a sequence of steps that is written out.
Route(s, steps) == s \in Seq(StepNames) /\ Ordered(s) /\ StepsOf(s) = steps

LEMMA AllRoutes ==
  /\ Route(<<"drain", "boot", "quiesce">>, {"drain", "boot", "quiesce"})
  /\ Route(<<"drain", "halt">>, {"drain", "halt"})
  /\ Route(<<"boot", "quiesce", "backup", "compare">>, {"boot", "quiesce", "backup", "compare"})
  /\ Route(<<"check", "halt">>, {"check", "halt"})
  /\ Route(<<"check", "boot", "quiesce", "retire", "halt">>, {"check", "boot", "quiesce", "retire", "halt"})
  /\ Route(<<"check", "reset">>, {"check", "reset"})
  /\ Route(<<"check", "detach", "list", "images">>, {"check", "detach", "list", "images"})
  /\ Route(<<"check", "detach">>, {"check", "detach"})
  /\ Route(<<"check", "make", "boot", "quiesce", "apply">>, {"check", "make", "boot", "quiesce", "apply"})
  /\ Route(<<"check", "boot">>, {"check", "boot"})
  /\ Route(<<"check", "boot", "restore">>, {"check", "boot", "restore"})
  /\ Route(<<"boot", "check", "compare", "restored">>, {"boot", "check", "compare", "restored"})
  /\ Route(<<"boot", "restored">>, {"boot", "restored"})
  /\ Route(<<"boot", "bootstrap", "configure">>, {"boot", "bootstrap", "configure"})
  /\ Route(<<"boot", "quiesce", "bootstrap", "configure">>, {"boot", "quiesce", "bootstrap", "configure"})
  /\ Route(<<"boot", "halt">>, {"boot", "halt"})
  /\ Route(<<"check">>, {"check"})
  /\ Route(<<"halt", "miss", "inform">>, {"halt", "miss", "inform"})
  /\ Route(<<"boot", "quiesce", "activate", "bootstrap", "configure", "returned">>,
           {"boot", "quiesce", "activate", "bootstrap", "configure", "returned"})
  /\ Route(<<"halt">>, {"halt"})
  /\ Route(<<"stopping">>, {"stopping"})
<1>1. Route(<<"drain", "boot", "quiesce">>, {"drain", "boot", "quiesce"})
  <2> DEFINE s == <<"drain", "boot", "quiesce">>
  <2>1. Len(s) = 3 /\ s[1] = "drain" /\ s[2] = "boot" /\ s[3] = "quiesce"
    OBVIOUS
  <2> QED
    BY <2>1 DEF Route, Ordered, Before, StepsOf, StepNames
<1>2. Route(<<"drain", "halt">>, {"drain", "halt"})
  <2> DEFINE s == <<"drain", "halt">>
  <2>1. Len(s) = 2 /\ s[1] = "drain" /\ s[2] = "halt"
    OBVIOUS
  <2> QED
    BY <2>1 DEF Route, Ordered, Before, StepsOf, StepNames
<1>3. Route(<<"boot", "quiesce", "backup", "compare">>, {"boot", "quiesce", "backup", "compare"})
  <2> DEFINE s == <<"boot", "quiesce", "backup", "compare">>
  <2>1. Len(s) = 4 /\ s[1] = "boot" /\ s[2] = "quiesce" /\ s[3] = "backup" /\ s[4] = "compare"
    OBVIOUS
  <2> QED
    BY <2>1 DEF Route, Ordered, Before, StepsOf, StepNames
<1>4. Route(<<"check", "halt">>, {"check", "halt"})
  <2> DEFINE s == <<"check", "halt">>
  <2>1. Len(s) = 2 /\ s[1] = "check" /\ s[2] = "halt"
    OBVIOUS
  <2> QED
    BY <2>1 DEF Route, Ordered, Before, StepsOf, StepNames
<1>5. Route(<<"check", "boot", "quiesce", "retire", "halt">>, {"check", "boot", "quiesce",
  "retire", "halt"})
  <2> DEFINE s == <<"check", "boot", "quiesce", "retire", "halt">>
  <2>1. Len(s) = 5 /\ s[1] = "check" /\ s[2] = "boot" /\ s[3] = "quiesce" /\ s[4] = "retire" /\ s[5] = "halt"
    OBVIOUS
  <2> QED
    BY <2>1 DEF Route, Ordered, Before, StepsOf, StepNames
<1>6. Route(<<"check", "reset">>, {"check", "reset"})
  <2> DEFINE s == <<"check", "reset">>
  <2>1. Len(s) = 2 /\ s[1] = "check" /\ s[2] = "reset"
    OBVIOUS
  <2> QED
    BY <2>1 DEF Route, Ordered, Before, StepsOf, StepNames
<1>7. Route(<<"check", "detach", "list", "images">>, {"check", "detach", "list", "images"})
  <2> DEFINE s == <<"check", "detach", "list", "images">>
  <2>1. Len(s) = 4 /\ s[1] = "check" /\ s[2] = "detach" /\ s[3] = "list" /\ s[4] = "images"
    OBVIOUS
  <2> QED
    BY <2>1 DEF Route, Ordered, Before, StepsOf, StepNames
<1>8. Route(<<"check", "detach">>, {"check", "detach"})
  <2> DEFINE s == <<"check", "detach">>
  <2>1. Len(s) = 2 /\ s[1] = "check" /\ s[2] = "detach"
    OBVIOUS
  <2> QED
    BY <2>1 DEF Route, Ordered, Before, StepsOf, StepNames
<1>9. Route(<<"check", "make", "boot", "quiesce", "apply">>, {"check", "make", "boot", "quiesce",
  "apply"})
  <2> DEFINE s == <<"check", "make", "boot", "quiesce", "apply">>
  <2>1. Len(s) = 5 /\ s[1] = "check" /\ s[2] = "make" /\ s[3] = "boot" /\ s[4] = "quiesce" /\ s[5] = "apply"
    OBVIOUS
  <2> QED
    BY <2>1 DEF Route, Ordered, Before, StepsOf, StepNames
<1>10. Route(<<"check", "boot">>, {"check", "boot"})
  <2> DEFINE s == <<"check", "boot">>
  <2>1. Len(s) = 2 /\ s[1] = "check" /\ s[2] = "boot"
    OBVIOUS
  <2> QED
    BY <2>1 DEF Route, Ordered, Before, StepsOf, StepNames
<1>11. Route(<<"check", "boot", "restore">>, {"check", "boot", "restore"})
  <2> DEFINE s == <<"check", "boot", "restore">>
  <2>1. Len(s) = 3 /\ s[1] = "check" /\ s[2] = "boot" /\ s[3] = "restore"
    OBVIOUS
  <2> QED
    BY <2>1 DEF Route, Ordered, Before, StepsOf, StepNames
<1>12. Route(<<"boot", "check", "compare", "restored">>, {"boot", "check", "compare", "restored"})
  <2> DEFINE s == <<"boot", "check", "compare", "restored">>
  <2>1. Len(s) = 4 /\ s[1] = "boot" /\ s[2] = "check" /\ s[3] = "compare" /\ s[4] = "restored"
    OBVIOUS
  <2> QED
    BY <2>1 DEF Route, Ordered, Before, StepsOf, StepNames
<1>13. Route(<<"boot", "restored">>, {"boot", "restored"})
  <2> DEFINE s == <<"boot", "restored">>
  <2>1. Len(s) = 2 /\ s[1] = "boot" /\ s[2] = "restored"
    OBVIOUS
  <2> QED
    BY <2>1 DEF Route, Ordered, Before, StepsOf, StepNames
<1>14. Route(<<"boot", "bootstrap", "configure">>, {"boot", "bootstrap", "configure"})
  <2> DEFINE s == <<"boot", "bootstrap", "configure">>
  <2>1. Len(s) = 3 /\ s[1] = "boot" /\ s[2] = "bootstrap" /\ s[3] = "configure"
    OBVIOUS
  <2> QED
    BY <2>1 DEF Route, Ordered, Before, StepsOf, StepNames
<1>15. Route(<<"boot", "quiesce", "bootstrap", "configure">>, {"boot", "quiesce", "bootstrap",
  "configure"})
  <2> DEFINE s == <<"boot", "quiesce", "bootstrap", "configure">>
  <2>1. Len(s) = 4 /\ s[1] = "boot" /\ s[2] = "quiesce" /\ s[3] = "bootstrap" /\ s[4] = "configure"
    OBVIOUS
  <2> QED
    BY <2>1 DEF Route, Ordered, Before, StepsOf, StepNames
<1>16. Route(<<"boot", "halt">>, {"boot", "halt"})
  <2> DEFINE s == <<"boot", "halt">>
  <2>1. Len(s) = 2 /\ s[1] = "boot" /\ s[2] = "halt"
    OBVIOUS
  <2> QED
    BY <2>1 DEF Route, Ordered, Before, StepsOf, StepNames
<1>17. Route(<<"check">>, {"check"})
  <2> DEFINE s == <<"check">>
  <2>1. Len(s) = 1 /\ s[1] = "check"
    OBVIOUS
  <2> QED
    BY <2>1 DEF Route, Ordered, Before, StepsOf, StepNames
<1>18. Route(<<"halt", "miss", "inform">>, {"halt", "miss", "inform"})
  <2> DEFINE s == <<"halt", "miss", "inform">>
  <2>1. Len(s) = 3 /\ s[1] = "halt" /\ s[2] = "miss" /\ s[3] = "inform"
    OBVIOUS
  <2> QED
    BY <2>1 DEF Route, Ordered, Before, StepsOf, StepNames
<1>19. Route(<<"boot", "quiesce", "activate", "bootstrap", "configure", "returned">>, {"boot",
  "quiesce", "activate", "bootstrap", "configure", "returned"})
  <2> DEFINE s == <<"boot", "quiesce", "activate", "bootstrap", "configure", "returned">>
  <2>1. Len(s) = 6 /\ s[1] = "boot" /\ s[2] = "quiesce" /\ s[3] = "activate"
         /\ s[4] = "bootstrap" /\ s[5] = "configure" /\ s[6] = "returned"
    OBVIOUS
  <2> QED
    BY <2>1 DEF Route, Ordered, Before, StepsOf, StepNames
<1>20. Route(<<"halt">>, {"halt"})
  <2> DEFINE s == <<"halt">>
  <2>1. Len(s) = 1 /\ s[1] = "halt"
    OBVIOUS
  <2> QED
    BY <2>1 DEF Route, Ordered, Before, StepsOf, StepNames
<1>21. Route(<<"stopping">>, {"stopping"})
  <2> DEFINE s == <<"stopping">>
  <2>1. Len(s) = 1 /\ s[1] = "stopping"
    OBVIOUS
  <2> QED
    BY <2>1 DEF Route, Ordered, Before, StepsOf, StepNames
<1> QED
  BY <1>1, <1>2, <1>3, <1>4, <1>5, <1>6, <1>7, <1>8, <1>9, <1>10, <1>11, <1>12, <1>13, <1>14,
     <1>15, <1>16, <1>17, <1>18, <1>19, <1>20, <1>21

\* What each phase does.
LEMMA Plans ==
  ASSUME phase \in Phases
  PROVE
  /\ phase = "Drain" /\ Backed => Route(Steps, {"drain", "boot", "quiesce"})
  /\ phase = "Drain" /\ ~Backed => Route(Steps, {"drain", "halt"})
  /\ phase = "Backup" => Route(Steps, {"boot", "quiesce", "backup", "compare"})
  /\ phase = "BackupVerified" /\ Whole => Route(Steps, {"check", "halt"})
  /\ phase = "BackupVerified" /\ ~Whole => Route(Steps, {"check", "boot", "quiesce", "retire", "halt"})
  /\ phase = "Reset" => Route(Steps, {"check", "reset"})
  /\ phase = "Delete" /\ Lima => Route(Steps, {"check", "detach", "list", "images"})
  /\ phase = "Delete" /\ ~Lima => Route(Steps, {"check", "detach"})
  /\ phase = "Create" /\ Lima => Route(Steps, {"check", "make", "boot", "quiesce", "apply"})
  /\ phase = "Create" /\ ~Lima => Route(Steps, {"check", "boot"})
  /\ phase = "Restore" => Route(Steps, {"check", "boot", "restore"})
  /\ phase = "Verify" /\ Backed => Route(Steps, {"boot", "check", "compare", "restored"})
  /\ phase = "Verify" /\ ~Backed => Route(Steps, {"boot", "restored"})
  /\ phase = "Bootstrap" /\ Lima => Route(Steps, {"boot", "bootstrap", "configure"})
  /\ phase = "Bootstrap" /\ ~Lima => Route(Steps, {"boot", "quiesce", "bootstrap", "configure"})
  /\ phase = "Capacity" => Route(Steps, {"boot", "halt"})
  /\ phase = "Cleanup" => Route(Steps, {"check"})
<1>1. ASSUME phase = "Drain" /\ Backed PROVE Route(Steps, {"drain", "boot", "quiesce"})
  <2>1. Steps = <<"drain", "boot", "quiesce">>
    BY <1>1 DEF Steps
  <2> QED
    BY <2>1, AllRoutes
<1>2. ASSUME phase = "Drain" /\ ~Backed PROVE Route(Steps, {"drain", "halt"})
  <2>1. Steps = <<"drain", "halt">>
    BY <1>2 DEF Steps
  <2> QED
    BY <2>1, AllRoutes
<1>3. ASSUME phase = "Backup" PROVE Route(Steps, {"boot", "quiesce", "backup", "compare"})
  <2>1. Steps = <<"boot", "quiesce", "backup", "compare">>
    BY <1>3 DEF Steps
  <2> QED
    BY <2>1, AllRoutes
<1>4. ASSUME phase = "BackupVerified" /\ Whole PROVE Route(Steps, {"check", "halt"})
  <2>1. Steps = <<"check", "halt">>
    BY <1>4 DEF Steps
  <2> QED
    BY <2>1, AllRoutes
<1>5. ASSUME phase = "BackupVerified" /\ ~Whole PROVE Route(Steps, {"check", "boot", "quiesce",
  "retire", "halt"})
  <2>1. Steps = <<"check", "boot", "quiesce", "retire", "halt">>
    BY <1>5 DEF Steps
  <2> QED
    BY <2>1, AllRoutes
<1>6. ASSUME phase = "Reset" PROVE Route(Steps, {"check", "reset"})
  <2>1. Steps = <<"check", "reset">>
    BY <1>6 DEF Steps
  <2> QED
    BY <2>1, AllRoutes
<1>7. ASSUME phase = "Delete" /\ Lima PROVE Route(Steps, {"check", "detach", "list", "images"})
  <2>1. Steps = <<"check", "detach", "list", "images">>
    BY <1>7 DEF Steps
  <2> QED
    BY <2>1, AllRoutes
<1>8. ASSUME phase = "Delete" /\ ~Lima PROVE Route(Steps, {"check", "detach"})
  <2>1. Steps = <<"check", "detach">>
    BY <1>8 DEF Steps
  <2> QED
    BY <2>1, AllRoutes
<1>9. ASSUME phase = "Create" /\ Lima PROVE Route(Steps, {"check", "make", "boot", "quiesce",
  "apply"})
  <2>1. Steps = <<"check", "make", "boot", "quiesce", "apply">>
    BY <1>9 DEF Steps
  <2> QED
    BY <2>1, AllRoutes
<1>10. ASSUME phase = "Create" /\ ~Lima PROVE Route(Steps, {"check", "boot"})
  <2>1. Steps = <<"check", "boot">>
    BY <1>10 DEF Steps
  <2> QED
    BY <2>1, AllRoutes
<1>11. ASSUME phase = "Restore" PROVE Route(Steps, {"check", "boot", "restore"})
  <2>1. Steps = <<"check", "boot", "restore">>
    BY <1>11 DEF Steps
  <2> QED
    BY <2>1, AllRoutes
<1>12. ASSUME phase = "Verify" /\ Backed PROVE Route(Steps, {"boot", "check", "compare",
  "restored"})
  <2>1. Steps = <<"boot", "check", "compare", "restored">>
    BY <1>12 DEF Steps
  <2> QED
    BY <2>1, AllRoutes
<1>13. ASSUME phase = "Verify" /\ ~Backed PROVE Route(Steps, {"boot", "restored"})
  <2>1. Steps = <<"boot", "restored">>
    BY <1>13 DEF Steps
  <2> QED
    BY <2>1, AllRoutes
<1>14. ASSUME phase = "Bootstrap" /\ Lima PROVE Route(Steps, {"boot", "bootstrap", "configure"})
  <2>1. Steps = <<"boot", "bootstrap", "configure">>
    BY <1>14 DEF Steps
  <2> QED
    BY <2>1, AllRoutes
<1>15. ASSUME phase = "Bootstrap" /\ ~Lima PROVE Route(Steps, {"boot", "quiesce", "bootstrap",
  "configure"})
  <2>1. Steps = <<"boot", "quiesce", "bootstrap", "configure">>
    BY <1>15 DEF Steps
  <2> QED
    BY <2>1, AllRoutes
<1>16. ASSUME phase = "Capacity" PROVE Route(Steps, {"boot", "halt"})
  <2>1. Steps = <<"boot", "halt">>
    BY <1>16 DEF Steps
  <2> QED
    BY <2>1, AllRoutes
<1>17. ASSUME phase = "Cleanup" PROVE Route(Steps, {"check"})
  <2>1. Steps = <<"check">>
    BY <1>17 DEF Steps
  <2> QED
    BY <2>1, AllRoutes
<1> QED
  BY <1>1, <1>2, <1>3, <1>4, <1>5, <1>6, <1>7, <1>8, <1>9, <1>10, <1>11, <1>12, <1>13, <1>14,
     <1>15, <1>16, <1>17

\* A tick goes on with what is left of it.
Walked ==
  /\ todo' \in Seq(StepNames) /\ InOrder'
  /\ Left = {Head(todo)} \cup Left' /\ Left \subseteq StepNames
  /\ Head(todo) = "compare" => "backup" \notin Left
  /\ Head(todo) = "boot" => "make" \notin Left
  /\ Head(todo) = "apply" => "boot" \notin Left
  /\ Head(todo) = "detach" => "check" \notin Left
  /\ Head(todo) = "configure" => "boot" \notin Left
  /\ Head(todo) = "save" => Left' = {}

Stays == todo' \in Seq(StepNames) /\ InOrder' /\ Left' = Left

LEMMA WalkedBy ==
  ASSUME todo \in Seq(StepNames), InOrder, todo # <<>>, todo' = Tail(todo)
  PROVE  Walked
<1>1. {"backup", "compare", "make", "boot", "apply", "check", "detach", "configure"}
        \subseteq StepNames
  BY DEF StepNames
<1>2. /\ todo' \in Seq(StepNames) /\ Ordered(todo)' /\ StepsOf(todo) \subseteq StepNames
      /\ StepsOf(todo) = {Head(todo)} \cup StepsOf(todo)'
      /\ \A x, y \in StepNames : Before(todo, x, y) /\ Head(todo) = y => x \notin StepsOf(todo)
      /\ Head(todo) = "save" => StepsOf(todo)' = {}
  BY TailOf, StepsAre DEF InOrder
<1>3. /\ Before(todo, "backup", "compare") /\ Before(todo, "make", "boot")
      /\ Before(todo, "boot", "apply") /\ Before(todo, "check", "detach")
      /\ Before(todo, "boot", "configure")
  BY DEF InOrder, Ordered
<1> QED
  BY <1>1, <1>2, <1>3 DEF Walked, InOrder, Left

LEMMA StaysBy ==
  ASSUME todo \in Seq(StepNames), InOrder, todo' = todo
  PROVE  Stays
BY DEF Stays, InOrder, Left

LEMMA Heads ==
  ASSUME todo \in Seq(StepNames), todo # <<>>
  PROVE  Head(todo) \in Left
BY DEF Left, StepsOf

LEMMA EmptySteps == <<>> \in Seq(StepNames) /\ Ordered(<<>>) /\ StepsOf(<<>>) = {}
BY DEF Ordered, Before, StepsOf

\* A tick begins, or is given up.
LEMMA GivenBy ==
  /\ todo' = <<>> => todo' \in Seq(StepNames) /\ InOrder' /\ Left' = {}
  /\ todo' = <<"stopping">> => todo' \in Seq(StepNames) /\ InOrder' /\ Left' = {"stopping"}
  /\ todo' = <<"halt">> => todo' \in Seq(StepNames) /\ InOrder' /\ Left' = {"halt"}
  /\ todo' = Missing =>
       /\ todo' \in Seq(StepNames) /\ InOrder'
       /\ Left' = {"halt", "miss", "inform"} /\ Left' = StepsOf(Missing)
  /\ todo' = Returning =>
       /\ todo' \in Seq(StepNames) /\ InOrder' /\ Left' = StepsOf(Returning)
       /\ Left' = {"boot", "quiesce", "activate", "bootstrap", "configure", "returned"}
<1>1. /\ StepsOf(Missing) = {"halt", "miss", "inform"} /\ Missing \in Seq(StepNames)
      /\ Ordered(Missing)
  BY AllRoutes DEF Missing, Route
<1>2. /\ StepsOf(Returning)
           = {"boot", "quiesce", "activate", "bootstrap", "configure", "returned"}
      /\ Returning \in Seq(StepNames) /\ Ordered(Returning)
  BY AllRoutes DEF Returning, Route
<1>3. /\ StepsOf(<<"stopping">>) = {"stopping"} /\ <<"stopping">> \in Seq(StepNames)
      /\ Ordered(<<"stopping">>)
  BY AllRoutes DEF Route
<1>4. /\ StepsOf(<<"halt">>) = {"halt"} /\ <<"halt">> \in Seq(StepNames) /\ Ordered(<<"halt">>)
  BY AllRoutes DEF Route
<1> QED
  BY <1>1, <1>2, <1>3, <1>4, EmptySteps DEF InOrder, Left

\* Which phase a step belongs to.
LEMMA Where ==
  ASSUME TypeOK, Routes, Phased, NEW x \in Left
  PROVE  /\ x \in {"check", "save"} => kind # "none" /\ Saves
         /\ x = "drain" => kind # "none" /\ Saves /\ phase = "Drain"
         /\ x = "backup" => kind = "resize" /\ Saves /\ phase = "Backup"
         /\ x = "compare" => kind = "resize" /\ Saves /\ phase \in {"Backup", "Verify"}
         /\ x = "retire" => kind = "resize" /\ Lima /\ Saves /\ phase = "BackupVerified"
         /\ x = "reset" => kind # "none" /\ Saves /\ phase = "Reset"
         /\ x = "detach" => kind # "none" /\ Saves /\ phase = "Delete"
         /\ x \in {"list", "images"} => kind # "none" /\ Lima /\ Saves /\ phase = "Delete"
         /\ x \in {"make", "apply"} => Remakes /\ Lima /\ Saves /\ phase = "Create"
         /\ x = "restore" => kind = "resize" /\ Saves /\ phase = "Restore"
         /\ x = "restored" => kind # "none" /\ Saves /\ phase = "Verify"
         /\ x \in {"bootstrap", "configure"} => kind = "none" \/ (Saves /\ phase = "Bootstrap")
         /\ x \in {"miss", "inform"} =>
              kind = "none" /\ ~disabled /\ Lima /\ Left \subseteq StepsOf(Missing)
         /\ x \in {"activate", "returned"} => kind = "none" /\ ~disabled
         /\ x = "stopping" => Left \subseteq {"stopping"}
         /\ x = "halt" => "configure" \notin Left
         /\ x = "boot" =>
              \/ kind = "none" /\ ~disabled
              \/ Remakes /\ Saves /\ phase \notin {"Reset", "Delete", "Cleanup"}
<1> DEFINE P == StepsOf(Steps)
<1>1. kind \in Kinds /\ phase \in Phases /\ provider \in {"Lima", "Multipass"}
  BY DEF TypeOK, JournalType, SettingsType
<1>2. /\ StepsOf(Missing) = {"halt", "miss", "inform"}
      /\ StepsOf(Returning) = {"boot", "quiesce", "activate", "bootstrap", "configure", "returned"}
  BY AllRoutes DEF Missing, Returning, Route
<1>3. /\ phase = "Drain" /\ Backed => P = {"drain", "boot", "quiesce"}
      /\ phase = "Drain" /\ ~Backed => P = {"drain", "halt"}
      /\ phase = "Backup" => P = {"boot", "quiesce", "backup", "compare"}
      /\ phase = "BackupVerified" /\ Whole => P = {"check", "halt"}
      /\ phase = "BackupVerified" /\ ~Whole => P = {"check", "boot", "quiesce", "retire", "halt"}
      /\ phase = "Reset" => P = {"check", "reset"}
      /\ phase = "Delete" /\ Lima => P = {"check", "detach", "list", "images"}
      /\ phase = "Delete" /\ ~Lima => P = {"check", "detach"}
      /\ phase = "Create" /\ Lima => P = {"check", "make", "boot", "quiesce", "apply"}
      /\ phase = "Create" /\ ~Lima => P = {"check", "boot"}
      /\ phase = "Restore" => P = {"check", "boot", "restore"}
      /\ phase = "Verify" /\ Backed => P = {"boot", "check", "compare", "restored"}
      /\ phase = "Verify" /\ ~Backed => P = {"boot", "restored"}
      /\ phase = "Bootstrap" /\ Lima => P = {"boot", "bootstrap", "configure"}
      /\ phase = "Bootstrap" /\ ~Lima => P = {"boot", "quiesce", "bootstrap", "configure"}
      /\ phase = "Capacity" => P = {"boot", "halt"}
      /\ phase = "Cleanup" => P = {"check"}
  BY <1>1, Plans DEF Route
<1> HIDE DEF P
<1>4. CASE Left \subseteq {"halt"}
  BY <1>4
<1>5. CASE Left \subseteq {"stopping"}
  BY <1>5
<1>6. CASE Saves /\ kind # "none" /\ Left \subseteq P \cup {"save"}
  BY <1>1, <1>3, <1>6 DEF Phased, Lima, Backed, Whole, Remakes
<1>7. CASE kind = "none" /\ ~disabled /\ Lima /\ Left \subseteq StepsOf(Returning)
  BY <1>2, <1>7
<1>8. CASE kind = "none" /\ ~disabled /\ Lima /\ Left \subseteq StepsOf(Missing)
  BY <1>2, <1>8
<1> QED
  BY <1>4, <1>5, <1>6, <1>7, <1>8 DEF Routes, P

LEMMA RoutesKept ==
  ASSUME Routes, Walked \/ Stays, UNCHANGED <<kind, phase, provider, disabled>>
  PROVE  Routes'
<1>1. Steps' = Steps /\ (Lima' <=> Lima)
  BY DEF Steps, Backed, Whole, Lima
<1>2. Left' \subseteq Left
  BY DEF Walked, Stays
<1>3. "save" \in Left => "save" \in Left' \/ Left' = {}
  BY DEF Walked, Stays
<1>4. "backup" \in Left' => "compare" \in Left'
  BY <1>2 DEF Routes, Walked, Stays
<1>5. phase = "Create" /\ Lima /\ "boot" \in Left' /\ "save" \in Left' => "apply" \in Left'
  BY <1>2 DEF Routes, Walked, Stays, Saves
<1>6. Left' \subseteq {"halt"} \/ Left' \subseteq {"stopping"}
      \/ (("save" \in Left') /\ kind # "none" /\ Left' \subseteq StepsOf(Steps) \cup {"save"})
      \/ (kind = "none" /\ ~disabled /\ Lima /\ Left' \subseteq StepsOf(Returning))
      \/ (kind = "none" /\ ~disabled /\ Lima /\ Left' \subseteq StepsOf(Missing))
  BY <1>2, <1>3 DEF Routes, Saves
<1>7. Returning' = Returning /\ Missing' = Missing
  BY DEF Returning, Missing
<1> QED
  BY <1>1, <1>4, <1>5, <1>6, <1>7 DEF Routes, Saves

\* A tick begins.
LEMMA TickInv ==
  ASSUME IInv, TickBegins
  PROVE  IInv'
<1> DEFINE P == StepsOf(Steps)
<1>1. UNCHANGED <<settings, pool, absence, journal, disks, machine, contents, access, written>>
  BY DEF TickBegins
<1>2. /\ kind \in Kinds /\ phase \in Phases /\ provider \in {"Lima", "Multipass"}
      /\ locations \subseteq Volumes /\ lost \subseteq Volumes /\ gone \in 0..Wait
  BY DEF IInv, TypeOK, JournalType, SettingsType, TickType
<1>3. lost' \subseteq Volumes /\ gone' \in 0..Wait
  <2>1. lost' \in {lost, locations \ plugged} /\ gone' \in {gone, 0}
    BY DEF TickBegins
  <2> QED
    BY <1>2, <2>1
<1>4. /\ phase = "Drain" /\ Backed => P = {"drain", "boot", "quiesce"}
      /\ phase = "Drain" /\ ~Backed => P = {"drain", "halt"}
      /\ phase = "Backup" => P = {"boot", "quiesce", "backup", "compare"}
      /\ phase = "BackupVerified" /\ Whole => P = {"check", "halt"}
      /\ phase = "BackupVerified" /\ ~Whole => P = {"check", "boot", "quiesce", "retire", "halt"}
      /\ phase = "Reset" => P = {"check", "reset"}
      /\ phase = "Delete" /\ Lima => P = {"check", "detach", "list", "images"}
      /\ phase = "Delete" /\ ~Lima => P = {"check", "detach"}
      /\ phase = "Create" /\ Lima => P = {"check", "make", "boot", "quiesce", "apply"}
      /\ phase = "Create" /\ ~Lima => P = {"check", "boot"}
      /\ phase = "Restore" => P = {"check", "boot", "restore"}
      /\ phase = "Verify" /\ Backed => P = {"boot", "check", "compare", "restored"}
      /\ phase = "Verify" /\ ~Backed => P = {"boot", "restored"}
      /\ phase = "Bootstrap" /\ Lima => P = {"boot", "bootstrap", "configure"}
      /\ phase = "Bootstrap" /\ ~Lima => P = {"boot", "quiesce", "bootstrap", "configure"}
      /\ phase = "Capacity" => P = {"boot", "halt"}
      /\ phase = "Cleanup" => P = {"check"}
  BY <1>2, Plans DEF Route
<1>5. Steps \in Seq(StepNames) /\ Ordered(Steps) /\ "save" \notin P
  <2>1. Steps \in Seq(StepNames) /\ Ordered(Steps)
    BY <1>2, Plans DEF Route, Backed, Whole, Lima
  <2> QED
    BY <1>2, <1>4, <2>1 DEF Backed, Whole, Lima
<1>6. /\ Steps \o <<"save">> \in Seq(StepNames) /\ Ordered(Steps \o <<"save">>)
      /\ StepsOf(Steps \o <<"save">>) = P \cup {"save"}
  BY <1>5, SaveLast
<1> HIDE DEF P
<1>7. /\ todo' \in Seq(StepNames) /\ InOrder'
      /\ \/ Left' = {"stopping"} \/ Left' = {"halt"}
         \/ kind # "none" /\ Left' = P \cup {"save"}
         \/ /\ kind = "none" /\ ~disabled /\ Lima
            /\ Left' = StepsOf(Missing) /\ Left' = {"halt", "miss", "inform"}
  <2>1. todo' = Begun /\ todo' # <<>>
    BY DEF TickBegins
  <2>2. CASE todo' = <<"stopping">> \/ todo' = <<"halt">>
    BY <2>2, GivenBy
  <2>3. CASE kind # "none" /\ todo' = Steps \o <<"save">>
    BY <1>6, <2>3 DEF InOrder, Left
  <2>4. CASE kind = "none" /\ ~disabled /\ Lima /\ todo' = Missing
    BY <2>4, GivenBy
  <2> QED
    BY <2>1, <2>2, <2>3, <2>4 DEF Begun, Missing
<1>8. Saves' => kind # "none" /\ Left' = P \cup {"save"}
  BY <1>7 DEF Saves
<1>9. Lima' = Lima /\ Whole' = Whole /\ Steps' = Steps /\ Missing' = Missing
  BY <1>1 DEF Lima, Whole, Steps, Backed, Missing, settings, journal
<1>10. /\ phase = "Drain" /\ Backed => ~Since("quiesce")'
       /\ phase = "Backup" => ~Since("compare")'
       /\ phase = "BackupVerified" /\ ~Whole => ~Since("retire")'
       /\ phase = "Reset" => ~Since("reset")'
       /\ phase = "Delete" => ~Since("check")' /\ ~Since("detach")'
       /\ phase = "Create" => ~Since("boot")'
       /\ phase = "Verify" /\ Backed => ~Since("compare")'
  BY <1>4, <1>8 DEF Since, Whole, Lima
<1>11. /\ Lima /\ phase = "Delete" => ~Since("list")'
       /\ Lima /\ phase = "Create" => ~Since("make")' /\ ~Since("apply")'
  BY <1>4, <1>8 DEF Since
<1>12. /\ "configure" \in Left' => "boot" \in Left'
       /\ "backup" \in Left' => "compare" \in Left'
       /\ phase = "Create" /\ Lima /\ Saves' => "apply" \in Left'
  <2>1. CASE kind # "none" /\ Left' = P \cup {"save"}
    BY <1>2, <1>4, <2>1 DEF Backed, Whole, Lima
  <2> QED
    BY <1>7, <2>1 DEF Saves
<1>13. SettingsType' /\ JournalType' /\ MachineType' /\ Phased' /\ Bounded' /\ NothingForgotten'
  BY <1>1, <1>9 DEF IInv, TypeOK, SettingsType, JournalType, MachineType, Phased, Bounded, Made,
                    NothingForgotten
<1>14. TickType' /\ InOrder'
  BY <1>1, <1>3, <1>7 DEF IInv, TypeOK, TickType
<1>15. Routes'
  <2>1. \/ Left' \subseteq {"halt"} \/ Left' \subseteq {"stopping"}
        \/ Saves' /\ kind # "none" /\ Left' \subseteq P \cup {"save"}
        \/ kind = "none" /\ ~disabled /\ Lima /\ Left' \subseteq StepsOf(Missing)
    BY <1>7 DEF Saves
  <2> QED
    BY <1>1, <1>9, <1>12, <2>1 DEF Routes, P
<1>16. Placed'
  BY <1>1, <1>2, <1>9, <1>10, <1>11 DEF IInv, Placed, Remakes, Later2
<1>17. Powered'
  BY <1>1, <1>10, <1>12 DEF Powered
<1>18. Quiet' /\ Kept'
  BY <1>1, <1>10 DEF IInv, Quiet, Kept, Resting2, Backed
<1>19. Listed' /\ Imaged'
  BY <1>1, <1>9, <1>10, <1>11 DEF IInv, Listed, Imaged, Former, Made, Remakes, Later2
<1>20. Barred'
  BY <1>1, <1>9, <1>10 DEF IInv, Barred
<1> QED
  BY <1>13, <1>14, <1>15, <1>16, <1>17, <1>18, <1>19, <1>20 DEF IInv, TypeOK

\* The owner's switches.
LEMMA OwnerInv ==
  ASSUME IInv, Pause \/ Stop \/ (\E shares \in BOOLEAN : Resume(shares)) \/ SetRecovery \/
         RetryStorageMaintenance
  PROVE  IInv'
<1>1. UNCHANGED <<provider, locations, generation, disabled, retired, since, kind, phase, backup,
                  target, previous, plugged, images, installed, running, k3s, active, attached,
                  data, copy, access, todo, lost, seen, written, gone>>
  BY DEF Pause, Stop, Resume, SetRecovery, RetryStorageMaintenance
<1>2. /\ {enabled', consent', stop', failed', paused', error'} \subseteq BOOLEAN
      /\ kind = "none" => ~paused' /\ ~error'
  <2>1. /\ {enabled, consent, stop, failed, paused, error} \subseteq BOOLEAN
        /\ kind = "none" => ~paused /\ ~error
    BY DEF IInv, TypeOK, SettingsType, JournalType
  <2>2. CASE Pause
    BY <2>1, <2>2 DEF Pause
  <2>3. CASE Stop
    BY <2>1, <2>3 DEF Stop
  <2>4. CASE \E shares \in BOOLEAN : Resume(shares)
    <3> PICK shares \in BOOLEAN : Resume(shares)
      BY <2>4
    <3>1. /\ enabled' \in {enabled, TRUE} /\ UNCHANGED <<consent, failed, error>>
          /\ stop' = FALSE /\ paused' = FALSE
      BY <2>1 DEF Resume
    <3> QED
      BY <2>1, <3>1
  <2>5. CASE SetRecovery
    BY <2>1, <2>5 DEF SetRecovery
  <2>6. CASE RetryStorageMaintenance
    BY <2>1, <2>6 DEF RetryStorageMaintenance
  <2> QED
    BY <2>2, <2>3, <2>4, <2>5, <2>6
<1>3. Stays
  BY <1>1, StaysBy DEF IInv, TypeOK, TickType
<1>4. InOrder' /\ Routes'
  BY <1>1, <1>3, RoutesKept DEF IInv, Stays
<1>5. MachineType' /\ TickType' /\ Phased' /\ Placed' /\ Powered'
  BY <1>1, <1>3 DEF IInv, TypeOK, Stays, MachineType, TickType, Phased, Placed, Powered, Lima,
                    Whole, Remakes, Later2, Since, Saves
<1>6. Quiet' /\ Kept' /\ Bounded' /\ Listed' /\ Imaged'
  BY <1>1, <1>3 DEF IInv, TypeOK, Stays, Quiet, Kept, Bounded, Listed, Imaged, Resting2, Since,
                    Saves, Made, Former, Lima, Remakes, Later2
<1>7. Barred' /\ NothingForgotten'
  BY <1>1, <1>3 DEF IInv, TypeOK, Stays, Barred, NothingForgotten, Whole, Lima, Since, Saves
<1>8. SettingsType' /\ JournalType'
  BY <1>1, <1>2, <1>3 DEF IInv, TypeOK, Stays, SettingsType, JournalType
<1> QED
  BY <1>4, <1>5, <1>6, <1>7, <1>8 DEF IInv, TypeOK

\* A reviewed maintenance begins.
LEMMA ReviewInv ==
  ASSUME IInv, (\E disksToBe \in SUBSET Volumes, waits \in BOOLEAN : ReviewResize(disksToBe,
         waits)) \/ ReviewDelete
  PROVE  IInv'
<1>1. UNCHANGED <<provider, consent, stop, locations, generation, disabled, retired, since,
                  failed, plugged, images, installed, running, k3s, active, attached, data, copy,
                  access, todo, lost, seen, written>>
  BY DEF ReviewResize, ReviewDelete, Review, Begin
<1>2. /\ todo = <<>> /\ kind = "none" /\ generation < MaxGeneration
      /\ kind' \in {"resize", "delete"} /\ phase' = "Drain"
      /\ {enabled', paused', error', backup'} \subseteq BOOLEAN
      /\ gone' = 0
      /\ target' \subseteq Volumes
      /\ kind' = "resize" => ~disabled
      /\ ~Lima => target' = {}
      /\ previous' \subseteq (locations \X {generation}) \cup retired
      /\ locations \X {generation} \subseteq previous'
  BY DEF ReviewResize, ReviewDelete, Review, Begin, IInv, TypeOK, JournalType, SettingsType,
     TickType
<1>3. Stays
  BY <1>1, StaysBy DEF IInv, TypeOK, TickType
<1>4. Left = {} /\ Left' = {}
  BY <1>2, <1>3, EmptySteps DEF Left, Stays
<1>5. InOrder'
  BY <1>3 DEF Stays
<1>6. MachineType' /\ TickType'
  BY <1>1, <1>2, <1>3 DEF IInv, TypeOK, Stays, MachineType, TickType
<1>7. SettingsType' /\ JournalType' /\ Phased'
  BY <1>1, <1>2, <1>3, <1>4 DEF IInv, TypeOK, Stays, SettingsType, JournalType, Phased, Lima
<1>8. Routes'
  BY <1>1, <1>2, <1>3, <1>4 DEF IInv, Stays, Routes, Saves, Lima, Backed, Missing
<1>9. Placed' /\ Powered' /\ Quiet'
  BY <1>1, <1>2, <1>3, <1>4 DEF IInv, Stays, Placed, Lima, Whole, Remakes, Later2, Since, Saves,
    Powered, Quiet, Resting2
<1>10. Kept'
  BY <1>1, <1>2, <1>3, <1>4 DEF IInv, TypeOK, Stays, Kept, Resting2, Since, Saves, JournalType
<1>11. Bounded'
  BY <1>1, <1>2, <1>3, <1>4 DEF IInv, TypeOK, Stays, Bounded, Made, JournalType
<1>12. Listed'
  BY <1>1, <1>2, <1>3, <1>4 DEF IInv, TypeOK, Stays, Listed, Former, Lima, Made, Since, Saves,
    SettingsType
<1>13. Imaged'
  BY <1>1, <1>2, <1>3, <1>4 DEF IInv, TypeOK, Stays, Imaged, Lima, Remakes, Later2, Since, Saves,
    JournalType
<1>14. Barred'
  BY <1>1, <1>2, <1>3, <1>4 DEF IInv, TypeOK, Stays, Barred, Whole, Lima, Since, Saves,
    JournalType
<1>15. NothingForgotten'
  BY <1>1, <1>2, <1>3, <1>4 DEF IInv, TypeOK, Stays, NothingForgotten, JournalType
<1> QED
  BY <1>5, <1>6, <1>7, <1>8, <1>9, <1>10, <1>11, <1>12, <1>13, <1>14, <1>15 DEF IInv, TypeOK

\* Disks and the clock.
LEMMA HostInv ==
  ASSUME IInv, (\E v \in Volumes : Plug(v) \/ Unplug(v)) \/ Clock
  PROVE  IInv'
<1>1. UNCHANGED <<provider, enabled, consent, stop, locations, generation, disabled, retired,
                  failed, kind, phase, paused, error, backup, target, previous, images, installed,
                  running, k3s, active, attached, data, copy, access, todo, lost, seen, written>>
  BY DEF Plug, Unplug, Clock, Later
<1>2. /\ plugged' \subseteq Volumes
      /\ since' \in {None} \cup 0..Wait
      /\ gone' \in 0..Wait
  <2>1. plugged \subseteq Volumes /\ since \in {None} \cup 0..Wait /\ gone \in 0..Wait
    BY DEF IInv, TypeOK, SettingsType, MachineType, TickType
  <2>2. ASSUME NEW v \in Volumes, Plug(v) \/ Unplug(v)
        PROVE  plugged' \subseteq Volumes /\ UNCHANGED <<since, gone>>
    BY <2>1, <2>2 DEF Plug, Unplug
  <2>3. CASE Clock
    BY <2>1, <2>3 DEF Clock, Later
  <2> QED
    BY <2>1, <2>2, <2>3
<1>3. Stays
  BY <1>1, StaysBy DEF IInv, TypeOK, TickType
<1>4. InOrder' /\ Routes'
  BY <1>1, <1>3, RoutesKept DEF IInv, Stays
<1>5. JournalType' /\ Phased' /\ Placed' /\ Powered' /\ Quiet'
  BY <1>1, <1>3 DEF IInv, TypeOK, Stays, JournalType, Phased, Placed, Powered, Quiet, Lima, Whole,
                    Remakes, Later2, Since, Saves, Resting2
<1>6. Kept' /\ Bounded' /\ Listed' /\ Imaged' /\ Barred'
  BY <1>1, <1>3 DEF IInv, TypeOK, Stays, Kept, Bounded, Listed, Imaged, Barred, Resting2, Since,
                    Saves, Made, Former, Lima, Remakes, Later2, Whole
<1>7. NothingForgotten'
  BY <1>1, <1>3 DEF IInv, TypeOK, Stays, NothingForgotten
<1>8. SettingsType' /\ MachineType' /\ TickType'
  BY <1>1, <1>2, <1>3 DEF IInv, TypeOK, Stays, SettingsType, MachineType, TickType
<1> QED
  BY <1>4, <1>5, <1>6, <1>7, <1>8 DEF IInv, TypeOK

\* Workloads write to the pool that is attached.
LEMMA WorkInv ==
  ASSUME IInv, Work
  PROVE  IInv'
<1>1. UNCHANGED <<provider, enabled, consent, stop, locations, generation, disabled, retired,
                  since, failed, kind, phase, paused, error, backup, target, previous, plugged,
                  images, installed, running, k3s, active, attached, copy, access, todo, lost,
                  seen, gone>>
  BY DEF Work
<1>2. /\ active /\ attached # 0 /\ data[attached] \in Nat /\ written < MaxWork
      /\ data' = [data EXCEPT ![attached] = @ + 1] /\ written' = written + 1
  BY DEF Work, IInv, TypeOK, JournalType, SettingsType, TickType
<1>3. Stays
  BY <1>1, StaysBy DEF IInv, TypeOK, TickType
<1>4. /\ generation \in Generations
      /\ attached \in Generations
      /\ data \in [Generations -> Copies]
      /\ written \in 0..MaxWork /\ phase \in Phases /\ kind \in Kinds
  BY <1>2 DEF IInv, TypeOK, SettingsType, MachineType, JournalType, TickType
<1>5. /\ kind \in {"none", "delete"} => attached = generation
      /\ attached \in {generation, generation + 1}
      /\ attached = generation + 1 => kind # "delete" /\ Made
      /\ kind = "resize" /\ phase \in {"Drain", "Backup"} => attached = generation
      /\ kind = "resize" /\ phase \in Later2 => attached = generation + 1
  BY <1>2, <1>4 DEF IInv, Placed, Remakes, Later2, Made
<1>6. kind = "resize" => phase \in {"Drain", "Bootstrap", "Capacity", "Cleanup"}
  BY <1>2, <1>4 DEF IInv, Quiet, Resting2
<1>7. data[attached] <= written
  BY <1>4, <1>5 DEF IInv, Bounded
<1>8. InOrder' /\ Routes'
  BY <1>1, <1>3, RoutesKept DEF IInv, Stays
<1>9. SettingsType' /\ JournalType' /\ Phased' /\ Placed' /\ Powered'
  BY <1>1, <1>3 DEF IInv, TypeOK, Stays, SettingsType, JournalType, Phased, Placed, Powered, Lima,
                    Whole, Remakes, Later2, Since, Saves
<1>10. Quiet' /\ Listed' /\ Imaged' /\ Barred' /\ NothingForgotten'
  BY <1>1, <1>3 DEF IInv, TypeOK, Stays, Quiet, Listed, Imaged, Barred, NothingForgotten,
                    Resting2, Since, Saves, Former, Lima, Made, Remakes, Later2, Whole
<1>11. MachineType'
  <2>1. {installed', running', k3s', active', access'} \subseteq BOOLEAN
    BY <1>1, <1>2, <1>4, <1>7 DEF IInv, TypeOK, MachineType
  <2>2. (active' => running') /\ (running' => installed')
    BY <1>1, <1>2, <1>4, <1>7 DEF IInv, TypeOK, MachineType
  <2>3. data' \in [Generations -> Copies] /\ copy' \in Copies
    BY <1>1, <1>2, <1>4, <1>7 DEF IInv, TypeOK, MachineType
  <2>4. attached' \in {0} \cup Generations
    BY <1>1, <1>2, <1>4, <1>7 DEF IInv, TypeOK, MachineType
  <2> QED
    BY <1>1, <1>2, <1>4, <1>7, <2>1, <2>2, <2>3, <2>4 DEF IInv, TypeOK, MachineType
<1>12. TickType'
  BY <1>1, <1>2, <1>3, <1>4, <1>5, <1>6, <1>7 DEF IInv, TypeOK, Stays, TickType
<1>13. Kept'
  BY <1>1, <1>2, <1>3, <1>4, <1>5, <1>6 DEF IInv, Kept, Resting2, Since, Saves, Stays, Later2
<1>14. Bounded'
  <2>1. /\ data' \in [Generations -> Int] /\ copy \in Copies
        /\ \A g \in Generations : data'[g] = IF g = attached THEN data[g] + 1 ELSE data[g]
        /\ data[attached] \in Nat
    BY <1>2, <1>4 DEF IInv, TypeOK, MachineType
  <2>2. written' = written + 1 /\ copy <= written
    BY <1>2 DEF IInv, Bounded
  <2>3. ASSUME NEW g \in Generations, g >= generation PROVE data'[g] <= written'
    <3>1. data[g] <= written
      BY <2>3 DEF IInv, Bounded
    <3> QED
      BY <1>4, <2>1, <2>2, <3>1
  <2>4. ASSUME NEW g \in Generations,
               g > generation + 1 \/ (g = generation + 1 /\ (~Made \/ kind = "delete"))
        PROVE  data'[g] = Gone
    <3>1. data[g] = Gone
      BY <2>4 DEF IInv, Bounded
    <3>2. g # attached
      BY <1>2, <3>1
    <3> QED
      BY <2>1, <3>1, <3>2
  <2>5. /\ kind = "recovery" => data'[generation + 1] # Torn
        /\ kind = "recovery" /\ attached = generation + 1 => data'[generation + 1] # Gone
    <3>1. kind = "recovery" => generation + 1 \in Generations
      BY <1>4 DEF IInv, TypeOK, JournalType
    <3> QED
      BY <2>1, <3>1 DEF IInv, Bounded
  <2>6. written \in Nat /\ copy <= written'
    BY <1>4, <2>1, <2>2
  <2> QED
    BY <1>1, <2>3, <2>4, <2>5, <2>6 DEF Bounded, Made
<1> QED
  BY <1>8, <1>9, <1>10, <1>11, <1>12, <1>13, <1>14 DEF IInv, TypeOK

\* The ordinary tick.
LEMMA ServeInv ==
  ASSUME IInv, Serve
  PROVE  IInv'
<1>1. UNCHANGED <<provider, enabled, consent, stop, locations, generation, disabled, retired,
                  since, failed, kind, phase, paused, error, backup, target, previous, plugged,
                  images, installed, attached, data, copy, todo, lost, seen, written, gone>>
  BY DEF Serve, Off
<1>2. /\ todo = <<>> /\ kind = "none" /\ ~disabled
      /\ {running', k3s', active', access'} \subseteq BOOLEAN /\ (active' => running')
  <2>1. todo = <<>> /\ Begun = <<>> /\ ~disabled
    BY DEF Serve
  <2>2. Steps \in Seq(StepNames)
    BY Plans DEF IInv, TypeOK, JournalType, Route, Backed, Whole, Lima
  <2>3. Steps \o <<"save">> # <<>>
    BY <2>2 DEF StepNames
  <2>4. kind = "none"
    BY <2>1, <2>3 DEF Begun
  <2>5. {running, k3s, active, access} \subseteq BOOLEAN
    BY DEF IInv, TypeOK, MachineType
  <2> QED
    BY <2>1, <2>4, <2>5 DEF Serve, Off
<1>3. Stays
  BY <1>1, StaysBy DEF IInv, TypeOK, TickType
<1>4. Left = {} /\ Left' = {}
  BY <1>2, <1>3, EmptySteps DEF Left, Stays
<1>5. InOrder' /\ Routes'
  BY <1>1, <1>3, RoutesKept DEF IInv, Stays
<1>6. SettingsType' /\ JournalType' /\ TickType' /\ Phased' /\ Placed'
  BY <1>1, <1>3 DEF IInv, TypeOK, Stays, SettingsType, JournalType, TickType, Phased, Placed,
                    Lima, Whole, Remakes, Later2, Since, Saves
<1>7. Kept' /\ Bounded' /\ Listed' /\ NothingForgotten'
  BY <1>1, <1>3 DEF IInv, TypeOK, Stays, Kept, Bounded, Listed, NothingForgotten, Resting2, Since,
                    Saves, Made, Former, Lima
<1>8. MachineType'
  <2>1. {installed', running', k3s', active', access'} \subseteq BOOLEAN
    BY <1>1, <1>2 DEF IInv, TypeOK, MachineType, Placed
  <2>2. (active' => running') /\ (running' => installed')
    BY <1>1, <1>2 DEF IInv, TypeOK, MachineType, Placed
  <2>3. data' \in [Generations -> Copies] /\ copy' \in Copies
    BY <1>1, <1>2 DEF IInv, TypeOK, MachineType
  <2>4. attached' \in {0} \cup Generations
    BY <1>1, <1>2 DEF IInv, TypeOK, MachineType
  <2> QED
    BY <1>1, <1>2, <2>1, <2>2, <2>3, <2>4 DEF IInv, TypeOK, MachineType
<1>9. Powered'
  BY <1>4 DEF Powered, Since, Saves
<1>10. Quiet' /\ Imaged' /\ Barred'
  BY <1>1, <1>2, <1>3, <1>4 DEF IInv, Stays, Quiet, Resting2, Since, Saves, Imaged, Lima, Remakes,
    Later2, Barred, Whole
<1> QED
  BY <1>5, <1>6, <1>7, <1>8, <1>9, <1>10 DEF IInv, TypeOK

\* Before a disk is touched the machine is off.
LEMMA CheckedInv ==
  ASSUME IInv, Checked
  PROVE  IInv'
<1>1. UNCHANGED <<provider, enabled, consent, stop, locations, generation, disabled, retired,
                  since, failed, kind, phase, paused, error, backup, target, previous, plugged,
                  images, installed, running, k3s, active, attached, data, copy, access, written,
                  gone>>
  BY DEF Checked, Pass, At, Done, Goto
<1>2. /\ todo # <<>> /\ Head(todo) = "check"
      /\ phase = "Delete" => ~running
      /\ todo' = Tail(todo)
      /\ lost' \subseteq Volumes
  BY DEF Checked, Pass, At, Done, Goto, IInv, TypeOK, JournalType, SettingsType, TickType
<1>3. Walked
  BY <1>2, WalkedBy DEF IInv, TypeOK, TickType
<1>4. kind # "none" /\ Saves
  BY <1>2, Heads, Where DEF IInv, TypeOK, TickType
<1>5. SettingsType' /\ JournalType' /\ MachineType' /\ Phased' /\ Bounded'
  BY <1>1 DEF IInv, TypeOK, SettingsType, JournalType, MachineType, Phased, Bounded, Lima, Made
<1>6. NothingForgotten'
  BY <1>1 DEF IInv, TypeOK, NothingForgotten
<1>7. TickType' /\ InOrder' /\ Placed'
  BY <1>1, <1>2, <1>3, <1>4 DEF IInv, TypeOK, Walked, TickType, Placed, Lima, Whole, Remakes,
    Later2, Since, Saves
<1>8. Routes'
  BY <1>1, <1>3, RoutesKept DEF IInv
<1>9. Powered' /\ Quiet' /\ Kept'
  BY <1>1, <1>2, <1>3, <1>4 DEF IInv, Walked, Powered, Since, Saves, Quiet, Resting2, Kept
<1>10. Listed' /\ Imaged' /\ Barred'
  BY <1>1, <1>2, <1>3, <1>4 DEF IInv, Walked, Listed, Former, Lima, Made, Since, Saves, Imaged,
    Remakes, Later2, Barred, Whole
<1> QED
  BY <1>5, <1>6, <1>7, <1>8, <1>9, <1>10 DEF IInv, TypeOK

\* The copy is the pool.
LEMMA CompareInv ==
  ASSUME IInv, Compare
  PROVE  IInv'
<1>1. UNCHANGED <<provider, enabled, consent, stop, locations, generation, disabled, retired,
                  since, failed, kind, phase, paused, error, backup, target, previous, plugged,
                  images, installed, running, k3s, active, attached, data, copy, access, written,
                  gone>>
  BY DEF Compare, Pass, At, Done, Goto
<1>2. /\ todo # <<>> /\ Head(todo) = "compare"
      /\ copy = data[attached]
      /\ todo' = Tail(todo)
      /\ lost' \subseteq Volumes
  BY DEF Compare, Pass, At, Done, Goto, IInv, TypeOK, JournalType, SettingsType, TickType
<1>3. Walked
  BY <1>2, WalkedBy DEF IInv, TypeOK, TickType
<1>4. kind = "resize" /\ Saves /\ phase \in {"Backup", "Verify"}
  BY <1>2, Heads, Where DEF IInv, TypeOK, TickType
<1>5. SettingsType' /\ JournalType' /\ MachineType' /\ Phased' /\ Bounded'
  BY <1>1 DEF IInv, TypeOK, SettingsType, JournalType, MachineType, Phased, Bounded, Lima, Made
<1>6. NothingForgotten'
  BY <1>1 DEF IInv, TypeOK, NothingForgotten
<1>7. TickType' /\ InOrder' /\ Placed'
  BY <1>1, <1>2, <1>3, <1>4 DEF IInv, TypeOK, Walked, TickType, Placed, Lima, Whole, Remakes,
    Later2, Since, Saves
<1>8. Routes'
  BY <1>1, <1>3, RoutesKept DEF IInv
<1>9. Powered' /\ Quiet' /\ Kept'
  BY <1>1, <1>2, <1>3, <1>4 DEF IInv, Walked, Powered, Since, Saves, Quiet, Resting2, Kept
<1>10. Listed' /\ Imaged' /\ Barred'
  BY <1>1, <1>2, <1>3, <1>4 DEF IInv, Walked, Listed, Former, Lima, Made, Since, Saves, Imaged,
    Remakes, Later2, Barred, Whole
<1> QED
  BY <1>5, <1>6, <1>7, <1>8, <1>9, <1>10 DEF IInv, TypeOK

\* Steps that only look.
LEMMA PassInv ==
  ASSUME IInv, Restored \/ Activate \/ Drain(TRUE) \/ ImagesGone
  PROVE  IInv'
<1>1. UNCHANGED <<provider, enabled, consent, stop, locations, generation, disabled, retired,
                  since, failed, kind, phase, paused, error, backup, target, previous, plugged,
                  images, installed, running, k3s, active, attached, data, copy, access, written,
                  gone>>
  BY DEF Restored, Activate, Drain, ImagesGone, Pass, At, Done, Goto
<1>2. /\ todo # <<>> /\ Head(todo) \in {"restored", "activate", "drain", "images"}
      /\ todo' = Tail(todo)
      /\ lost' \subseteq Volumes
  BY DEF Restored, Activate, Drain, ImagesGone, Pass, At, Done, Goto, IInv, TypeOK, JournalType,
     SettingsType, TickType
<1>3. Walked
  BY <1>2, WalkedBy DEF IInv, TypeOK, TickType
<1>4. SettingsType' /\ JournalType' /\ MachineType' /\ Phased' /\ Bounded'
  BY <1>1 DEF IInv, TypeOK, SettingsType, JournalType, MachineType, Phased, Bounded, Lima, Made
<1>5. NothingForgotten'
  BY <1>1 DEF IInv, TypeOK, NothingForgotten
<1>6. TickType' /\ InOrder' /\ Placed'
  BY <1>1, <1>2, <1>3 DEF IInv, TypeOK, Walked, TickType, Placed, Lima, Whole, Remakes, Later2,
                          Since, Saves
<1>7. Routes'
  BY <1>1, <1>3, RoutesKept DEF IInv
<1>8. Powered' /\ Quiet' /\ Kept'
  BY <1>1, <1>2, <1>3 DEF IInv, Walked, Powered, Since, Saves, Quiet, Resting2, Kept
<1>9. Listed' /\ Imaged' /\ Barred'
  BY <1>1, <1>2, <1>3 DEF IInv, Walked, Listed, Former, Lima, Made, Since, Saves, Imaged, Remakes,
                          Later2, Barred, Whole
<1> QED
  BY <1>4, <1>5, <1>6, <1>7, <1>8, <1>9 DEF IInv, TypeOK

\* A machine starts, or is made anew.
LEMMA BootInv ==
  ASSUME IInv, Boot
  PROVE  IInv'
<1>1. UNCHANGED <<provider, enabled, consent, stop, locations, generation, disabled, retired,
                  since, failed, kind, phase, paused, error, backup, target, previous, plugged,
                  images, copy, access, written, gone>>
  BY DEF Boot, At, Done, Goto
<1>2. /\ todo # <<>> /\ Head(todo) = "boot"
      /\ installed' = TRUE /\ running' = TRUE
      /\ active' = (active \/ (installed /\ k3s))
      /\ IF installed THEN UNCHANGED <<data, k3s, attached>>
         ELSE k3s' = FALSE /\ attached' = IF Lima THEN 0 ELSE generation + 1
      /\ ~installed => data' = IF Lima THEN data ELSE [data EXCEPT ![generation + 1] = 0]
      /\ todo' = Tail(todo)
      /\ lost' \subseteq Volumes
  BY DEF Boot, At, Done, Goto, IInv, TypeOK, JournalType, SettingsType, TickType
<1>3. Walked
  BY <1>2, WalkedBy DEF IInv, TypeOK, TickType
<1>4. \/ kind = "none" /\ ~disabled
      \/ Remakes /\ Saves /\ phase \notin {"Reset", "Delete", "Cleanup"}
  BY <1>2, Heads, Where DEF IInv, TypeOK, TickType
<1>5. /\ generation \in Generations /\ installed \in BOOLEAN
      /\ kind # "none" => generation + 1 \in Generations
      /\ data \in [Generations -> Copies] /\ written \in 0..MaxWork /\ phase \in Phases
  BY DEF IInv, TypeOK, SettingsType, MachineType, JournalType, TickType
<1>6. ~installed => Remakes /\ phase = "Create" /\ attached = 0
  BY <1>4, <1>5 DEF IInv, Placed, Remakes, Later2, Whole
<1>7. installed => UNCHANGED <<data, k3s, attached>>
  BY <1>2
<1>8. SettingsType' /\ JournalType' /\ Phased' /\ NothingForgotten'
  BY <1>1 DEF IInv, TypeOK, SettingsType, JournalType, Phased, NothingForgotten, Lima
<1>9. MachineType'
  <2>1. {installed', running', k3s', active', access'} \subseteq BOOLEAN
    BY <1>1, <1>2, <1>5, <1>6 DEF IInv, TypeOK, MachineType, Remakes
  <2>2. (active' => running') /\ (running' => installed')
    BY <1>1, <1>2, <1>5, <1>6 DEF IInv, TypeOK, MachineType, Remakes
  <2>3. data' \in [Generations -> Copies] /\ copy' \in Copies
    BY <1>1, <1>2, <1>5, <1>6 DEF IInv, TypeOK, MachineType, Remakes
  <2>4. attached' \in {0} \cup Generations
    BY <1>1, <1>2, <1>5, <1>6 DEF IInv, TypeOK, MachineType, Remakes
  <2> QED
    BY <1>1, <1>2, <1>5, <1>6, <2>1, <2>2, <2>3, <2>4 DEF IInv, TypeOK, MachineType
<1>10. TickType' /\ InOrder' /\ Placed'
  BY <1>1, <1>2, <1>3, <1>4, <1>5, <1>6, <1>7 DEF IInv, TypeOK, Walked, TickType, Placed, Lima,
    Whole, Remakes, Later2, Since, Saves
<1>11. Routes'
  BY <1>1, <1>3, RoutesKept DEF IInv
<1>12. Powered'
  <2>1. Saves => kind # "none"
    BY Where DEF Saves, IInv
  <2>2. "save" \in Left' => "save" \in Left
    BY <1>3 DEF Walked
  <2> QED
    BY <1>1, <1>2, <1>4, <2>1, <2>2 DEF Powered, Since, Saves
<1>13. Quiet'
  BY <1>1, <1>2, <1>3, <1>4, <1>5, <1>6, <1>7 DEF IInv, TypeOK, Walked, Quiet, Resting2, Since,
    Saves, JournalType
<1>14. Kept'
  <2>1. CASE installed
    BY <1>1, <1>2, <1>3, <1>7, <2>1 DEF IInv, Walked, Kept, Resting2, Since, Saves
  <2>2. CASE ~installed
    BY <1>1, <1>3, <1>6, <2>2 DEF IInv, Walked, Kept, Resting2, Since, Saves, Remakes
  <2> QED
    BY <1>5, <2>1, <2>2
<1>15. Bounded'
  <2>1. CASE installed
    BY <1>1, <1>7, <2>1 DEF IInv, Bounded, Made
  <2>2. CASE ~installed
    <3>1. kind = "recovery" => Lima
      BY DEF IInv, Phased
    <3>2. kind \in {"resize", "recovery"} /\ Made
      BY <1>6, <2>2 DEF Remakes, Made
    <3>3. CASE Lima
      BY <1>1, <1>2, <1>5, <2>2, <3>2, <3>3 DEF IInv, Bounded, Made
    <3>4. CASE ~Lima
      BY <1>1, <1>2, <1>5, <2>2, <3>1, <3>2, <3>4 DEF IInv, Bounded, Made
    <3> QED
      BY <3>3, <3>4
  <2> QED
    BY <1>5, <2>1, <2>2
<1>16. Listed'
  BY <1>1, <1>2, <1>3, <1>4, <1>5, <1>6, <1>7 DEF IInv, TypeOK, Walked, Listed, Former, Lima,
    Made, Since, Saves, JournalType
<1>17. Imaged'
  BY <1>1, <1>2, <1>3, <1>4, <1>5, <1>6, <1>7 DEF IInv, TypeOK, Walked, Imaged, Lima, Remakes,
    Later2, Since, Saves, JournalType
<1>18. Barred'
  BY <1>1, <1>2, <1>3, <1>4, <1>5, <1>6, <1>7 DEF IInv, Walked, Barred, Whole, Lima, Since, Saves
<1> QED
  BY <1>8, <1>9, <1>10, <1>11, <1>12, <1>13, <1>14, <1>15, <1>16, <1>17, <1>18 DEF IInv, TypeOK

\* The service is stopped for good.
LEMMA QuiesceInv ==
  ASSUME IInv, Quiesce
  PROVE  IInv'
<1>1. UNCHANGED <<provider, enabled, consent, stop, locations, generation, disabled, retired,
                  since, failed, kind, phase, paused, error, backup, target, previous, plugged,
                  images, installed, running, attached, data, copy, access, written, gone>>
  BY DEF Quiesce, At, Done, Goto
<1>2. /\ todo # <<>> /\ Head(todo) = "quiesce"
      /\ k3s' = FALSE /\ active' = FALSE
      /\ todo' = Tail(todo)
      /\ lost' \subseteq Volumes
  BY DEF Quiesce, At, Done, Goto, IInv, TypeOK, JournalType, SettingsType, TickType
<1>3. Walked
  BY <1>2, WalkedBy DEF IInv, TypeOK, TickType
<1>4. SettingsType' /\ JournalType' /\ Phased' /\ Bounded' /\ NothingForgotten'
  BY <1>1 DEF IInv, TypeOK, SettingsType, JournalType, Phased, Bounded, NothingForgotten, Lima,
              Made
<1>5. MachineType' /\ TickType' /\ InOrder'
  BY <1>1, <1>2, <1>3 DEF IInv, TypeOK, Walked, MachineType, TickType
<1>6. Routes'
  BY <1>1, <1>3, RoutesKept DEF IInv
<1>7. Placed' /\ Powered' /\ Quiet'
  BY <1>1, <1>2, <1>3 DEF IInv, Walked, Placed, Lima, Whole, Remakes, Later2, Since, Saves,
                          Powered, Quiet, Resting2
<1>8. Kept' /\ Listed' /\ Imaged'
  BY <1>1, <1>2, <1>3 DEF IInv, Walked, Kept, Resting2, Since, Saves, Listed, Former, Lima, Made,
                          Imaged, Remakes, Later2
<1>9. Barred'
  BY <1>1, <1>2, <1>3 DEF IInv, Walked, Barred, Whole, Lima, Since, Saves
<1> QED
  BY <1>4, <1>5, <1>6, <1>7, <1>8, <1>9 DEF IInv, TypeOK

\* The machine is off.
LEMMA HaltInv ==
  ASSUME IInv, Halt
  PROVE  IInv'
<1>1. UNCHANGED <<provider, enabled, consent, stop, locations, generation, disabled, retired,
                  since, failed, kind, phase, paused, error, backup, target, previous, plugged,
                  images, installed, k3s, attached, data, copy, access, written, gone>>
  BY DEF Halt, Off, At, Done, Goto
<1>2. /\ todo # <<>> /\ Head(todo) = "halt"
      /\ running' = FALSE /\ active' = FALSE
      /\ todo' = Tail(todo)
      /\ lost' \subseteq Volumes
  BY DEF Halt, Off, At, Done, Goto, IInv, TypeOK, JournalType, SettingsType, TickType
<1>3. Walked
  BY <1>2, WalkedBy DEF IInv, TypeOK, TickType
<1>4. "configure" \notin Left
  BY <1>2, Heads, Where DEF IInv, TypeOK, TickType
<1>5. SettingsType' /\ JournalType' /\ Phased' /\ Bounded' /\ NothingForgotten'
  BY <1>1 DEF IInv, TypeOK, SettingsType, JournalType, Phased, Bounded, NothingForgotten, Lima,
              Made
<1>6. MachineType' /\ TickType' /\ InOrder'
  BY <1>1, <1>2, <1>3, <1>4 DEF IInv, TypeOK, Walked, MachineType, TickType
<1>7. Routes'
  BY <1>1, <1>3, RoutesKept DEF IInv
<1>8. Placed' /\ Powered' /\ Quiet'
  BY <1>1, <1>2, <1>3, <1>4 DEF IInv, Walked, Placed, Lima, Whole, Remakes, Later2, Since, Saves,
    Powered, Quiet, Resting2
<1>9. Kept' /\ Listed' /\ Imaged'
  BY <1>1, <1>2, <1>3, <1>4 DEF IInv, Walked, Kept, Resting2, Since, Saves, Listed, Former, Lima,
    Made, Imaged, Remakes, Later2
<1>10. Barred'
  BY <1>1, <1>2, <1>3, <1>4 DEF IInv, Walked, Barred, Whole, Lima, Since, Saves
<1> QED
  BY <1>5, <1>6, <1>7, <1>8, <1>9, <1>10 DEF IInv, TypeOK

\* Until it is compared, the copy counts for nothing.
LEMMA WriteBackupInv ==
  ASSUME IInv, NEW whole \in BOOLEAN, WriteBackup(whole)
  PROVE  IInv'
<1>1. UNCHANGED <<provider, enabled, consent, stop, locations, generation, disabled, retired,
                  since, failed, kind, phase, paused, error, backup, target, previous, plugged,
                  images, installed, running, k3s, active, attached, data, access, written, gone>>
  BY DEF WriteBackup, At, Done, Goto
<1>2. /\ todo # <<>> /\ Head(todo) = "backup"
      /\ copy' \in {data[attached], Torn}
      /\ todo' \in {Tail(todo), todo}
      /\ lost' \subseteq Volumes
  BY DEF WriteBackup, At, Done, Goto, IInv, TypeOK, JournalType, SettingsType, TickType
<1>3. Walked \/ Stays
  BY <1>2, WalkedBy, StaysBy DEF IInv, TypeOK, TickType
<1>4. kind = "resize" /\ Saves /\ phase = "Backup"
  BY <1>2, Heads, Where DEF IInv, TypeOK, TickType
<1>5. /\ generation \in Generations /\ attached = generation
      /\ data \in [Generations -> Copies] /\ written \in 0..MaxWork
  BY <1>4 DEF IInv, TypeOK, SettingsType, MachineType, TickType, Placed, Remakes
<1>6. copy' \in Copies /\ copy' <= written
  BY <1>2, <1>5 DEF IInv, Bounded
<1>7. "compare" \in Left'
  BY <1>2, <1>3, Heads DEF IInv, Routes, Walked, Stays, TypeOK, TickType
<1>8. SettingsType' /\ JournalType' /\ Phased' /\ NothingForgotten'
  BY <1>1 DEF IInv, TypeOK, SettingsType, JournalType, Phased, NothingForgotten, Lima
<1>9. MachineType'
  <2>1. {installed', running', k3s', active', access'} \subseteq BOOLEAN
    BY <1>1, <1>6 DEF IInv, TypeOK, MachineType
  <2>2. (active' => running') /\ (running' => installed')
    BY <1>1, <1>6 DEF IInv, TypeOK, MachineType
  <2>3. data' \in [Generations -> Copies] /\ copy' \in Copies
    BY <1>1, <1>6 DEF IInv, TypeOK, MachineType
  <2>4. attached' \in {0} \cup Generations
    BY <1>1, <1>6 DEF IInv, TypeOK, MachineType
  <2> QED
    BY <1>1, <1>6, <2>1, <2>2, <2>3, <2>4 DEF IInv, TypeOK, MachineType
<1>10. TickType' /\ InOrder' /\ Placed'
  BY <1>1, <1>2, <1>3, <1>4, <1>5, <1>6, <1>7 DEF IInv, TypeOK, Walked, Stays, TickType, Placed,
    Lima, Whole, Remakes, Later2, Since, Saves
<1>11. Routes'
  BY <1>1, <1>3, RoutesKept DEF IInv
<1>12. Powered' /\ Quiet' /\ Listed'
  BY <1>1, <1>2, <1>3, <1>4, <1>5, <1>6, <1>7 DEF IInv, Walked, Stays, Powered, Since, Saves,
    Quiet, Resting2, Listed, Former, Lima, Made
<1>13. Kept'
  BY <1>1, <1>4, <1>7 DEF IInv, Kept, Resting2, Since
<1>14. Bounded'
  BY <1>1, <1>6 DEF IInv, Bounded, Made
<1>15. Imaged' /\ Barred'
  BY <1>1, <1>2, <1>3, <1>4, <1>5, <1>6, <1>7 DEF IInv, Walked, Stays, Imaged, Lima, Remakes,
    Later2, Since, Saves, Barred, Whole
<1> QED
  BY <1>8, <1>9, <1>10, <1>11, <1>12, <1>13, <1>14, <1>15 DEF IInv, TypeOK

\* The guest forgets its pool.
LEMMA RetireInv ==
  ASSUME IInv, Retire
  PROVE  IInv'
<1>1. UNCHANGED <<provider, enabled, consent, stop, locations, generation, disabled, retired,
                  since, failed, kind, phase, paused, error, backup, target, previous, plugged,
                  images, installed, running, k3s, active, data, copy, access, written, gone>>
  BY DEF Retire, At, Done, Goto
<1>2. /\ todo # <<>> /\ Head(todo) = "retire"
      /\ attached' = 0
      /\ todo' = Tail(todo)
      /\ lost' \subseteq Volumes
  BY DEF Retire, At, Done, Goto, IInv, TypeOK, JournalType, SettingsType, TickType
<1>3. Walked
  BY <1>2, WalkedBy DEF IInv, TypeOK, TickType
<1>4. kind = "resize" /\ Lima /\ Saves /\ phase = "BackupVerified"
  BY <1>2, Heads, Where DEF IInv, TypeOK, TickType
<1>5. SettingsType' /\ JournalType' /\ Phased' /\ NothingForgotten'
  BY <1>1 DEF IInv, TypeOK, SettingsType, JournalType, Phased, NothingForgotten, Lima
<1>6. MachineType' /\ TickType' /\ InOrder'
  BY <1>1, <1>2, <1>3, <1>4 DEF IInv, TypeOK, Walked, MachineType, TickType
<1>7. Routes'
  BY <1>1, <1>3, RoutesKept DEF IInv
<1>8. Placed' /\ Powered' /\ Quiet'
  BY <1>1, <1>2, <1>3, <1>4 DEF IInv, Walked, Placed, Lima, Whole, Remakes, Later2, Since, Saves,
    Powered, Quiet, Resting2
<1>9. Kept' /\ Bounded' /\ Listed'
  BY <1>1, <1>2, <1>3, <1>4 DEF IInv, Walked, Kept, Resting2, Since, Saves, Bounded, Made, Listed,
    Former, Lima
<1>10. Imaged' /\ Barred'
  BY <1>1, <1>2, <1>3, <1>4 DEF IInv, Walked, Imaged, Lima, Remakes, Later2, Since, Saves, Barred,
    Whole
<1> QED
  BY <1>5, <1>6, <1>7, <1>8, <1>9, <1>10 DEF IInv, TypeOK

\* The credentials die.
LEMMA ResetInv ==
  ASSUME IInv, NEW answered \in BOOLEAN, ResetAccess(answered)
  PROVE  IInv'
<1>1. UNCHANGED <<provider, enabled, consent, stop, locations, generation, disabled, retired,
                  since, failed, kind, phase, paused, error, backup, target, previous, plugged,
                  images, installed, running, k3s, active, attached, data, copy, written, gone>>
  BY DEF ResetAccess, At, Done, Goto
<1>2. /\ todo # <<>> /\ Head(todo) = "reset"
      /\ access' = FALSE
      /\ todo' \in {Tail(todo), todo}
      /\ lost' \subseteq Volumes
  BY DEF ResetAccess, At, Done, Goto, IInv, TypeOK, JournalType, SettingsType, TickType
<1>3. Walked \/ Stays
  BY <1>2, WalkedBy, StaysBy DEF IInv, TypeOK, TickType
<1>4. kind # "none" /\ Saves /\ phase = "Reset"
  BY <1>2, Heads, Where DEF IInv, TypeOK, TickType
<1>5. SettingsType' /\ JournalType' /\ Phased' /\ Bounded' /\ NothingForgotten'
  BY <1>1 DEF IInv, TypeOK, SettingsType, JournalType, Phased, Bounded, NothingForgotten, Lima,
              Made
<1>6. MachineType' /\ TickType' /\ InOrder'
  BY <1>1, <1>2, <1>3, <1>4 DEF IInv, TypeOK, Walked, Stays, MachineType, TickType
<1>7. Routes'
  BY <1>1, <1>3, RoutesKept DEF IInv
<1>8. Placed' /\ Powered' /\ Quiet'
  BY <1>1, <1>2, <1>3, <1>4 DEF IInv, Walked, Stays, Placed, Lima, Whole, Remakes, Later2, Since,
    Saves, Powered, Quiet, Resting2
<1>9. Kept' /\ Listed' /\ Imaged'
  BY <1>1, <1>2, <1>3, <1>4 DEF IInv, Walked, Stays, Kept, Resting2, Since, Saves, Listed, Former,
    Lima, Made, Imaged, Remakes, Later2
<1>10. Barred'
  BY <1>1, <1>2, <1>3, <1>4 DEF IInv, Walked, Stays, Barred, Whole, Lima, Since, Saves
<1> QED
  BY <1>5, <1>6, <1>7, <1>8, <1>9, <1>10 DEF IInv, TypeOK

\* The machine goes, with the pool it has inside.
LEMMA DetachInv ==
  ASSUME IInv, Detach
  PROVE  IInv'
<1>1. UNCHANGED <<provider, enabled, consent, stop, locations, generation, disabled, retired,
                  since, failed, kind, phase, paused, error, backup, target, previous, plugged,
                  images, running, active, copy, access, written, gone>>
  BY DEF Detach, At, Done, Goto
<1>2. /\ todo # <<>> /\ Head(todo) = "detach"
      /\ IF Whole THEN installed' = FALSE /\ k3s' = FALSE /\ attached' = 0
         ELSE UNCHANGED <<installed, k3s, attached, data>>
      /\ Whole => data' = IF Lima \/ attached = 0 THEN data ELSE [data EXCEPT ![attached] = Gone]
      /\ todo' = Tail(todo)
      /\ lost' \subseteq Volumes
  BY DEF Detach, At, Done, Goto, IInv, TypeOK, JournalType, SettingsType, TickType
<1>3. Walked
  BY <1>2, WalkedBy DEF IInv, TypeOK, TickType
<1>4. kind # "none" /\ Saves /\ phase = "Delete"
  BY <1>2, Heads, Where DEF IInv, TypeOK, TickType
<1>5. /\ generation \in Generations /\ attached \in {0, generation}
      /\ data \in [Generations -> Copies] /\ ~running /\ ~active
      /\ ~Lima /\ kind # "none" => kind # "recovery"
  <2>1. attached \in {0, generation}
    BY <1>4 DEF IInv, Placed, Remakes, TypeOK, JournalType
  <2>2. ~running
    BY <1>2, <1>3, <1>4 DEF IInv, Powered, Walked, Since
  <2> QED
    BY <2>1, <2>2 DEF IInv, TypeOK, SettingsType, MachineType, Phased
<1>6. SettingsType' /\ JournalType' /\ Phased' /\ NothingForgotten'
  BY <1>1 DEF IInv, TypeOK, SettingsType, JournalType, Phased, NothingForgotten, Lima
<1>7. MachineType'
  <2>1. {installed', running', k3s', active', access'} \subseteq BOOLEAN
    BY <1>1, <1>2, <1>5 DEF IInv, TypeOK, MachineType
  <2>2. (active' => running') /\ (running' => installed')
    BY <1>1, <1>2, <1>5 DEF IInv, TypeOK, MachineType
  <2>3. data' \in [Generations -> Copies] /\ copy' \in Copies
    BY <1>1, <1>2, <1>5 DEF IInv, TypeOK, MachineType
  <2>4. attached' \in {0} \cup Generations
    BY <1>1, <1>2, <1>5 DEF IInv, TypeOK, MachineType
  <2> QED
    BY <1>1, <1>2, <1>5, <2>1, <2>2, <2>3, <2>4 DEF IInv, TypeOK, MachineType
<1>8. TickType' /\ InOrder' /\ Placed'
  BY <1>1, <1>2, <1>3, <1>4, <1>5 DEF IInv, TypeOK, Walked, TickType, Placed, Lima, Whole,
    Remakes, Later2, Since, Saves
<1>9. Routes'
  BY <1>1, <1>3, RoutesKept DEF IInv
<1>10. Powered' /\ Quiet' /\ Kept'
  BY <1>1, <1>2, <1>3, <1>4, <1>5 DEF IInv, Walked, Powered, Since, Saves, Quiet, Resting2, Kept
<1>11. Bounded'
  BY <1>1, <1>2, <1>3, <1>4, <1>5 DEF IInv, TypeOK, Walked, Bounded, Made, SettingsType,
    JournalType, TickType
<1>12. Listed'
  BY <1>1, <1>2, <1>3, <1>4, <1>5 DEF IInv, TypeOK, Walked, Listed, Former, Lima, Made, Since,
    Saves, JournalType
<1>13. Imaged'
  BY <1>1, <1>2, <1>3, <1>4, <1>5 DEF IInv, TypeOK, Walked, Imaged, Lima, Remakes, Later2, Since,
    Saves, JournalType
<1>14. Barred'
  BY <1>1, <1>2, <1>3, <1>4, <1>5 DEF IInv, Walked, Barred, Whole, Lima, Since, Saves
<1> QED
  BY <1>6, <1>7, <1>8, <1>9, <1>10, <1>11, <1>12, <1>13, <1>14 DEF IInv, TypeOK

\* The images to go are written down.
LEMMA ListInv ==
  ASSUME IInv, ListRetired
  PROVE  IInv'
<1>1. UNCHANGED <<provider, enabled, consent, stop, locations, generation, disabled, since,
                  failed, kind, phase, paused, error, backup, target, previous, plugged, images,
                  installed, running, k3s, active, attached, data, copy, access, written, gone>>
  BY DEF ListRetired, At, Done, Goto
<1>2. /\ todo # <<>> /\ Head(todo) = "list"
      /\ retired' = retired \cup previous
      /\ todo' = Tail(todo)
      /\ lost' \subseteq Volumes
  BY DEF ListRetired, At, Done, Goto, IInv, TypeOK, JournalType, SettingsType, TickType
<1>3. Walked
  BY <1>2, WalkedBy DEF IInv, TypeOK, TickType
<1>4. kind # "none" /\ Lima /\ Saves /\ phase = "Delete"
  BY <1>2, Heads, Where DEF IInv, TypeOK, TickType
<1>5. JournalType' /\ MachineType' /\ Phased' /\ Bounded'
  BY <1>1 DEF IInv, TypeOK, JournalType, MachineType, Phased, Bounded, Lima, Made
<1>6. SettingsType'
  BY <1>1, <1>2, <1>3, <1>4 DEF IInv, TypeOK, Walked, SettingsType, JournalType
<1>7. TickType'
  BY <1>1, <1>2, <1>3, <1>4 DEF IInv, TypeOK, Walked, TickType, JournalType
<1>8. InOrder'
  BY <1>1, <1>2, <1>3, <1>4 DEF IInv, TypeOK, Walked, JournalType
<1>9. Routes'
  BY <1>1, <1>3, RoutesKept DEF IInv
<1>10. Placed' /\ Powered' /\ Quiet'
  BY <1>1, <1>2, <1>3, <1>4 DEF IInv, Walked, Placed, Lima, Whole, Remakes, Later2, Since, Saves,
    Powered, Quiet, Resting2
<1>11. Kept' /\ Listed' /\ Imaged'
  BY <1>1, <1>2, <1>3, <1>4 DEF IInv, Walked, Kept, Resting2, Since, Saves, Listed, Former, Lima,
    Made, Imaged, Remakes, Later2
<1>12. Barred' /\ NothingForgotten'
  BY <1>1, <1>2, <1>3, <1>4 DEF IInv, Walked, Barred, Whole, Lima, Since, Saves, NothingForgotten
<1> QED
  BY <1>5, <1>6, <1>7, <1>8, <1>9, <1>10, <1>11, <1>12 DEF IInv, TypeOK

\* An image is removed.
LEMMA EraseInv ==
  ASSUME IInv, NEW i \in Images, EraseImage(i)
  PROVE  IInv'
<1>1. UNCHANGED <<provider, enabled, consent, stop, locations, generation, disabled, retired,
                  since, failed, kind, phase, paused, error, backup, target, previous, plugged,
                  installed, running, k3s, active, attached, copy, access, todo, lost, seen,
                  written, gone>>
  BY DEF EraseImage, At, Done, Goto
<1>2. /\ todo # <<>> /\ Head(todo) = "images"
      /\ i \in previous \cap retired \cap images
      /\ images' = images \ {i}
      /\ data' = [data EXCEPT ![i[2]] = Gone]
  BY DEF EraseImage, At, Done, Goto, IInv, TypeOK, JournalType, SettingsType, TickType
<1>3. Stays
  BY <1>1, StaysBy DEF IInv, TypeOK, TickType
<1>4. kind # "none" /\ Saves /\ phase = "Delete"
  BY <1>2, Heads, Where DEF IInv, TypeOK, TickType
<1>5. InOrder' /\ Routes'
  BY <1>1, <1>3, RoutesKept DEF IInv, Stays
<1>6. SettingsType' /\ JournalType' /\ TickType' /\ Phased' /\ Placed'
  BY <1>1, <1>3 DEF IInv, TypeOK, Stays, SettingsType, JournalType, TickType, Phased, Placed,
                    Lima, Whole, Remakes, Later2, Since, Saves
<1>7. Powered' /\ Quiet' /\ Barred'
  BY <1>1, <1>3 DEF IInv, TypeOK, Stays, Powered, Quiet, Barred, Since, Saves, Resting2, Whole,
                    Lima
<1>8. MachineType'
  BY <1>1, <1>2, <1>3, <1>4 DEF IInv, TypeOK, Stays, MachineType, JournalType
<1>9. Kept'
  BY <1>1, <1>2, <1>3, <1>4 DEF IInv, TypeOK, Stays, Kept, Resting2, Since, Saves, JournalType
<1>10. Bounded'
  BY <1>1, <1>2, <1>3, <1>4 DEF IInv, TypeOK, Stays, Bounded, Made, SettingsType, JournalType
<1>11. Listed' /\ Imaged' /\ NothingForgotten'
  BY <1>1, <1>2, <1>3, <1>4 DEF IInv, Stays, Listed, Former, Lima, Made, Since, Saves, Imaged,
    Remakes, Later2, NothingForgotten
<1> QED
  BY <1>5, <1>6, <1>7, <1>8, <1>9, <1>10, <1>11 DEF IInv, TypeOK

\* An image that is gone is forgotten.
LEMMA ForgetInv ==
  ASSUME IInv, NEW i \in Images, ForgetImage(i)
  PROVE  IInv'
<1>1. UNCHANGED <<provider, enabled, consent, stop, locations, generation, disabled, since,
                  failed, kind, phase, paused, error, backup, target, previous, plugged, images,
                  installed, running, k3s, active, attached, data, copy, access, todo, lost, seen,
                  written, gone>>
  BY DEF ForgetImage, At, Done, Goto
<1>2. /\ todo # <<>> /\ Head(todo) = "images"
      /\ i \notin images
      /\ retired' = retired \ {i}
  BY DEF ForgetImage, At, Done, Goto, IInv, TypeOK, JournalType, SettingsType, TickType
<1>3. Stays
  BY <1>1, StaysBy DEF IInv, TypeOK, TickType
<1>4. kind # "none" /\ Saves /\ phase = "Delete"
  BY <1>2, Heads, Where DEF IInv, TypeOK, TickType
<1>5. InOrder' /\ Routes'
  BY <1>1, <1>3, RoutesKept DEF IInv, Stays
<1>6. JournalType' /\ MachineType' /\ TickType' /\ Phased' /\ Placed'
  BY <1>1, <1>3 DEF IInv, TypeOK, Stays, JournalType, MachineType, TickType, Phased, Placed, Lima,
                    Whole, Remakes, Later2, Since, Saves
<1>7. Powered' /\ Quiet' /\ Kept' /\ Bounded' /\ Imaged'
  BY <1>1, <1>3 DEF IInv, TypeOK, Stays, Powered, Quiet, Kept, Bounded, Imaged, Since, Saves,
                    Resting2, Made, Lima, Remakes, Later2
<1>8. Barred'
  BY <1>1, <1>3 DEF IInv, TypeOK, Stays, Barred, Whole, Lima, Since, Saves
<1>9. SettingsType' /\ Listed' /\ NothingForgotten'
  BY <1>1, <1>2, <1>3, <1>4 DEF IInv, TypeOK, Stays, SettingsType, Listed, Former, Lima, Made,
    Since, Saves, NothingForgotten
<1> QED
  BY <1>5, <1>6, <1>7, <1>8, <1>9 DEF IInv, TypeOK

\* The new images are made while the machine is off.
LEMMA MakeInv ==
  ASSUME IInv, MakeImages
  PROVE  IInv'
<1>1. UNCHANGED <<provider, enabled, consent, stop, locations, generation, disabled, retired,
                  since, failed, kind, phase, paused, error, backup, target, previous, plugged,
                  installed, running, k3s, active, attached, data, copy, access, written, gone>>
  BY DEF MakeImages, At, Done, Goto
<1>2. /\ todo # <<>> /\ Head(todo) = "make"
      /\ images' \in {images, images \cup (target \X {generation + 1})}
      /\ ~running => images' = images \cup (target \X {generation + 1})
      /\ todo' = Tail(todo)
      /\ lost' \subseteq Volumes
  BY DEF MakeImages, At, Done, Goto, IInv, TypeOK, JournalType, SettingsType, TickType
<1>3. Walked
  BY <1>2, WalkedBy DEF IInv, TypeOK, TickType
<1>4. Remakes /\ Lima /\ Saves /\ phase = "Create"
  BY <1>2, Heads, Where DEF IInv, TypeOK, TickType
<1>5. SettingsType' /\ JournalType' /\ Phased' /\ Bounded'
  BY <1>1 DEF IInv, TypeOK, SettingsType, JournalType, Phased, Bounded, Lima, Made
<1>6. MachineType'
  <2>1. generation + 1 \in Generations /\ target \subseteq Volumes /\ images \subseteq Images
    BY <1>4 DEF IInv, TypeOK, SettingsType, JournalType, MachineType, Remakes
  <2>2. images' \subseteq Images
    BY <1>2, <2>1
  <2> QED
    BY <1>1, <2>2 DEF IInv, TypeOK, MachineType
<1>7. TickType' /\ InOrder' /\ Placed'
  BY <1>1, <1>2, <1>3, <1>4 DEF IInv, TypeOK, Walked, TickType, Placed, Lima, Whole, Remakes,
    Later2, Since, Saves
<1>8. Routes'
  BY <1>1, <1>3, RoutesKept DEF IInv
<1>9. Powered' /\ Quiet' /\ Kept'
  BY <1>1, <1>2, <1>3, <1>4 DEF IInv, Walked, Powered, Since, Saves, Quiet, Resting2, Kept
<1>10. Listed'
  BY <1>1, <1>2, <1>3, <1>4 DEF IInv, TypeOK, Walked, Listed, Former, Lima, Made, Since, Saves,
    SettingsType
<1>11. Imaged'
  BY <1>1, <1>2, <1>3, <1>4 DEF IInv, TypeOK, Walked, Imaged, Lima, Remakes, Later2, Since, Saves,
    JournalType
<1>12. Barred'
  BY <1>1, <1>2, <1>3, <1>4 DEF IInv, TypeOK, Walked, Barred, Whole, Lima, Since, Saves,
    JournalType
<1>13. NothingForgotten'
  BY <1>1, <1>2, <1>3, <1>4 DEF IInv, Walked, NothingForgotten
<1> QED
  BY <1>5, <1>6, <1>7, <1>8, <1>9, <1>10, <1>11, <1>12, <1>13 DEF IInv, TypeOK

\* The new pool.
LEMMA ApplyInv ==
  ASSUME IInv, Apply
  PROVE  IInv'
<1>1. UNCHANGED <<provider, enabled, consent, stop, locations, generation, disabled, retired,
                  since, failed, kind, phase, paused, error, backup, target, previous, plugged,
                  images, installed, running, k3s, active, copy, access, written, gone>>
  BY DEF Apply, At, Done, Goto
<1>2. /\ todo # <<>> /\ Head(todo) = "apply"
      /\ attached' = generation + 1
      /\ data' = [data EXCEPT ![generation + 1] = IF @ = Gone THEN 0 ELSE @]
      /\ todo' = Tail(todo)
      /\ lost' \subseteq Volumes
  BY DEF Apply, At, Done, Goto, IInv, TypeOK, JournalType, SettingsType, TickType
<1>3. Walked
  BY <1>2, WalkedBy DEF IInv, TypeOK, TickType
<1>4. Remakes /\ Lima /\ Saves /\ phase = "Create"
  BY <1>2, Heads, Where DEF IInv, TypeOK, TickType
<1>5. /\ generation \in Generations /\ generation + 1 \in Generations
      /\ data \in [Generations -> Copies] /\ written \in 0..MaxWork
  BY <1>4 DEF IInv, TypeOK, SettingsType, MachineType, JournalType, TickType, Remakes
<1>6. \A g \in Generations :
        data'[g] = IF g = generation + 1 /\ data[g] = Gone THEN 0 ELSE data[g]
  BY <1>2, <1>5
<1>7. SettingsType' /\ JournalType' /\ Phased' /\ NothingForgotten'
  BY <1>1 DEF IInv, TypeOK, SettingsType, JournalType, Phased, NothingForgotten, Lima
<1>8. MachineType'
  <2>1. {installed', running', k3s', active', access'} \subseteq BOOLEAN
    BY <1>1, <1>2, <1>5, <1>6 DEF IInv, TypeOK, MachineType
  <2>2. (active' => running') /\ (running' => installed')
    BY <1>1, <1>2, <1>5, <1>6 DEF IInv, TypeOK, MachineType
  <2>3. data' \in [Generations -> Copies] /\ copy' \in Copies
    BY <1>1, <1>2, <1>5, <1>6 DEF IInv, TypeOK, MachineType
  <2>4. attached' \in {0} \cup Generations
    BY <1>1, <1>2, <1>5, <1>6 DEF IInv, TypeOK, MachineType
  <2> QED
    BY <1>1, <1>2, <1>5, <1>6, <2>1, <2>2, <2>3, <2>4 DEF IInv, TypeOK, MachineType
<1>9. TickType' /\ InOrder' /\ Placed'
  BY <1>1, <1>2, <1>3, <1>4, <1>5, <1>6 DEF IInv, TypeOK, Walked, TickType, Placed, Lima, Whole,
    Remakes, Later2, Since, Saves
<1>10. Routes'
  BY <1>1, <1>3, RoutesKept DEF IInv
<1>11. Powered' /\ Quiet' /\ Kept'
  BY <1>1, <1>2, <1>3, <1>4, <1>5, <1>6 DEF IInv, Walked, Powered, Since, Saves, Quiet, Resting2,
    Kept
<1>12. Bounded'
  BY <1>1, <1>2, <1>4, <1>5, <1>6 DEF IInv, Bounded, Made, Remakes
<1>13. Listed' /\ Imaged' /\ Barred'
  BY <1>1, <1>2, <1>3, <1>4, <1>5, <1>6 DEF IInv, Walked, Listed, Former, Lima, Made, Since,
    Saves, Imaged, Remakes, Later2, Barred, Whole
<1> QED
  BY <1>7, <1>8, <1>9, <1>10, <1>11, <1>12, <1>13 DEF IInv, TypeOK

\* The backup is written to the new pool.
LEMMA RestoreInv ==
  ASSUME IInv, NEW whole \in BOOLEAN, Restore(whole)
  PROVE  IInv'
<1>1. UNCHANGED <<provider, enabled, consent, stop, locations, generation, disabled, retired,
                  since, failed, kind, phase, paused, error, backup, target, previous, plugged,
                  images, installed, running, k3s, active, attached, copy, access, written, gone>>
  BY DEF Restore, At, Done, Goto
<1>2. /\ todo # <<>> /\ Head(todo) = "restore"
      /\ data' \in {[data EXCEPT ![attached] = copy], [data EXCEPT ![attached] = Torn]}
      /\ todo' \in {Tail(todo), todo}
      /\ lost' \subseteq Volumes
  BY DEF Restore, At, Done, Goto, IInv, TypeOK, JournalType, SettingsType, TickType
<1>3. Walked \/ Stays
  BY <1>2, WalkedBy, StaysBy DEF IInv, TypeOK, TickType
<1>4. kind = "resize" /\ Saves /\ phase = "Restore"
  BY <1>2, Heads, Where DEF IInv, TypeOK, TickType
<1>5. /\ generation \in Generations /\ generation + 1 \in Generations
      /\ data \in [Generations -> Copies] /\ written \in 0..MaxWork /\ copy \in Copies
      /\ attached = generation + 1
  BY <1>4 DEF IInv, TypeOK, SettingsType, MachineType, JournalType, TickType, Placed, Remakes,
              Later2
<1>6. \A g \in Generations :
        data'[g] = data[g] \/ (g = generation + 1 /\ data'[g] \in {copy, Torn})
  BY <1>2, <1>5
<1>7. SettingsType' /\ JournalType' /\ Phased' /\ NothingForgotten'
  BY <1>1 DEF IInv, TypeOK, SettingsType, JournalType, Phased, NothingForgotten, Lima
<1>8. MachineType' /\ TickType' /\ InOrder'
  BY <1>1, <1>2, <1>3, <1>4, <1>5, <1>6 DEF IInv, TypeOK, Walked, Stays, MachineType, TickType
<1>9. Routes'
  BY <1>1, <1>3, RoutesKept DEF IInv
<1>10. Placed' /\ Powered' /\ Quiet'
  BY <1>1, <1>2, <1>3, <1>4, <1>5, <1>6 DEF IInv, Walked, Stays, Placed, Lima, Whole, Remakes,
    Later2, Since, Saves, Powered, Quiet, Resting2
<1>11. Kept' /\ Listed' /\ Imaged'
  BY <1>1, <1>2, <1>3, <1>4, <1>5, <1>6 DEF IInv, Walked, Stays, Kept, Resting2, Since, Saves,
    Listed, Former, Lima, Made, Imaged, Remakes, Later2
<1>12. Bounded'
  BY <1>1, <1>4, <1>5, <1>6 DEF IInv, Bounded, Made
<1>13. Barred'
  BY <1>1, <1>2, <1>3, <1>4, <1>5, <1>6 DEF IInv, Walked, Stays, Barred, Whole, Lima, Since, Saves
<1> QED
  BY <1>7, <1>8, <1>9, <1>10, <1>11, <1>12, <1>13 DEF IInv, TypeOK

\* The new worker's credentials.
LEMMA BootstrapInv ==
  ASSUME IInv, Bootstrap
  PROVE  IInv'
<1>1. UNCHANGED <<provider, enabled, consent, stop, locations, generation, disabled, retired,
                  since, failed, kind, phase, paused, error, backup, target, previous, plugged,
                  images, installed, running, k3s, active, attached, data, copy, written, gone>>
  BY DEF Bootstrap, At, Done, Goto
<1>2. /\ todo # <<>> /\ Head(todo) = "bootstrap"
      /\ access' = TRUE
      /\ todo' = Tail(todo)
      /\ lost' \subseteq Volumes
  BY DEF Bootstrap, At, Done, Goto, IInv, TypeOK, JournalType, SettingsType, TickType
<1>3. Walked
  BY <1>2, WalkedBy DEF IInv, TypeOK, TickType
<1>4. kind = "none" \/ (Saves /\ phase = "Bootstrap")
  BY <1>2, Heads, Where DEF IInv, TypeOK, TickType
<1>5. SettingsType' /\ JournalType' /\ Phased' /\ Bounded' /\ NothingForgotten'
  BY <1>1 DEF IInv, TypeOK, SettingsType, JournalType, Phased, Bounded, NothingForgotten, Lima,
              Made
<1>6. MachineType' /\ TickType' /\ InOrder'
  BY <1>1, <1>2, <1>3, <1>4 DEF IInv, TypeOK, Walked, MachineType, TickType
<1>7. Routes'
  BY <1>1, <1>3, RoutesKept DEF IInv
<1>8. Placed' /\ Powered' /\ Quiet'
  BY <1>1, <1>2, <1>3, <1>4 DEF IInv, Walked, Placed, Lima, Whole, Remakes, Later2, Since, Saves,
    Powered, Quiet, Resting2
<1>9. Kept' /\ Listed' /\ Imaged'
  BY <1>1, <1>2, <1>3, <1>4 DEF IInv, Walked, Kept, Resting2, Since, Saves, Listed, Former, Lima,
    Made, Imaged, Remakes, Later2
<1>10. Barred'
  BY <1>1, <1>2, <1>3, <1>4 DEF IInv, Walked, Barred, Whole, Lima, Since, Saves
<1> QED
  BY <1>5, <1>6, <1>7, <1>8, <1>9, <1>10 DEF IInv, TypeOK

\* Workloads run again.
LEMMA ConfigureInv ==
  ASSUME IInv, Configure
  PROVE  IInv'
<1>1. UNCHANGED <<provider, enabled, consent, stop, locations, generation, disabled, retired,
                  since, failed, kind, phase, paused, error, backup, target, previous, plugged,
                  images, installed, running, attached, data, copy, access, written, gone>>
  BY DEF Configure, At, Done, Goto
<1>2. /\ todo # <<>> /\ Head(todo) = "configure"
      /\ k3s' = TRUE /\ active' = TRUE
      /\ todo' = Tail(todo)
      /\ lost' \subseteq Volumes
  BY DEF Configure, At, Done, Goto, IInv, TypeOK, JournalType, SettingsType, TickType
<1>3. Walked
  BY <1>2, WalkedBy DEF IInv, TypeOK, TickType
<1>4. kind = "none" \/ (Saves /\ phase = "Bootstrap")
  BY <1>2, Heads, Where DEF IInv, TypeOK, TickType
<1>5. running
  BY <1>2, <1>3 DEF IInv, Powered, Walked
<1>6. SettingsType' /\ JournalType' /\ Phased' /\ Bounded' /\ NothingForgotten'
  BY <1>1 DEF IInv, TypeOK, SettingsType, JournalType, Phased, Bounded, NothingForgotten, Lima,
              Made
<1>7. MachineType'
  <2>1. {installed', running', k3s', active', access'} \subseteq BOOLEAN
    BY <1>1, <1>2, <1>5 DEF IInv, TypeOK, MachineType
  <2>2. (active' => running') /\ (running' => installed')
    BY <1>1, <1>2, <1>5 DEF IInv, TypeOK, MachineType
  <2>3. data' \in [Generations -> Copies] /\ copy' \in Copies
    BY <1>1, <1>2, <1>5 DEF IInv, TypeOK, MachineType
  <2>4. attached' \in {0} \cup Generations
    BY <1>1, <1>2, <1>5 DEF IInv, TypeOK, MachineType
  <2> QED
    BY <1>1, <1>2, <1>5, <2>1, <2>2, <2>3, <2>4 DEF IInv, TypeOK, MachineType
<1>8. TickType' /\ InOrder' /\ Placed'
  BY <1>1, <1>2, <1>3, <1>4, <1>5 DEF IInv, TypeOK, Walked, TickType, Placed, Lima, Whole,
    Remakes, Later2, Since, Saves
<1>9. Routes'
  BY <1>1, <1>3, RoutesKept DEF IInv
<1>10. Powered' /\ Quiet' /\ Kept'
  BY <1>1, <1>2, <1>3, <1>4, <1>5 DEF IInv, Walked, Powered, Since, Saves, Quiet, Resting2, Kept
<1>11. Listed' /\ Imaged' /\ Barred'
  BY <1>1, <1>2, <1>3, <1>4, <1>5 DEF IInv, Walked, Listed, Former, Lima, Made, Since, Saves,
    Imaged, Remakes, Later2, Barred, Whole
<1> QED
  BY <1>6, <1>7, <1>8, <1>9, <1>10, <1>11 DEF IInv, TypeOK

\* The next phase.
LEMMA SavePhaseInv ==
  ASSUME IInv, SavePhase
  PROVE  IInv'
<1>1. UNCHANGED <<provider, enabled, consent, stop, locations, generation, disabled, retired,
                  since, failed, kind, paused, error, target, previous, plugged, images,
                  installed, running, k3s, active, attached, data, copy, access, written, gone>>
  BY DEF SavePhase, At, Done, Goto
<1>2. /\ todo # <<>> /\ Head(todo) = "save"
      /\ phase # "Cleanup" /\ phase' = NextPhase
      /\ backup' = (backup \/ phase = "Backup")
      /\ todo' = Tail(todo)
      /\ lost' \subseteq Volumes
  BY DEF SavePhase, At, Done, Goto, IInv, TypeOK, JournalType, SettingsType, TickType
<1>3. Walked
  BY <1>2, WalkedBy DEF IInv, TypeOK, TickType
<1>4. kind # "none" /\ Saves
  BY <1>2, Heads, Where DEF IInv, TypeOK, TickType
<1>5. /\ kind \in {"resize", "delete", "recovery"} /\ phase \in Phases
      /\ backup \in BOOLEAN /\ Left = {"save"} /\ Left' = {}
  BY <1>2, <1>3, <1>4 DEF IInv, TypeOK, JournalType, Walked
<1>6. /\ \A step : step # "save" => Since(step)
      /\ \A step : ~Since(step)'
  BY <1>4, <1>5 DEF Since, Saves
<1>7. /\ kind = "resize" =>
           \/ phase = "Drain" /\ phase' = "Backup"
           \/ phase = "Backup" /\ phase' = "BackupVerified"
           \/ phase = "BackupVerified" /\ phase' = IF Whole THEN "Reset" ELSE "Delete"
           \/ phase = "Reset" /\ phase' = "Delete"
           \/ phase = "Delete" /\ phase' = "Create"
           \/ phase = "Create" /\ phase' = "Restore"
           \/ phase = "Restore" /\ phase' = "Verify"
           \/ phase = "Verify" /\ phase' = "Bootstrap"
           \/ phase = "Bootstrap" /\ phase' = "Capacity"
           \/ phase = "Capacity" /\ phase' = "Cleanup"
      /\ kind = "delete" =>
           \/ phase = "Drain" /\ phase' = "Reset"
           \/ phase = "Reset" /\ phase' = "Delete"
           \/ phase = "Delete" /\ phase' = "Cleanup"
      /\ kind = "recovery" =>
           \/ phase = "Reset" /\ phase' = "Delete"
           \/ phase = "Delete" /\ phase' = "Create"
           \/ phase = "Create" /\ phase' = "Verify"
           \/ phase = "Verify" /\ phase' = "Bootstrap"
           \/ phase = "Bootstrap" /\ phase' = "Capacity"
           \/ phase = "Capacity" /\ phase' = "Cleanup"
  BY <1>2, <1>5 DEF NextPhase, AfterDrain, AfterDelete, Backed, IInv, Phased
<1>8. (Lima' <=> Lima) /\ (Whole' <=> Whole) /\ (kind # "resize" \/ ~Lima => Whole)
      /\ (kind = "delete" => phase \in {"Drain", "Reset", "Delete", "Cleanup"})
      /\ (kind = "recovery" => Lima) /\ (kind = "resize" /\ Lima => phase # "Reset" /\ ~Whole)
  BY <1>1, <1>5 DEF Lima, Whole, IInv, Phased
<1>9. SettingsType' /\ MachineType' /\ NothingForgotten'
  BY <1>1 DEF IInv, TypeOK, SettingsType, MachineType, NothingForgotten
<1>10. JournalType'
  BY <1>1, <1>2, <1>5, <1>7, <1>8 DEF IInv, TypeOK, JournalType
<1>11. TickType' /\ InOrder' /\ Powered'
  BY <1>1, <1>2, <1>3, <1>4, <1>5, <1>6, <1>7, <1>8 DEF IInv, TypeOK, Walked, TickType, Powered,
    Since, Saves
<1>12. Routes'
  BY <1>1, <1>2, <1>3, <1>4, <1>5, <1>6, <1>7, <1>8 DEF IInv, Walked, Routes, Saves, Lima, Backed,
    Missing
<1>13. Phased'
  BY <1>1, <1>2, <1>5, <1>6, <1>7, <1>8 DEF IInv, Phased
<1>14. Placed'
  BY <1>1, <1>2, <1>5, <1>6, <1>7, <1>8 DEF IInv, Placed, Remakes, Later2
<1>15. Quiet'
  BY <1>1, <1>2, <1>5, <1>6, <1>7, <1>8 DEF IInv, Quiet, Resting2
<1>16. Kept'
  BY <1>1, <1>2, <1>5, <1>6, <1>7, <1>8 DEF IInv, Kept, Resting2, Placed, Remakes, Later2
<1>17. Bounded'
  BY <1>1, <1>2, <1>5, <1>6, <1>7, <1>8 DEF IInv, Bounded, Made
<1>18. Listed'
  BY <1>1, <1>2, <1>5, <1>6, <1>7, <1>8 DEF IInv, Listed, Former, Made
<1>19. Imaged'
  BY <1>1, <1>2, <1>5, <1>6, <1>7, <1>8 DEF IInv, Imaged, Powered, Remakes, Later2
<1>20. Barred'
  BY <1>1, <1>2, <1>5, <1>6, <1>7, <1>8 DEF IInv, Barred, TypeOK, MachineType
<1> QED
  BY <1>9, <1>10, <1>11, <1>12, <1>13, <1>14, <1>15, <1>16, <1>17, <1>18, <1>19, <1>20 DEF IInv,
    TypeOK

\* The settings take the new pool over.
LEMMA FinishInv ==
  ASSUME IInv, Finish
  PROVE  IInv'
<1>1. UNCHANGED <<provider, consent, stop, retired, plugged, images, installed, running, k3s,
                  active, attached, data, access>>
  BY DEF Finish, At, Done, Goto
<1>2. /\ todo # <<>> /\ Head(todo) = "save"
      /\ phase = "Cleanup"
      /\ locations' = target /\ generation' = generation + 1
      /\ disabled' = (kind = "delete") /\ enabled' = (enabled /\ kind # "delete")
      /\ since' = None
      /\ failed' = FALSE
      /\ kind' = "none"
      /\ phase' = "Drain"
      /\ paused' = FALSE
      /\ error' = FALSE
      /\ backup' = FALSE
      /\ target' = {}
      /\ previous' = {}
      /\ copy' = Gone
      /\ gone' = 0
      /\ written' = IF Backed THEN written ELSE IF attached = 0 THEN 0 ELSE data[attached]
      /\ todo' = Tail(todo)
      /\ lost' \subseteq Volumes
  BY DEF Finish, At, Done, Goto, IInv, TypeOK, JournalType, SettingsType, TickType
<1>3. Walked
  BY <1>2, WalkedBy DEF IInv, TypeOK, TickType
<1>4. kind # "none" /\ Saves
  BY <1>2, Heads, Where DEF IInv, TypeOK, TickType
<1>5. /\ kind \in {"resize", "delete", "recovery"} /\ generation \in Generations
      /\ generation + 1 \in Generations /\ data \in [Generations -> Copies]
      /\ written \in 0..MaxWork /\ target \subseteq Volumes /\ Left' = {}
      /\ {enabled, consent, stop} \subseteq BOOLEAN
  BY <1>2, <1>3, <1>4 DEF IInv, TypeOK, SettingsType, JournalType, MachineType, TickType, Walked
<1>6. /\ kind = "delete" => attached = 0 /\ data[generation + 1] = Gone
      /\ kind # "delete" => attached = generation + 1 /\ data[generation + 1] = written'
      /\ written' \in 0..MaxWork
  <2>1. CASE kind = "resize"
    BY <1>2, <1>5, <2>1 DEF IInv, Placed, Kept, Remakes, Later2, Backed
  <2>2. CASE kind = "delete"
    BY <1>2, <1>5, <2>2 DEF IInv, Placed, Bounded, Backed
  <2>3. CASE kind = "recovery"
    <3>1. attached = generation + 1
      BY <1>2, <2>3 DEF IInv, Placed, Remakes, Later2
    <3>2. data[generation + 1] \in 0..MaxWork
      BY <1>5, <2>3, <3>1 DEF IInv, Bounded
    <3> QED
      BY <1>2, <1>5, <2>3, <3>1, <3>2 DEF Backed
  <2> QED
    BY <1>5, <2>1, <2>2, <2>3
<1>7. \A g \in Generations : g > generation + 1 => data[g] = Gone
  BY <1>5 DEF IInv, Bounded
<1>8. SettingsType'
  BY <1>1, <1>2, <1>5 DEF IInv, TypeOK, SettingsType
<1>9. JournalType' /\ MachineType' /\ InOrder'
  BY <1>1, <1>2, <1>3, <1>4, <1>5, <1>6, <1>7 DEF IInv, TypeOK, Walked, JournalType, MachineType
<1>10. TickType'
  BY <1>1, <1>2, <1>3, <1>6 DEF IInv, TypeOK, TickType, Walked
<1>11. Routes'
  BY <1>1, <1>2, <1>3, <1>4, <1>5, <1>6, <1>7 DEF IInv, Walked, Routes, Saves, Lima, Backed,
    Missing
<1>12. Phased' /\ Placed' /\ Powered'
  BY <1>1, <1>2, <1>3, <1>4, <1>5, <1>6, <1>7 DEF IInv, Walked, Phased, Lima, Placed, Whole,
    Remakes, Later2, Since, Saves, Powered
<1>13. Quiet'
  BY <1>1, <1>2, <1>3, <1>4, <1>5, <1>6, <1>7 DEF IInv, TypeOK, Walked, Quiet, Resting2, Since,
    Saves, JournalType
<1>14. Kept'
  BY <1>1, <1>2, <1>5, <1>6 DEF Kept
<1>15. Bounded'
  <2>1. ASSUME NEW g \in Generations, g >= generation + 1 PROVE data[g] <= written'
    <3>1. CASE g = generation + 1
      BY <1>5, <1>6, <3>1
    <3>2. CASE g > generation + 1
      BY <1>6, <1>7, <3>2
    <3> QED
      BY <1>5, <2>1, <3>1, <3>2
  <2>2. \A g \in Generations : g >= (generation + 1) + 1 => g > generation + 1
    BY <1>5
  <2> QED
    BY <1>1, <1>2, <1>5, <1>6, <1>7, <2>1, <2>2 DEF Bounded, Made
<1>16. Listed'
  BY <1>1, <1>2, <1>3, <1>4, <1>5, <1>6, <1>7 DEF IInv, TypeOK, Walked, Listed, Former, Lima,
    Made, Since, Saves, SettingsType
<1>17. Imaged'
  BY <1>1, <1>2, <1>3, <1>4, <1>5, <1>6, <1>7 DEF IInv, TypeOK, Walked, Imaged, Lima, Remakes,
    Later2, Since, Saves, JournalType
<1>18. Barred'
  BY <1>1, <1>2, <1>3, <1>4, <1>5, <1>6, <1>7 DEF IInv, Walked, Barred, Whole, Lima, Since, Saves
<1>19. NothingForgotten'
  <2>1. Made
    BY <1>2, <1>4 DEF Made
  <2>2. locations \X {generation} \subseteq previous
    BY <1>4 DEF IInv, Listed
  <2>3. previous \cap images \subseteq retired
    BY <1>4, <2>1 DEF IInv, Listed
  <2>4. images \subseteq (target \X {generation + 1}) \cup retired
    BY <2>2, <2>3 DEF IInv, NothingForgotten
  <2> QED
    BY <1>1, <1>2, <2>4 DEF NothingForgotten
<1> QED
  BY <1>8, <1>9, <1>10, <1>11, <1>12, <1>13, <1>14, <1>15, <1>16, <1>17, <1>18, <1>19 DEF IInv,
    TypeOK

\* The absence is put on record.
LEMMA MissInv ==
  ASSUME IInv, Miss
  PROVE  IInv'
<1>1. UNCHANGED <<provider, enabled, consent, stop, locations, generation, disabled, retired,
                  failed, kind, phase, paused, error, backup, target, previous, plugged, images,
                  installed, running, k3s, active, attached, data, copy, access, written, gone>>
  BY DEF Miss, At, Done, Goto
<1>2. /\ todo # <<>> /\ Head(todo) = "miss"
      /\ since' \in {None} \cup 0..Wait
      /\ todo' = Tail(todo)
      /\ lost' \subseteq Volumes
  BY DEF Miss, At, Done, Goto, IInv, TypeOK, JournalType, SettingsType, TickType
<1>3. Walked
  BY <1>2, WalkedBy DEF IInv, TypeOK, TickType
<1>4. kind = "none" /\ ~disabled /\ Lima /\ Left \subseteq StepsOf(Missing)
  BY <1>2, Heads, Where DEF IInv, TypeOK, TickType
<1>5. JournalType' /\ MachineType' /\ Phased' /\ Bounded' /\ NothingForgotten'
  BY <1>1 DEF IInv, TypeOK, JournalType, MachineType, Phased, Bounded, NothingForgotten, Lima,
              Made
<1>6. SettingsType' /\ TickType' /\ InOrder'
  BY <1>1, <1>2, <1>3, <1>4 DEF IInv, TypeOK, Walked, SettingsType, TickType
<1>7. Routes'
  BY <1>1, <1>3, RoutesKept DEF IInv
<1>8. Placed' /\ Powered' /\ Quiet'
  BY <1>1, <1>2, <1>3, <1>4 DEF IInv, Walked, Placed, Lima, Whole, Remakes, Later2, Since, Saves,
    Powered, Quiet, Resting2
<1>9. Kept' /\ Listed' /\ Imaged'
  BY <1>1, <1>2, <1>3, <1>4 DEF IInv, Walked, Kept, Resting2, Since, Saves, Listed, Former, Lima,
    Made, Imaged, Remakes, Later2
<1>10. Barred'
  BY <1>1, <1>2, <1>3, <1>4 DEF IInv, Walked, Barred, Whole, Lima, Since, Saves
<1> QED
  BY <1>5, <1>6, <1>7, <1>8, <1>9, <1>10 DEF IInv, TypeOK

\* The disks are back in use.
LEMMA ReturnedInv ==
  ASSUME IInv, Returned
  PROVE  IInv'
<1>1. UNCHANGED <<provider, enabled, consent, stop, locations, generation, disabled, retired,
                  kind, phase, paused, error, backup, target, previous, plugged, images,
                  installed, running, k3s, active, attached, data, copy, access, written>>
  BY DEF Returned, At, Done, Goto
<1>2. /\ todo # <<>> /\ Head(todo) = "returned"
      /\ since' = None /\ failed' = FALSE /\ gone' = 0
      /\ todo' = Tail(todo)
      /\ lost' \subseteq Volumes
  BY DEF Returned, At, Done, Goto, IInv, TypeOK, JournalType, SettingsType, TickType
<1>3. Walked
  BY <1>2, WalkedBy DEF IInv, TypeOK, TickType
<1>4. JournalType' /\ MachineType' /\ Phased' /\ Bounded' /\ NothingForgotten'
  BY <1>1 DEF IInv, TypeOK, JournalType, MachineType, Phased, Bounded, NothingForgotten, Lima,
              Made
<1>5. SettingsType'
  BY <1>1, <1>2, <1>3 DEF IInv, TypeOK, Walked, SettingsType, JournalType
<1>6. TickType'
  BY <1>1, <1>2, <1>3 DEF IInv, TypeOK, Walked, TickType, JournalType
<1>7. InOrder'
  BY <1>1, <1>2, <1>3 DEF IInv, TypeOK, Walked, JournalType
<1>8. Routes'
  BY <1>1, <1>3, RoutesKept DEF IInv
<1>9. Placed' /\ Powered' /\ Quiet'
  BY <1>1, <1>2, <1>3 DEF IInv, Walked, Placed, Lima, Whole, Remakes, Later2, Since, Saves,
                          Powered, Quiet, Resting2
<1>10. Kept' /\ Listed' /\ Imaged'
  BY <1>1, <1>2, <1>3 DEF IInv, Walked, Kept, Resting2, Since, Saves, Listed, Former, Lima, Made,
                          Imaged, Remakes, Later2
<1>11. Barred'
  BY <1>1, <1>2, <1>3 DEF IInv, Walked, Barred, Whole, Lima, Since, Saves
<1> QED
  BY <1>4, <1>5, <1>6, <1>7, <1>8, <1>9, <1>10, <1>11 DEF IInv, TypeOK

\* Disks that came back.
LEMMA InformReturnedInv ==
  ASSUME IInv, InformReturned
  PROVE  IInv'
<1>1. UNCHANGED <<provider, enabled, consent, stop, locations, generation, disabled, retired,
                  since, failed, kind, phase, paused, error, backup, target, previous, plugged,
                  images, installed, running, k3s, active, attached, data, copy, access, written,
                  gone>>
  BY DEF InformReturned, At, Done, Goto, End
<1>2. /\ todo # <<>> /\ Head(todo) = "inform"
      /\ todo' \in {Returning, <<>>}
      /\ lost' \subseteq Volumes
  BY DEF InformReturned, At, Done, Goto, End, IInv, TypeOK, JournalType, SettingsType, TickType
<1>3. /\ todo' \in Seq(StepNames) /\ InOrder'
      /\ \/ Left' = {}
         \/ /\ Left' = StepsOf(Returning)
            /\ Left' = {"boot", "quiesce", "activate", "bootstrap", "configure", "returned"}
  BY <1>2, GivenBy DEF IInv, TypeOK, TickType
<1>4. kind = "none" /\ ~disabled /\ Lima
  BY <1>2, Heads, Where DEF IInv, TypeOK, TickType
<1>5. SettingsType' /\ JournalType' /\ MachineType' /\ Phased' /\ Bounded'
  BY <1>1 DEF IInv, TypeOK, SettingsType, JournalType, MachineType, Phased, Bounded, Lima, Made
<1>6. NothingForgotten'
  BY <1>1 DEF IInv, TypeOK, NothingForgotten
<1>7. TickType' /\ InOrder' /\ Placed'
  BY <1>1, <1>2, <1>3, <1>4 DEF IInv, TypeOK, TickType, Placed, Lima, Whole, Remakes, Later2,
    Since, Saves
<1>8. Routes'
  BY <1>1, <1>2, <1>3, <1>4 DEF IInv, Routes, Saves, Lima, Backed, Missing
<1>9. Powered' /\ Quiet' /\ Kept'
  BY <1>1, <1>2, <1>3, <1>4 DEF IInv, Powered, Since, Saves, Quiet, Resting2, Kept
<1>10. Listed' /\ Imaged' /\ Barred'
  BY <1>1, <1>2, <1>3, <1>4 DEF IInv, Listed, Former, Lima, Made, Since, Saves, Imaged, Remakes,
    Later2, Barred, Whole
<1> QED
  BY <1>5, <1>6, <1>7, <1>8, <1>9, <1>10 DEF IInv, TypeOK

\* Disks that are given up.
LEMMA InformLostInv ==
  ASSUME IInv, InformLost
  PROVE  IInv'
<1>1. UNCHANGED <<provider, enabled, consent, stop, locations, generation, disabled, retired,
                  since, failed, plugged, images, installed, running, k3s, active, attached, data,
                  copy, access, written>>
  BY DEF InformLost, Begin, Rebuild, At, Done, Goto, End
<1>2. /\ todo # <<>> /\ Head(todo) = "inform"
      /\ todo' = <<>>
      /\ \/ UNCHANGED <<kind, phase, target, previous, paused, error, backup>>
             \/ /\ kind' = "recovery" /\ phase' = "Reset" /\ generation < MaxGeneration
                /\ paused' = FALSE
                /\ error' = FALSE
                /\ backup' = FALSE
                /\ target' \subseteq locations
                /\ previous' \subseteq (locations \X {generation}) \cup retired
                /\ locations \X {generation} \subseteq previous'
      /\ lost' \subseteq Volumes /\ gone' \in {gone, 0}
  BY DEF InformLost, Begin, Rebuild, At, Done, Goto, End, IInv, TypeOK, JournalType, SettingsType,
     TickType
<1>3. todo' \in Seq(StepNames) /\ InOrder' /\ Left' = {}
  BY <1>2, GivenBy DEF IInv, TypeOK, TickType
<1>4. kind = "none" /\ ~disabled /\ Lima
  BY <1>2, Heads, Where DEF IInv, TypeOK, TickType
<1>5. /\ generation \in Generations /\ locations \subseteq Volumes /\ retired \subseteq Images
      /\ data \in [Generations -> Copies] /\ provider \in {"Lima", "Multipass"}
  BY DEF IInv, TypeOK, SettingsType, MachineType
<1>6. generation < MaxGeneration =>
        generation + 1 \in Generations /\ data[generation + 1] = Gone
  BY <1>4, <1>5 DEF IInv, Bounded, Made
<1>7. locations \X {generation} \subseteq Images
  BY <1>5
<1>8. SettingsType' /\ MachineType'
  BY <1>1 DEF IInv, TypeOK, SettingsType, MachineType
<1>9. JournalType'
  <2>1. CASE UNCHANGED <<kind, phase, target, previous, paused, error, backup>>
    BY <1>1, <2>1 DEF IInv, TypeOK, JournalType
  <2>2. CASE kind' = "recovery"
    BY <1>1, <1>2, <1>4, <1>5, <1>7, <2>2
       DEF TypeOK, JournalType
  <2> QED
    BY <1>2, <2>1, <2>2
<1>10. TickType' /\ InOrder' /\ Phased'
  BY <1>1, <1>2, <1>3, <1>4, <1>5, <1>6, <1>7 DEF IInv, TypeOK, TickType, Phased, Lima
<1>11. Routes'
  BY <1>1, <1>2, <1>3, <1>4, <1>5, <1>6, <1>7 DEF IInv, Routes, Saves, Lima, Backed, Missing
<1>12. Placed' /\ Powered' /\ Quiet'
  BY <1>1, <1>2, <1>3, <1>4, <1>5, <1>6, <1>7 DEF IInv, Placed, Lima, Whole, Remakes, Later2,
    Since, Saves, Powered, Quiet, Resting2
<1>13. Kept' /\ Listed' /\ Imaged'
  BY <1>1, <1>2, <1>3, <1>4, <1>5, <1>6, <1>7 DEF IInv, Kept, Resting2, Since, Saves, Listed,
    Former, Lima, Made, Imaged, Remakes, Later2
<1>14. Bounded'
  <2>1. CASE UNCHANGED <<kind, phase, target, previous, paused, error, backup>>
    BY <1>1, <2>1 DEF IInv, Bounded, Made
  <2>2. CASE kind' = "recovery"
    <3>1. \A g \in Generations :
            g > generation + 1 \/ g = generation + 1 => data[g] = Gone
      BY <1>4 DEF IInv, Bounded, Made
    <3>2. generation + 1 \in Generations /\ data[generation + 1] = Gone
      BY <1>2, <1>4, <1>6, <2>2
    <3>3. attached = generation
      BY <1>4 DEF IInv, Placed
    <3> QED
      BY <1>1, <1>2, <1>5, <2>2, <3>1, <3>2, <3>3 DEF IInv, Bounded, Made
  <2> QED
    BY <1>2, <2>1, <2>2
<1>15. Barred'
  BY <1>1, <1>2, <1>3, <1>4, <1>5, <1>6, <1>7 DEF IInv, TypeOK, Barred, Whole, Lima, Since, Saves,
    JournalType
<1>16. NothingForgotten'
  BY <1>1, <1>2, <1>3, <1>4, <1>5, <1>6, <1>7 DEF IInv, TypeOK, NothingForgotten, JournalType
<1> QED
  BY <1>8, <1>9, <1>10, <1>11, <1>12, <1>13, <1>14, <1>15, <1>16 DEF IInv, TypeOK

\* The tick is given up.
LEMMA EndInv ==
  ASSUME IInv, Fail \/ Interrupt \/ Crash \/ Drain(FALSE)
  PROVE  IInv'
<1>1. UNCHANGED <<provider, enabled, consent, locations, generation, disabled, retired, since,
                  kind, phase, paused, backup, target, previous, plugged, images, installed, k3s,
                  attached, data, copy, access, written, gone>>
  BY DEF Fail, Interrupt, Crash, Drain, Off, ValidatingPool, At, Done, Goto, End
<1>2. /\ todo' \in {<<"stopping">>, <<>>}
      /\ {error', failed', stop'} \subseteq BOOLEAN
      /\ kind = "none" => ~error'
      /\ (running' = FALSE /\ active' = FALSE) \/ UNCHANGED <<running, active>>
      /\ lost' \subseteq Volumes
  <2>1. /\ {error, failed, stop, running, active} \subseteq BOOLEAN
        /\ kind = "none" => ~error
        /\ lost \subseteq Volumes
    BY DEF IInv, TypeOK, SettingsType, JournalType, MachineType, TickType
  <2>2. CASE Fail
    <3>1. /\ error' \in {error, TRUE} /\ (kind = "none" => error' = error)
          /\ failed' \in {failed, TRUE}
      BY <2>1, <2>2 DEF Fail, ValidatingPool
    <3>2. /\ todo' = <<>> /\ lost' \in {lost, {}} /\ UNCHANGED stop
          /\ (running' = FALSE /\ active' = FALSE) \/ UNCHANGED <<running, active>>
      BY <2>2 DEF Fail, End, Goto, Off
    <3> QED
      BY <2>1, <3>1, <3>2
  <2>3. CASE Interrupt
    BY <2>1, <2>3 DEF Interrupt, Goto
  <2>4. CASE Crash
    BY <2>1, <2>4 DEF Crash, End, Goto, Off
  <2>5. CASE Drain(FALSE)
    BY <2>1, <2>5 DEF Drain, At, End, Goto
  <2> QED
    BY <2>1, <2>2, <2>3, <2>4, <2>5
<1>3. todo' \in Seq(StepNames) /\ InOrder' /\ Left' \subseteq {"stopping"}
  BY <1>2, GivenBy DEF IInv, TypeOK, TickType
<1>4. Phased' /\ Bounded' /\ NothingForgotten'
  BY <1>1 DEF IInv, TypeOK, Phased, Bounded, NothingForgotten, Lima, Made
<1>5. SettingsType' /\ JournalType' /\ TickType'
  BY <1>1, <1>2, <1>3 DEF IInv, TypeOK, SettingsType, JournalType, TickType
<1>6. MachineType'
  <2>1. {installed', running', k3s', active', access'} \subseteq BOOLEAN
    BY <1>1, <1>2 DEF IInv, TypeOK, MachineType
  <2>2. (active' => running') /\ (running' => installed')
    BY <1>1, <1>2 DEF IInv, TypeOK, MachineType
  <2>3. data' \in [Generations -> Copies] /\ copy' \in Copies
    BY <1>1, <1>2 DEF IInv, TypeOK, MachineType
  <2>4. attached' \in {0} \cup Generations
    BY <1>1, <1>2 DEF IInv, TypeOK, MachineType
  <2> QED
    BY <1>1, <1>2, <2>1, <2>2, <2>3, <2>4 DEF IInv, TypeOK, MachineType
<1>7. InOrder' /\ Placed' /\ Powered'
  BY <1>1, <1>2, <1>3 DEF IInv, Placed, Lima, Whole, Remakes, Later2, Since, Saves, Powered
<1>8. Routes'
  BY <1>1, <1>2, <1>3 DEF IInv, Routes, Saves, Lima, Backed, Missing
<1>9. Quiet' /\ Kept' /\ Listed'
  BY <1>1, <1>2, <1>3 DEF IInv, Quiet, Resting2, Since, Saves, Kept, Listed, Former, Lima, Made
<1>10. Imaged' /\ Barred'
  BY <1>1, <1>2, <1>3 DEF IInv, Imaged, Lima, Remakes, Later2, Since, Saves, Barred, Whole
<1> QED
  BY <1>4, <1>5, <1>6, <1>7, <1>8, <1>9, <1>10 DEF IInv, TypeOK

\* The owner's stop.
LEMMA StoppedInv ==
  ASSUME IInv, Stopped
  PROVE  IInv'
<1>1. UNCHANGED <<provider, enabled, consent, locations, generation, disabled, retired, since,
                  failed, kind, phase, paused, error, backup, target, previous, plugged, images,
                  installed, k3s, attached, data, copy, access, written, gone>>
  BY DEF Stopped, Off, At, Done, Goto
<1>2. /\ todo # <<>> /\ Head(todo) = "stopping"
      /\ stop' = FALSE
      /\ running' = FALSE /\ active' = FALSE
      /\ todo' = Tail(todo)
      /\ lost' \subseteq Volumes
  BY DEF Stopped, Off, At, Done, Goto, IInv, TypeOK, JournalType, SettingsType, TickType
<1>3. Walked
  BY <1>2, WalkedBy DEF IInv, TypeOK, TickType
<1>4. Left \subseteq {"stopping"}
  BY <1>2, Heads, Where DEF IInv, TypeOK, TickType
<1>5. JournalType' /\ Phased' /\ Bounded' /\ NothingForgotten'
  BY <1>1 DEF IInv, TypeOK, JournalType, Phased, Bounded, NothingForgotten, Lima, Made
<1>6. SettingsType' /\ MachineType' /\ TickType'
  BY <1>1, <1>2, <1>3, <1>4 DEF IInv, TypeOK, Walked, SettingsType, MachineType, TickType
<1>7. InOrder' /\ Placed' /\ Powered'
  BY <1>1, <1>2, <1>3, <1>4 DEF IInv, Walked, Placed, Lima, Whole, Remakes, Later2, Since, Saves,
    Powered
<1>8. Routes'
  BY <1>1, <1>3, RoutesKept DEF IInv
<1>9. Quiet' /\ Kept' /\ Listed'
  BY <1>1, <1>2, <1>3, <1>4 DEF IInv, Walked, Quiet, Resting2, Since, Saves, Kept, Listed, Former,
    Lima, Made
<1>10. Imaged' /\ Barred'
  BY <1>1, <1>2, <1>3, <1>4 DEF IInv, Walked, Imaged, Lima, Remakes, Later2, Since, Saves, Barred,
    Whole
<1> QED
  BY <1>5, <1>6, <1>7, <1>8, <1>9, <1>10 DEF IInv, TypeOK

-----------------------------------------------------------------------------
(* The theorems.                                                           *)

\* The worker as it is first set up.
LEMMA InitInv ==
  ASSUME Init
  PROVE  IInv
<1>1. Left = {} /\ todo \in Seq(StepNames) /\ InOrder
  BY EmptySteps DEF Init, Left, InOrder
<1>2. /\ provider \in {"Lima", "Multipass"} /\ locations \subseteq Volumes
      /\ ~Lima => locations = {}
      /\ MaxGeneration \in Nat \ {0} /\ 1 \in Generations
  BY DEF Init, Lima
<1>3. SettingsType
  BY <1>2 DEF Init, SettingsType
<1>4. JournalType
  BY <1>2 DEF Init, JournalType
<1>5. MachineType
  <2>1. locations \X {1} \subseteq Volumes \X Generations
    BY <1>2
  <2>2. [g \in Generations |-> IF g = 1 THEN 0 ELSE Gone] \in [Generations -> Copies]
    OBVIOUS
  <2> QED
    BY <1>2, <2>1, <2>2 DEF Init, MachineType
<1>6. TickType
  BY <1>1, <1>2 DEF Init, TickType
<1>7. Routes
  BY <1>1 DEF Routes, Init
<1>8. Phased /\ Placed /\ Powered /\ Quiet /\ Barred
  BY <1>1, <1>2 DEF Init, Phased, Placed, Remakes, Powered, Since, Saves, Quiet, Barred
<1>9. Kept /\ Bounded
  BY <1>2 DEF Init, Kept, Bounded, Made
<1>10. Listed /\ Imaged /\ NothingForgotten
  BY <1>1, <1>2 DEF Init, Listed, Former, Lima, Made, Imaged, Remakes, NothingForgotten
<1> QED
  BY <1>1, <1>3, <1>4, <1>5, <1>6, <1>7, <1>8, <1>9, <1>10 DEF IInv, TypeOK

\* A step that changes nothing.
LEMMA StutterInv ==
  ASSUME IInv, UNCHANGED vars
  PROVE  IInv'
<1>1. Stays
  BY StaysBy DEF IInv, TypeOK, TickType
<1>2. InOrder' /\ Routes'
  BY <1>1, RoutesKept DEF Stays, IInv
<1>3. SettingsType' /\ JournalType' /\ MachineType' /\ TickType'
  BY DEF IInv, TypeOK, SettingsType, JournalType, MachineType, TickType
<1>4. Phased' /\ Placed' /\ Powered' /\ Quiet' /\ Barred'
  BY <1>1 DEF Stays, IInv, Phased, Placed, Remakes, Later2, Powered, Since, Saves, Quiet,
              Resting2,
              Barred, Lima, Whole
<1>5. Kept' /\ Bounded'
  BY <1>1 DEF Stays, IInv, Kept, Resting2, Since, Saves, Bounded, Made
<1>6. Listed' /\ Imaged' /\ NothingForgotten'
  BY <1>1 DEF Stays, IInv, Listed, Former, Lima, Made, Imaged, Remakes, Later2, Since, Saves,
              NothingForgotten
<1> QED
  BY <1>2, <1>3, <1>4, <1>5, <1>6 DEF IInv, TypeOK

\* Every action keeps the invariant.
LEMMA NextInv ==
  ASSUME IInv, [Next]_vars
  PROVE  IInv'
<1>1. CASE Owner
  BY <1>1, OwnerInv, ReviewInv DEF Owner
<1>2. CASE Host
  BY <1>2, HostInv, WorkInv DEF Host
<1>3. CASE TickBegins \/ Serve
  BY <1>3, TickInv, ServeInv
<1>4. CASE Step
  <2>1. CASE Checked \/ Compare \/ Restored \/ Drain(TRUE) \/ ImagesGone \/ Activate
    BY <2>1, CheckedInv, CompareInv, PassInv
  <2>2. CASE Boot \/ Quiesce \/ Halt \/ WriteBackup(TRUE) \/ Retire \/ ResetAccess(TRUE) \/ Detach
    BY <2>2, BootInv, QuiesceInv, HaltInv, WriteBackupInv, RetireInv, ResetInv, DetachInv
  <2>3. CASE ListRetired \/ MakeImages \/ Apply \/ Restore(TRUE) \/ Bootstrap \/ Configure
    BY <2>3, ListInv, MakeInv, ApplyInv, RestoreInv, BootstrapInv, ConfigureInv
  <2>4. CASE SavePhase \/ Finish
    BY <2>4, SavePhaseInv, FinishInv
  <2>5. CASE Miss \/ InformReturned \/ InformLost \/ Returned \/ Stopped
    BY <2>5, MissInv, InformReturnedInv, InformLostInv, ReturnedInv, StoppedInv
  <2>6. CASE \E i \in Images : EraseImage(i) \/ ForgetImage(i)
    BY <2>6, EraseInv, ForgetInv
  <2> QED
    BY <1>4, <2>1, <2>2, <2>3, <2>4, <2>5, <2>6 DEF Step
<1>5. CASE Partial
  BY <1>5, EndInv, WriteBackupInv, RestoreInv, ResetInv DEF Partial
<1>6. CASE Fail \/ Interrupt \/ Crash
  BY <1>6, EndInv
<1>7. CASE UNCHANGED vars
  BY <1>7, StutterInv
<1> QED
  BY <1>1, <1>2, <1>3, <1>4, <1>5, <1>6, <1>7 DEF Next

THEOREM Invariance == Spec => []IInv
<1>1. Init => IInv
  BY InitInv
<1>2. IInv /\ [Next]_vars => IInv'
  BY NextInv
<1> QED
  BY <1>1, <1>2, PTL DEF Spec

(***************************************************************************)
(* The settings, the journal, the machine and the tick have their types,   *)
(* and a maintenance that has ended leaves nothing in the journal          *)
(* (new_maintenance, finish).                                              *)
(***************************************************************************)
THEOREM TypeCorrect == Spec => []TypeOK
<1>1. IInv => TypeOK
  BY DEF IInv
<1> QED
  BY <1>1, Invariance, PTL

(***************************************************************************)
(* A change of size loses nothing that workloads wrote: all of it is in    *)
(* the old pool, in the verified backup or in the new pool, whatever fails *)
(* or is interrupted (maintenance_step).                                   *)
(***************************************************************************)
THEOREM NothingIsLost == Spec => []DataIsKept
<1>1. IInv => DataIsKept
  <2> SUFFICES ASSUME IInv, kind \in {"none", "resize"}, ~disabled
               PROVE  \/ backup /\ copy = written
                      \/ \E g \in Generations :
                           g \in {generation, generation + 1} /\ data[g] = written
    BY DEF DataIsKept
  <2>1. /\ generation \in Generations /\ phase \in Phases
        /\ kind = "resize" => generation + 1 \in Generations
    BY DEF IInv, TypeOK, SettingsType, JournalType
  <2>2. CASE kind = "none"
    BY <2>1, <2>2 DEF IInv, Kept
  <2>3. CASE kind = "resize" /\ phase \in {"Drain", "Backup"}
    BY <2>1, <2>3 DEF IInv, Kept
  <2>4. CASE kind = "resize" /\ phase \in Resting2 \ {"Backup"}
    BY <2>4 DEF IInv, Kept
  <2>5. CASE kind = "resize" /\ phase \in {"Bootstrap", "Capacity", "Cleanup"}
    BY <2>1, <2>5 DEF IInv, Kept
  <2> QED
    BY <2>1, <2>2, <2>3, <2>4, <2>5 DEF Resting2
<1> QED
  BY <1>1, Invariance, PTL

(***************************************************************************)
(* Between maintenances the settings name the pool that the guest has, and *)
(* all its disks exist (finish, missing_storage_tick).                     *)
(***************************************************************************)
THEOREM SettingsAreRight == Spec => []SettingsNameThePool
<1>1. IInv => SettingsNameThePool
  BY DEF IInv, SettingsNameThePool, Placed, Imaged
<1> QED
  BY <1>1, Invariance, PTL

(***************************************************************************)
(* Every image on a volume is one that the settings name, so that it can   *)
(* be removed when its volume is back (retired_storage).                   *)
(***************************************************************************)
THEOREM EveryImageIsListed == Spec => []NothingForgotten
<1>1. IInv => NothingForgotten
  BY DEF IInv
<1> QED
  BY <1>1, Invariance, PTL

(***************************************************************************)
(* A machine and its disks are removed only when the worker's credentials  *)
(* are dead (the Reset phase comes before Delete).                         *)
(***************************************************************************)
THEOREM ResetComesFirst == Spec => AccessEndsFirst
<1> DEFINE Ends == (installed /\ ~installed') \/ (images \ images' # {} /\ kind # "resize")
<1>1. ASSUME IInv, Next, Ends PROVE ~access
  <2>1. CASE Detach
    <3>1. todo # <<>> /\ Head(todo) = "detach" /\ images' = images /\ (~Whole => installed' = installed)
      BY <2>1 DEF Detach, At
    <3>2. phase = "Delete" /\ kind # "none"
      BY <1>1, <3>1, Heads, Where DEF IInv, TypeOK, TickType
    <3> QED
      BY <1>1, <3>1, <3>2 DEF IInv, Barred
  <2>2. CASE \E i \in Images : EraseImage(i)
    <3>1. todo # <<>> /\ Head(todo) = "images" /\ installed' = installed
      BY <2>2 DEF EraseImage, At
    <3>2. phase = "Delete" /\ kind # "none"
      BY <1>1, <3>1, Heads, Where DEF IInv, TypeOK, TickType
    <3> QED
      BY <1>1, <3>1, <3>2 DEF IInv, Barred, Whole
  <2>3. CASE (installed => installed') /\ images \subseteq images'
    BY <1>1, <2>3
  <2>4. \/ Detach \/ (\E i \in Images : EraseImage(i))
        \/ (installed => installed') /\ images \subseteq images'
    BY <1>1 DEF Next, Owner, ReviewResize, ReviewDelete, Review, Pause, Stop, Resume, SetRecovery,
             RetryStorageMaintenance, Host, Plug, Unplug, Clock, Work, TickBegins, Serve, Off,
             Step, Checked, Pass, Compare, Restored, Drain, Boot, Quiesce, Halt, WriteBackup,
             Retire, ResetAccess, ListRetired, ForgetImage, ImagesGone, MakeImages, Apply,
             Restore, Bootstrap, Configure, SavePhase, Finish, Miss, InformReturned, InformLost,
             Activate, Returned, Partial, Fail, Interrupt, Stopped, Crash
  <2> QED
    BY <2>1, <2>2, <2>3, <2>4
<1>2. IInv /\ [Next]_vars => [Ends => ~access]_vars
  BY <1>1
<1> QED
  BY <1>2, Invariance, PTL DEF Spec, AccessEndsFirst

(***************************************************************************)
(* A pool is given up only while the owner shares the worker and has       *)
(* agreed to automatic recovery (missing_storage_tick).                    *)
(***************************************************************************)
THEOREM RecoveryIsAgreed == Spec => RecoveryIsWanted
<1> DEFINE Given == kind = "none" /\ kind' = "recovery"
<1>1. ASSUME Next, Given PROVE enabled /\ consent
  <2>1. InformLost \/ kind' \in {kind, "none", "resize", "delete"}
    BY <1>1 DEF Next, Owner, ReviewResize, ReviewDelete, Review, Begin, Pause, Stop, Resume,
             SetRecovery, RetryStorageMaintenance, Host, Plug, Unplug, Clock, Work, TickBegins,
             Serve, Step, Checked, Pass, Compare, Restored, Drain, Boot, Quiesce, Halt,
             WriteBackup, Retire, ResetAccess, Detach, ListRetired, EraseImage, ForgetImage,
             ImagesGone, MakeImages, Apply, Restore, Bootstrap, Configure, SavePhase, Finish,
             Miss, InformReturned, Activate, Returned, Partial, Fail, Interrupt, Stopped, Crash
  <2>2. CASE InformLost
    BY <1>1, <2>2 DEF InformLost
  <2> QED
    BY <1>1, <2>1, <2>2
<1>2. [Next]_vars => [Given => enabled /\ consent]_vars
  BY <1>1
<1> QED
  BY <1>2, PTL DEF Spec, RecoveryIsWanted
=============================================================================
