---------------------------- MODULE HealthProofs ----------------------------
(***************************************************************************)
(* What qualifies a worker, for every length of the windows, any limits    *)
(* and any round-trip times: what assess_health reads off the recorded     *)
(* slots is what was really observed.  The index into the sorted times is  *)
(* where the work is: the lemmas on counting show that it is the share.    *)
(***************************************************************************)
EXTENDS Health, FiniteSetTheorems, FunctionTheorems, WellFoundedInduction, TLAPS

USE HealthAssumption

TypeOK == /\ slots \in [Ages -> Outcomes \cup {Missing}]
          /\ seen  \in [Ages -> SUBSET Outcomes]

\* A slot holds the worst of what was observed in it.
Summary ==
  \A a \in Ages :
    /\ slots[a] = Missing <=> seen[a] = {}
    /\ slots[a] = Down <=> Down \in seen[a]
    /\ Healthy(slots[a]) => /\ slots[a] \in seen[a]
                            /\ \A q \in seen[a] : q <= slots[a]

HealthInv == TypeOK /\ Summary

-----------------------------------------------------------------------------
(* The invariant.                                                          *)

LEMMA OutcomeValues ==
  /\ Down = -1 /\ Missing = -2
  /\ \A o \in Outcomes : o = Down \/ o \in Nat
BY DEF Outcomes, Down, Missing

LEMMA InitInv == Init => HealthInv
BY DEF Init, HealthInv, TypeOK, Summary, Ages, Missing, Down, Healthy, Outcomes

\* Merging keeps the worst: nothing undoes a failure or a slow answer.
LEMMA MergeIsWorst ==
  ASSUME NEW old \in Outcomes \cup {Missing}, NEW new \in Outcomes
  PROVE  /\ Merge(old, new) \in Outcomes
         /\ Merge(old, new) = Down <=> Down \in {old, new}
         /\ Healthy(Merge(old, new)) =>
              /\ Merge(old, new) \in {old, new} /\ old <= Merge(old, new) /\ new <= Merge(old, new)
BY DEF Merge, Outcomes, Missing, Down, Healthy

LEMMA ObserveInv ==
  ASSUME HealthInv, NEW o \in Outcomes, Observe(o)
  PROVE  HealthInv'
<1> DEFINE m == Merge(slots[0], o)
<1>0. /\ 0 \in Ages /\ slots[0] \in Outcomes \cup {Missing}
      /\ slots' = [slots EXCEPT ![0] = m] /\ seen' = [seen EXCEPT ![0] = @ \cup {o}]
  BY DEF Ages, HealthInv, TypeOK, Observe
<1>1. /\ m \in Outcomes /\ (m = Down <=> Down \in {slots[0], o})
      /\ Healthy(m) => m \in {slots[0], o} /\ slots[0] <= m /\ o <= m
  BY <1>0, MergeIsWorst
<1> HIDE DEF m
<1>2. TypeOK'
  BY <1>0, <1>1 DEF HealthInv, TypeOK
<1>3. ASSUME NEW a \in Ages, a # 0
      PROVE  slots'[a] = slots[a] /\ seen'[a] = seen[a]
  BY <1>0, <1>3 DEF HealthInv, TypeOK
<1>4. slots'[0] = m /\ seen'[0] = seen[0] \cup {o}
  BY <1>0 DEF HealthInv, TypeOK
<1>5. /\ slots'[0] = Missing <=> seen'[0] = {}
      /\ slots'[0] = Down <=> Down \in seen'[0]
  BY <1>0, <1>1, <1>4 DEF HealthInv, Summary, Outcomes, Missing, Down
<1>6. ASSUME Healthy(m)
      PROVE  m \in seen'[0] /\ \A q \in seen'[0] : q <= m
  <2>1. CASE slots[0] = Missing
    BY <1>0, <1>1, <1>4, <1>6, <2>1 DEF HealthInv, Summary, Missing, Healthy
  <2>2. CASE slots[0] = Down
    BY <1>1, <1>6, <2>2 DEF Down, Healthy
  <2>3. CASE Healthy(slots[0])
    <3>1. slots[0] \in seen[0] /\ \A q \in seen[0] : q <= slots[0]
      BY <1>0, <2>3 DEF HealthInv, Summary
    <3>2. \A q \in seen[0] : q \in Int
      BY <1>0 DEF HealthInv, TypeOK, Outcomes, Down
    <3>3. m \in Int
      BY <1>1, OutcomeValues
    <3>4. slots[0] \in Int
      BY <1>0, OutcomeValues
    <3> QED
      BY <1>1, <1>4, <1>6, <3>1, <3>2, <3>3, <3>4
  <2>4. slots[0] = Missing \/ slots[0] = Down \/ Healthy(slots[0])
    BY <1>0, OutcomeValues DEF Healthy
  <2> QED
    BY <2>1, <2>2, <2>3, <2>4
<1>7. Summary'
  BY <1>3, <1>4, <1>5, <1>6 DEF HealthInv, Summary
<1> QED
  BY <1>2, <1>7 DEF HealthInv

LEMMA NextSlotInv ==
  ASSUME HealthInv, NextSlot
  PROVE  HealthInv'
<1>1. \A a \in Ages : a # 0 => a - 1 \in Ages
  BY DEF Ages
<1>2. TypeOK'
  BY <1>1 DEF HealthInv, TypeOK, NextSlot, Later
<1>3. \A a \in Ages : IF a = 0 THEN slots'[a] = Missing /\ seen'[a] = {}
                              ELSE slots'[a] = slots[a - 1] /\ seen'[a] = seen[a - 1]
  BY DEF NextSlot, Later
<1>4. Summary'
  BY <1>1, <1>3 DEF HealthInv, Summary, Missing, Down, Healthy
<1> QED
  BY <1>2, <1>4 DEF HealthInv

LEMMA RequalifyInv ==
  ASSUME HealthInv, Requalify
  PROVE  HealthInv'
BY DEF HealthInv, Requalify, TypeOK, Summary, Missing, Down, Healthy

(***************************************************************************)
(* Every slot holds the worst of what was ever observed in it.             *)
(***************************************************************************)
THEOREM SlotsSummarise == Spec => []HealthInv
<1>1. HealthInv /\ [Next]_vars => HealthInv'
  <2> SUFFICES ASSUME HealthInv, [Next]_vars PROVE HealthInv'
    OBVIOUS
  <2>1. CASE Next
    BY <2>1, ObserveInv, NextSlotInv, RequalifyInv DEF Next
  <2>2. CASE UNCHANGED vars
    BY <2>2 DEF vars, HealthInv, TypeOK, Summary
  <2> QED
    BY <2>1, <2>2
<1> QED
  BY InitInv, <1>1, PTL DEF Spec

-----------------------------------------------------------------------------
(* Counting: the k-th of sorted times.                                     *)

\* A set of naturals has a least element.
LEMMA Least ==
  ASSUME NEW S \in SUBSET Nat, S # {}
  PROVE  \E x \in S : \A y \in S : x <= y
<1>1. PICK x \in S : \A y \in S : ~ (<<y, x>> \in OpToRel(<, Nat))
  BY NatLessThanWellFounded, WFMin
<1>2. \A y \in S : ~ (y < x)
  BY <1>1 DEF OpToRel
<1> QED
  BY <1>2

\* A finite set of naturals has a greatest element.
LEMMA Greatest ==
  ASSUME NEW S \in SUBSET Nat, IsFiniteSet(S), S # {}
  PROVE  \E x \in S : \A y \in S : y <= x
<1> DEFINE From(x) == {y \in S : x <= y}
           Sizes == {Cardinality(From(x)) : x \in S}
<1>1. \A x \in S : IsFiniteSet(From(x)) /\ Cardinality(From(x)) \in Nat
  BY FS_Subset, FS_CardinalityType
<1>2. PICK x \in S : \A y \in S : Cardinality(From(x)) <= Cardinality(From(y))
  <2>1. Sizes \in SUBSET Nat /\ Sizes # {}
    BY <1>1
  <2>2. PICK n \in Sizes : \A m \in Sizes : n <= m
    BY <2>1, Least
  <2> QED
    BY <2>2
<1>3. ASSUME NEW y \in S, ~ (y <= x)
      PROVE  FALSE
  <2>1. /\ \A z \in S : y <= z => x <= z
        /\ x <= x
    BY <1>3
  <2>2a. From(y) \subseteq From(x) /\ x \in From(x) /\ x \notin From(y)
    BY <1>3, <2>1
  <2>2. Cardinality(From(y)) <= Cardinality(From(x)) /\ Cardinality(From(y)) # Cardinality(From(x))
    BY <1>1, <2>2a, FS_Subset
  <2> QED
    BY <1>1, <1>2, <2>2
<1> QED
  BY <1>3

\* Among finitely many measured slots some time is the k-th.
LEMMA KthExists ==
  ASSUME NEW ages, IsFiniteSet(ages), \A a \in ages : slots[a] \in Nat,
         NEW k \in 1..Cardinality(ages)
  PROVE  \E r \in {slots[a] : a \in ages} :
            /\ Cardinality({a \in ages : slots[a] < r}) < k
            /\ Cardinality({a \in ages : slots[a] <= r}) >= k
<1> DEFINE Times == {slots[a] : a \in ages}
           UpTo(r) == {a \in ages : slots[a] <= r}
           Below(r) == {a \in ages : slots[a] < r}
           Enough == {r \in Times : Cardinality(UpTo(r)) >= k}
<1>1. k \in Nat /\ k <= Cardinality(ages)
  BY FS_CardinalityType
<1>2. \A r : /\ IsFiniteSet(UpTo(r)) /\ Cardinality(UpTo(r)) \in Nat
             /\ IsFiniteSet(Below(r)) /\ Cardinality(Below(r)) \in Nat
  BY FS_Subset, FS_CardinalityType
<1>3. Times \in SUBSET Nat
  OBVIOUS
<1>4. IsFiniteSet(Times)
  <2> DEFINE v == [a \in ages |-> slots[a]]
  <2>1. v \in [ages -> Nat] /\ Range(v) = Times
    BY DEF Range
  <2> QED
    BY <2>1, Fun_RangeProperties, FS_Surjection
<1>5. Enough # {}
  <2>1. ages # {}
    BY FS_EmptySet
  <2>2. PICK g \in Times : \A y \in Times : y <= g
    BY <1>3, <1>4, <2>1, Greatest
  <2>3. UpTo(g) = ages
    BY <2>2
  <2>4. Cardinality(UpTo(g)) >= k
    BY <1>1, <2>3
  <2> QED
    BY <2>4
<1>6. PICK r \in Enough : \A y \in Enough : r <= y
  BY <1>3, <1>5, Least
<1>7. Cardinality(Below(r)) < k
  <2>0. Cardinality(Below(r)) \in Nat
    BY <1>2
  <2> SUFFICES ASSUME Cardinality(Below(r)) >= k PROVE FALSE
    BY <1>1, <2>0
  <2> DEFINE Earlier == {slots[a] : a \in Below(r)}
  <2>1. Below(r) # {}
    BY FS_EmptySet
  <2>2. Earlier \in SUBSET Times /\ Earlier # {}
    BY <2>1
  <2>3. PICK g \in Earlier : \A y \in Earlier : y <= g
    BY <1>3, <1>4, <2>2, Greatest, FS_Subset
  <2>4. UpTo(g) = Below(r)
    BY <1>3, <2>2, <2>3
  <2>5. g \in Enough /\ g < r
    BY <2>2, <2>3, <2>4
  <2> QED
    BY <1>3, <1>6, <2>2, <2>5
<1> QED
  BY <1>6, <1>7

\* The index of the percentile is one of the list, and counts the share.
LEMMA PercentileIndex ==
  ASSUME NEW n \in Nat \ {0}
  PROVE  LET k == (n * Percent + 99) \div 100
         IN  /\ k \in 1..n
             /\ \A c \in Nat : c >= k <=> 100 * c >= Percent * n
<1> DEFINE m == n * Percent
<1>1. m \in Nat /\ 1 <= m /\ m <= 100 * n /\ m = Percent * n
  <2>1. Percent \in Nat /\ 1 <= Percent /\ Percent <= 100
    OBVIOUS
  <2> HIDE HealthAssumption
  <2> QED
    BY <2>1
<1> HIDE DEF m
<1>2. LET k == (m + 99) \div 100
      IN  k \in 1..n /\ \A c \in Nat : c >= k <=> 100 * c >= m
  BY <1>1
<1> QED
  BY <1>1, <1>2 DEF m

(***************************************************************************)
(* The percentile lies within a limit exactly when the share of the slots  *)
(* does: D is what is within, and with a slot holds every faster one.      *)
(***************************************************************************)
LEMMA PercentileShare ==
  ASSUME NEW ages, IsFiniteSet(ages), ages # {}, \A a \in ages : slots[a] \in Nat,
         NEW D \in SUBSET ages,
         \A a \in D : \A b \in ages : slots[b] <= slots[a] => b \in D
  PROVE  \E a \in ages :
            /\ Percentile95(Sorted(ages)) = slots[a]
            /\ a \in D <=> 100 * Cardinality(D) >= Percent * Cardinality(ages)
<1> DEFINE n == Cardinality(ages)
           k == (n * Percent + 99) \div 100
           Kth(r) == /\ Cardinality({a \in ages : slots[a] < r}) < k
                     /\ Cardinality({a \in ages : slots[a] <= r}) >= k
           r95 == CHOOSE r \in {slots[a] : a \in ages} : Kth(r)
<1>1. n \in Nat \ {0}
  BY FS_CardinalityType, FS_EmptySet
<1>2. k \in 1..n /\ \A c \in Nat : c >= k <=> 100 * c >= Percent * n
  BY <1>1, PercentileIndex
<1>3. Len(Sorted(ages)) = n
  BY <1>1 DEF Sorted
<1>4. Percentile95(Sorted(ages)) = r95
  <2>1. Sorted(ages)[k] = r95
    BY <1>2 DEF Sorted
  <2> QED
    BY <1>3, <2>1 DEF Percentile95
<1> HIDE DEF k
<1>5. r95 \in {slots[a] : a \in ages} /\ Kth(r95)
  <2>1. k \in 1..Cardinality(ages)
    BY <1>2
  <2>2. \E r \in {slots[a] : a \in ages} : Kth(r)
    <3> HIDE HealthAssumption
    <3> QED
      BY <2>1, KthExists
  <2> HIDE DEF Kth
  <2> QED
    BY <2>2
<1> HIDE DEF r95
<1>6. PICK a \in ages : r95 = slots[a]
  BY <1>5
<1>7. IsFiniteSet(D) /\ Cardinality(D) \in Nat
  BY FS_Subset, FS_CardinalityType
<1>8. ASSUME a \in D PROVE Cardinality(D) >= k
  <2>1. {b \in ages : slots[b] <= r95} \subseteq D
    BY <1>6, <1>8
  <2>2. /\ Cardinality({b \in ages : slots[b] <= r95}) <= Cardinality(D)
        /\ Cardinality({b \in ages : slots[b] <= r95}) \in Nat
    BY <1>7, <2>1, FS_Subset, FS_CardinalityType
  <2> QED
    BY <1>2, <1>5, <1>7, <2>2
<1>9. ASSUME a \notin D PROVE Cardinality(D) < k
  <2>1. ASSUME NEW b \in D PROVE slots[b] < r95
    <3>1. ~ (slots[a] <= slots[b])
      BY <1>9
    <3>2. slots[a] \in Nat /\ slots[b] \in Nat
      OBVIOUS
    <3> QED
      BY <1>6, <3>1, <3>2
  <2>2. IsFiniteSet({b \in ages : slots[b] < r95})
    BY FS_Subset
  <2>3. /\ Cardinality(D) <= Cardinality({b \in ages : slots[b] < r95})
        /\ Cardinality({b \in ages : slots[b] < r95}) \in Nat
    <3>1. D \subseteq {b \in ages : slots[b] < r95}
      BY <2>1
    <3> QED
      BY <2>2, <3>1, FS_Subset, FS_CardinalityType
  <2> QED
    BY <1>2, <1>5, <1>7, <2>3
<1>10. k \in Nat
  BY <1>1, <1>2
<1>11. a \in D <=> Cardinality(D) >= k
  BY <1>7, <1>8, <1>9, <1>10
<1>12. a \in D <=> 100 * Cardinality(D) >= Percent * n
  BY <1>2, <1>7, <1>11
<1>13. Percentile95(Sorted(ages)) = slots[a]
  BY <1>4, <1>6
<1> HIDE DEF r95, n
<1> QED
  BY <1>12, <1>13 DEF n

-----------------------------------------------------------------------------
(* What was observed, and what is read off the slots.                      *)

LEMMA AgesFinite ==
  /\ Ages \subseteq Nat /\ IsFiniteSet(Ages) /\ Cardinality(Ages) = DaySlots + 1
  /\ \A S \in SUBSET Ages : IsFiniteSet(S) /\ Cardinality(S) \in Nat
<1>1. DaySlots \in Nat
  OBVIOUS
<1>2. IsFiniteSet(Ages) /\ Cardinality(Ages) = DaySlots + 1
  BY <1>1, FS_Interval DEF Ages
<1>3. \A S \in SUBSET Ages : IsFiniteSet(S) /\ Cardinality(S) \in Nat
  BY <1>2, FS_Subset, FS_CardinalityType
<1> QED
  BY <1>1, <1>2, <1>3 DEF Ages

\* A slot is recorded if it was observed, and healthy if nothing was lost;
\* then it holds its worst time.
LEMMA SlotsShow ==
  ASSUME HealthInv, NEW a \in Ages
  PROVE  /\ a \in Present <=> seen[a] # {}
         /\ Healthy(slots[a]) <=> ~ Lost(a)
         /\ ~ Lost(a) => slots[a] \in Nat /\ Worst(a) = slots[a]
<1>1. /\ slots[a] \in Outcomes \cup {Missing} /\ seen[a] \in SUBSET Outcomes
      /\ slots[a] = Missing <=> seen[a] = {}
      /\ slots[a] = Down <=> Down \in seen[a]
      /\ Healthy(slots[a]) => slots[a] \in seen[a] /\ \A q \in seen[a] : q <= slots[a]
  BY DEF HealthInv, TypeOK, Summary
<1>2. slots[a] \in Nat \/ slots[a] = Down \/ slots[a] = Missing
  BY <1>1, OutcomeValues
<1>3. Healthy(slots[a]) <=> slots[a] \in Nat
  BY <1>2, OutcomeValues DEF Healthy
<1>4. Healthy(slots[a]) <=> ~ Lost(a)
  BY <1>1, <1>2, <1>3, OutcomeValues DEF Lost
<1>5. ASSUME ~ Lost(a) PROVE Worst(a) = slots[a]
  <2>1. slots[a] \in seen[a] /\ \A q \in seen[a] : q <= slots[a]
    BY <1>1, <1>4, <1>5
  <2>2. slots[a] \in Int /\ \A q \in seen[a] : q \in Int
    BY <1>1, <1>2, OutcomeValues
  <2>3. \A r \in seen[a] : (\A q \in seen[a] : q <= r) => r = slots[a]
    BY <2>1, <2>2
  <2> QED
    BY <2>1, <2>3 DEF Worst
<1> QED
  BY <1>1, <1>3, <1>4, <1>5 DEF Present

\* Of slots without a failure the share within a limit is that of the percentile.
LEMMA ShareOfTimes ==
  ASSUME HealthInv, NEW ages \in SUBSET Ages, ages # {}, \A a \in ages : ~ Lost(a), NEW l \in Nat
  PROVE  LET r == Percentile95(Sorted(ages))
         IN  /\ r <= l <=> 100 * Cardinality({a \in ages : Worst(a) <= l}) >= Percent * Cardinality(ages)
             /\ r < l <=> 100 * Cardinality({a \in ages : Worst(a) < l}) >= Percent * Cardinality(ages)
<1>1. IsFiniteSet(ages) /\ \A a \in ages : slots[a] \in Nat /\ Worst(a) = slots[a]
  BY AgesFinite, SlotsShow
<1> DEFINE AtMost == {a \in ages : Worst(a) <= l}
           Less == {a \in ages : Worst(a) < l}
<1>2. PICK a \in ages :
        /\ Percentile95(Sorted(ages)) = slots[a]
        /\ a \in AtMost <=> 100 * Cardinality(AtMost) >= Percent * Cardinality(ages)
  <2>1. \A c \in AtMost : \A b \in ages : slots[b] <= slots[c] => b \in AtMost
    BY <1>1
  <2> HIDE DEF AtMost
  <2>2. AtMost \in SUBSET ages
    BY DEF AtMost
  <2> QED
    BY <1>1, <2>1, <2>2, PercentileShare
<1>3. PICK b \in ages :
        /\ Percentile95(Sorted(ages)) = slots[b]
        /\ b \in Less <=> 100 * Cardinality(Less) >= Percent * Cardinality(ages)
  <2>1. \A c \in Less : \A d \in ages : slots[d] <= slots[c] => d \in Less
    BY <1>1
  <2> HIDE DEF Less
  <2>2. Less \in SUBSET ages
    BY DEF Less
  <2> QED
    BY <1>1, <2>1, <2>2, PercentileShare
<1>4. a \in AtMost <=> slots[a] <= l
  BY <1>1
<1>5. b \in Less <=> slots[b] < l
  BY <1>1
<1> QED
  BY <1>2, <1>3, <1>4, <1>5

LEMMA LatestIsLeast ==
  ASSUME Present # {}
  PROVE  Latest \in Present /\ \A b \in Present : Latest <= b
BY AgesFinite, Least DEF Present, Latest

LEMMA LastSeenIsLatest ==
  ASSUME HealthInv, NEW exact \in BOOLEAN, NEW a
  PROVE  a \in LastSeen(exact) <=> Present # {} /\ a = Latest /\ Fresh(Latest, exact)
<1>1. ASSUME a \in LastSeen(exact)
      PROVE  Present # {} /\ a = Latest /\ Fresh(Latest, exact)
  <2>1. a \in Ages /\ seen[a] # {} /\ Fresh(a, exact) /\ \A b \in 0..a - 1 : seen[b] = {}
    BY <1>1 DEF LastSeen
  <2>2. a \in Present
    BY <2>1, SlotsShow
  <2>3. Latest \in Present /\ Latest <= a
    BY <2>2, LatestIsLeast
  <2>4. Latest \in Ages /\ seen[Latest] # {}
    BY <2>3, SlotsShow DEF Present
  <2>5. ~ (Latest < a)
    BY <2>1, <2>4 DEF Ages
  <2> QED
    BY <2>1, <2>2, <2>3, <2>4, <2>5 DEF Ages
<1>2. ASSUME Present # {}, a = Latest, Fresh(Latest, exact)
      PROVE  a \in LastSeen(exact)
  <2>1. a \in Present /\ \A b \in Present : a <= b
    BY <1>2, LatestIsLeast
  <2>2. a \in Ages /\ seen[a] # {}
    BY <2>1, SlotsShow DEF Present
  <2>3. ASSUME NEW b \in 0..a - 1 PROVE seen[b] = {}
    BY <2>1, <2>2, SlotsShow DEF Ages
  <2> QED
    BY <1>2, <2>2, <2>3 DEF LastSeen
<1> QED
  BY <1>1, <1>2

-----------------------------------------------------------------------------
(* What qualifies a worker.                                                *)

LEMMA CiEarned == HealthInv => CiIsEarned
<1> SUFFICES ASSUME HealthInv, NEW exact \in BOOLEAN
             PROVE  Ci(exact) <=> \E a \in LastSeen(exact) :
                      /\ a + CiSlots <= DaySlots /\ \A b \in a..a + CiSlots : ~ Lost(b)
                      /\ 100 * Cardinality({b \in a..a + CiSlots : Worst(b) <= CiRtt})
                           >= Percent * Cardinality(a..a + CiSlots)
  BY DEF CiIsEarned, MostlyWithin
<1>1. CiSlots \in Nat /\ DaySlots \in Nat /\ CiRtt \in Nat
  OBVIOUS
<1>2. ASSUME NEW a \in Ages, a + CiSlots <= DaySlots, \A b \in a..a + CiSlots : ~ Lost(b)
      PROVE  Percentile95(Sorted(a..a + CiSlots)) <= CiRtt
               <=> 100 * Cardinality({b \in a..a + CiSlots : Worst(b) <= CiRtt})
                     >= Percent * Cardinality(a..a + CiSlots)
  <2>1. a..a + CiSlots \in SUBSET Ages /\ a..a + CiSlots # {}
    BY <1>1, <1>2 DEF Ages
  <2> QED
    BY <1>1, <1>2, <2>1, ShareOfTimes
<1>3. ASSUME Ci(exact), NEW a, a = Latest
      PROVE  /\ a \in Ages /\ a \in LastSeen(exact) /\ a + CiSlots <= DaySlots
             /\ \A b \in a..a + CiSlots : ~ Lost(b)
             /\ Percentile95(Sorted(a..a + CiSlots)) <= CiRtt
  <2>1. /\ Present # {} /\ Fresh(a, exact) /\ a..a + CiSlots \subseteq Present
        /\ \A b \in a..a + CiSlots : Healthy(slots[b])
        /\ Percentile95(Sorted(a..a + CiSlots)) <= CiRtt
    BY <1>3 DEF Ci, CiAges
  <2>2. a \in Present
    BY <1>3, <2>1, LatestIsLeast
  <2>3. a \in Nat /\ a + CiSlots \in a..a + CiSlots
    BY <1>1, <2>2, AgesFinite DEF Present
  <2>4. a + CiSlots <= DaySlots
    BY <2>1, <2>3 DEF Present, Ages
  <2>5. \A b \in a..a + CiSlots : ~ Lost(b)
    BY <2>1, SlotsShow DEF Present
  <2>6. a \in LastSeen(exact)
    BY <1>3, <2>1, LastSeenIsLatest
  <2> QED
    BY <2>1, <2>2, <2>4, <2>5, <2>6 DEF Present
<1>4. ASSUME NEW a \in LastSeen(exact), a + CiSlots <= DaySlots,
             \A b \in a..a + CiSlots : ~ Lost(b), Percentile95(Sorted(a..a + CiSlots)) <= CiRtt
      PROVE  Ci(exact)
  <2>1. Present # {} /\ a = Latest /\ Fresh(Latest, exact)
    BY LastSeenIsLatest
  <2>2. a \in Present /\ a \in Nat
    BY <2>1, LatestIsLeast, AgesFinite DEF Present
  <2>3. a..a + CiSlots \subseteq Ages /\ a \in a..a + CiSlots
    BY <1>1, <1>4, <2>2 DEF Ages
  <2>4. \A b \in a..a + CiSlots : Healthy(slots[b]) /\ b \in Present
    BY <1>4, <2>3, SlotsShow DEF Lost
  <2> QED
    BY <1>4, <2>1, <2>3, <2>4 DEF Ci, CiAges
<1>5. \A a \in LastSeen(exact) : a \in Ages
  BY DEF LastSeen
<1> QED
  BY <1>2, <1>3, <1>4, <1>5

LEMMA ServicesEarned == HealthInv => ServicesAreEarned
<1> SUFFICES ASSUME HealthInv, NEW exact \in BOOLEAN
             PROVE  LET answered == {a \in Ages : ~ Lost(a)}
                    IN Services(exact) <=>
                         /\ Ci(exact) /\ seen[DaySlots] # {}
                         /\ 1000 * Cardinality(Ages \ answered) < OutagePerMille * Cardinality(Ages)
                         /\ 100 * Cardinality({a \in answered : Worst(a) < ServicesRtt})
                              >= Percent * Cardinality(answered)
  BY DEF ServicesAreEarned, MostlyWithin
<1>1. Good = {a \in Ages : ~ Lost(a)}
  BY SlotsShow DEF Good
<1>2. DaySlots \in Present <=> seen[DaySlots] # {}
  <2>1. DaySlots \in Ages
    BY DEF Ages
  <2> QED
    BY <2>1, SlotsShow
<1>3. Cardinality(Ages \ Good) = (DaySlots + 1) - Cardinality(Good) /\ Cardinality(Ages) = DaySlots + 1
  <2>1. Ages \cap Good = Good
    BY DEF Good
  <2>2. IsFiniteSet(Ages) /\ Cardinality(Ages) = DaySlots + 1
    BY AgesFinite
  <2>3. Cardinality(Ages \ Good) = Cardinality(Ages) - Cardinality(Good)
    BY <2>1, <2>2, FS_Difference
  <2> QED
    BY <2>2, <2>3
<1>4. Cardinality(Good) \in Nat /\ DaySlots \in Nat /\ OutagePerMille \in Nat /\ ServicesRtt \in Nat
  BY AgesFinite DEF Good
<1>5. Available <=> 1000 * Cardinality(Ages \ Good) < OutagePerMille * Cardinality(Ages)
  BY <1>3, <1>4 DEF Available
<1>6. ASSUME Ci(exact) PROVE Good # {}
  BY <1>6, LatestIsLeast DEF Ci, Good, Present
<1>7. ASSUME Good # {}
      PROVE  Percentile95(Sorted(Good)) < ServicesRtt
               <=> 100 * Cardinality({a \in Good : Worst(a) < ServicesRtt}) >= Percent * Cardinality(Good)
  <2>1. Good \in SUBSET Ages /\ \A a \in Good : ~ Lost(a)
    BY <1>1
  <2> QED
    BY <1>4, <1>7, <2>1, ShareOfTimes
<1> QED
  BY <1>1, <1>2, <1>5, <1>6, <1>7 DEF Services

(***************************************************************************)
(* A worker qualifies for CI exactly when ten minutes up to its last, fresh *)
(* observation are without a gap and 95 % of them within the limit.        *)
(***************************************************************************)
THEOREM CiIsEarnedAlways == Spec => []CiIsEarned
BY SlotsSummarise, CiEarned, PTL

(***************************************************************************)
(* And for services exactly when besides a day lost less than half a       *)
(* percent of its slots and 95 % of the answers were fast.                 *)
(***************************************************************************)
THEOREM ServicesAreEarnedAlways == Spec => []ServicesAreEarned
BY SlotsSummarise, ServicesEarned, PTL
=============================================================================
