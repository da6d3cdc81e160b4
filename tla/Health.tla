------------------------------- MODULE Health -------------------------------
(***************************************************************************)
(* What a worker must show before the fleet gives it work.  Each           *)
(* reconciliation pass records one observation of the worker in the slot   *)
(* of thirty seconds it falls in, merged with those already there, and     *)
(* qualifies the worker for CI from the last ten minutes and for services  *)
(* from the last day.  Slots are kept by age: 0 is the present one.        *)
(***************************************************************************)
EXTENDS Integers, Sequences, FiniteSets

CONSTANTS
  Rtts,            \* round-trip times an observation may find
  CiSlots,         \* 600 seconds, in slots
  DaySlots,        \* 86400 seconds, in slots
  FreshSlots,      \* 90 seconds, in slots
  Percent,         \* 95: the percentile of the round-trip time
  CiRtt,           \* 500 ms, the most CI allows
  ServicesRtt,     \* 300 ms, less than which services want
  OutagePerMille,  \* 5: services want less than this share of a day lost
  Passes           \* bound: different observations in one slot

Missing == -2   \* no row for the slot
Down    == -1   \* ready = 0, rtt_ms = NULL
Outcomes == Rtts \cup {Down}
Ages == 0..DaySlots

ASSUME HealthAssumption ==
  /\ Rtts \subseteq Nat /\ {CiSlots, DaySlots, FreshSlots, Percent} \subseteq Nat \ {0}
  /\ CiSlots <= DaySlots /\ Percent <= 100
  /\ {CiRtt, ServicesRtt, OutagePerMille} \subseteq Nat

VARIABLES
  slots,  \* health_samples of the worker, by age
  seen    \* every outcome observed in each slot (ghost)

vars == <<slots, seen>>

Init == /\ slots = [a \in Ages |-> Missing]
        /\ seen  = [a \in Ages |-> {}]

\* mutant: the last observation of a slot replaces the others
MergeLatest(old, new) == new

\* ready=MIN(ready,excluded.ready), rtt_ms=MAX(rtt_ms,excluded.rtt_ms); NULL absorbs.
Merge(old, new) ==
  IF old = Missing THEN new
  ELSE IF Down \in {old, new} THEN Down
  ELSE IF old > new THEN old ELSE new

Observe(o) ==
  /\ Cardinality(seen[0] \cup {o}) <= Passes
  /\ slots' = [slots EXCEPT ![0] = Merge(@, o)]
  /\ seen'  = [seen EXCEPT ![0] = @ \cup {o}]

Later(f, new) == [a \in Ages |-> IF a = 0 THEN new ELSE f[a - 1]]

NextSlot ==
  /\ slots' = Later(slots, Missing)
  /\ seen'  = Later(seen, {})

\* Another generation of the worker's storage: its history is deleted.
Requalify ==
  /\ slots' = [a \in Ages |-> Missing]
  /\ seen'  = [a \in Ages |-> {}]

Next == (\E o \in Outcomes : Observe(o)) \/ NextSlot \/ Requalify
Spec == Init /\ [][Next]_vars

-----------------------------------------------------------------------------
(* assess_health.                                                          *)

Healthy(s) == s >= 0

Present == {a \in Ages : slots[a] # Missing}
Latest  == CHOOSE a \in Present : \A b \in Present : a <= b

\* now - at <= 90, when `exact` says that now is the first second of a slot.
Fresh(a, exact) == a < FreshSlots \/ (a = FreshSlots /\ exact)

CiAges == Latest..(Latest + CiSlots)

\* The round-trip times of these slots, sorted: before the k-th there are fewer
\* than k smaller ones, and up to it at least k.
Sorted(ages) ==
  [k \in 1..Cardinality(ages) |->
     CHOOSE r \in {slots[a] : a \in ages} :
       /\ Cardinality({a \in ages : slots[a] < r}) < k
       /\ Cardinality({a \in ages : slots[a] <= r}) >= k]

\* mutant: the index is rounded down
Percentile95Low(rtts) == rtts[IF Len(rtts) * Percent < 100 THEN 1 ELSE (Len(rtts) * Percent) \div 100]

\* rtts[(rtts.len() * 95).div_ceil(100) - 1]
Percentile95(rtts) == rtts[(Len(rtts) * Percent + 99) \div 100]

Ci(exact) ==
  /\ Present # {} /\ Healthy(slots[Latest]) /\ Fresh(Latest, exact)
  /\ CiAges \subseteq Present /\ \A a \in CiAges : Healthy(slots[a])
  /\ Percentile95(Sorted(CiAges)) <= CiRtt

Good == {a \in Ages : Healthy(slots[a])}

\* mutant: the share is taken of the slots that were recorded
AvailableOfRecorded == (Cardinality(Present) - Cardinality(Good)) * 1000
                         < OutagePerMille * Cardinality(Present)

\* availability >= 0.995 && 1.0 - availability < 0.005, of all slots of a day
Available == (DaySlots + 1 - Cardinality(Good)) * 1000 < OutagePerMille * (DaySlots + 1)

Services(exact) ==
  /\ Ci(exact) /\ DaySlots \in Present /\ Available
  /\ Percentile95(Sorted(Good)) < ServicesRtt

-----------------------------------------------------------------------------
(* Properties: what was really observed.                                   *)

Lost(a)  == seen[a] = {} \/ Down \in seen[a]
Worst(a) == CHOOSE r \in seen[a] : \A q \in seen[a] : q <= r

\* At least Percent of these slots never answered outside the limit.
MostlyWithin(ages, Within(_)) ==
  100 * Cardinality({a \in ages : Within(Worst(a))}) >= Percent * Cardinality(ages)

\* The last slot in which anything was observed is not older than ninety seconds.
LastSeen(exact) == {a \in Ages : /\ seen[a] # {} /\ \A b \in 0..a - 1 : seen[b] = {}
                                 /\ Fresh(a, exact)}

(***************************************************************************)
(* A worker qualifies for CI exactly when ten minutes up to its last, still *)
(* fresh observation have no slot without an answer or with any failed one *)
(* and 95 % of them are within the latency limit: repeated measurements    *)
(* manufacture no time and improve no slot.                                *)
(***************************************************************************)
CiIsEarned ==
  \A exact \in BOOLEAN :
    Ci(exact) <=> \E a \in LastSeen(exact) :
                    /\ a + CiSlots <= DaySlots /\ \A b \in a..a + CiSlots : ~Lost(b)
                    /\ MostlyWithin(a..a + CiSlots, LAMBDA r : r <= CiRtt)

(***************************************************************************)
(* For services it also has a day behind it, of which less than half a     *)
(* percent was lost, slots never observed included, and 95 % of the rest   *)
(* were fast.                                                              *)
(***************************************************************************)
ServicesAreEarned ==
  \A exact \in BOOLEAN :
    LET answered == {a \in Ages : ~Lost(a)}
    IN Services(exact) <=>
         /\ Ci(exact) /\ seen[DaySlots] # {}
         /\ 1000 * Cardinality(Ages \ answered) < OutagePerMille * Cardinality(Ages)
         /\ MostlyWithin(answered, LAMBDA r : r < ServicesRtt)
=============================================================================
