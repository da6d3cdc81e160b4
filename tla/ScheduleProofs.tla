--------------------------- MODULE ScheduleProofs ---------------------------
(***************************************************************************)
(* The rules' look at the clock agrees with the window that was opened,    *)
(* for a day of any length.                                                *)
(***************************************************************************)
EXTENDS Schedule, TLAPS

(***************************************************************************)
(* What is left of the window, from the clock alone.  WindowsAreKept says  *)
(* only when that is nothing, which no step preserves.                     *)
(***************************************************************************)
Remaining(w, d, t) ==
  IF w.start < w.end
  THEN IF d \in w.days /\ t >= w.start /\ t < w.end THEN w.end - t ELSE 0
  ELSE IF d \in w.days /\ t >= w.start THEN w.end - t + DayMinutes
  ELSE IF (d + 6) % 7 \in w.days /\ t < w.end THEN w.end - t ELSE 0

IInv == TypeOK /\ left = Remaining(window, weekday, minute)

LEMMA InitInv == Init => IInv
  BY ScheduleAssumption
  DEF Init, IInv, TypeOK, Remaining, Windows, Minutes, Weekdays, Valid

\* The day before the next day is this one.
LEMMA Yesterday == \A d \in Weekdays : (((d + 1) % 7) + 6) % 7 = d /\ ((d + 1) % 7) \in Weekdays
  BY DEF Weekdays

LEMMA NextInv == IInv /\ [Next]_vars => IInv'
<1> SUFFICES ASSUME IInv, [Next]_vars PROVE IInv'
  OBVIOUS
<1> USE ScheduleAssumption DEF Windows, Minutes, Weekdays, Valid
<1>1. CASE UNCHANGED vars
  BY <1>1 DEF IInv, TypeOK, Remaining, vars
<1>2. CASE Minute
  <2> DEFINE s == window.start
             e == window.end
             D == window.days
  <2>1. /\ window' = window /\ s \in Minutes /\ e \in Minutes /\ s # e
        /\ D \subseteq Weekdays /\ D # {}
        /\ weekday \in Weekdays /\ minute \in Minutes /\ DayMinutes \in Nat /\ DayMinutes > 1
    BY <1>2 DEF IInv, TypeOK, Minute
  <2>2. weekday' \in Weekdays /\ minute' \in Minutes
    BY <1>2, <2>1, Yesterday DEF Minute
  <2>3. left' = Remaining(window, weekday', minute')
    <3>1. left = Remaining(window, weekday, minute)
      BY DEF IInv
    <3>2. CASE minute + 1 = DayMinutes
      <4>1. minute' = 0 /\ weekday' = (weekday + 1) % 7 /\ (weekday' + 6) % 7 = weekday
        BY <1>2, <2>1, <3>2, Yesterday DEF Minute
      <4>2. left' = Opened(window, weekday', minute', left)
        BY <1>2 DEF Minute
      <4> QED
        BY <2>1, <2>2, <3>1, <3>2, <4>1, <4>2 DEF Remaining, Opened, Lasts
    <3>3. CASE minute + 1 # DayMinutes
      <4>1. minute' = minute + 1 /\ weekday' = weekday
        BY <1>2, <2>1, <3>3 DEF Minute
      <4>2. left' = Opened(window, weekday', minute', left)
        BY <1>2 DEF Minute
      <4> QED
        BY <2>1, <2>2, <3>1, <3>3, <4>1, <4>2 DEF Remaining, Opened, Lasts
    <3> QED BY <3>2, <3>3
  <2>4. left' \in 0..DayMinutes - 1
    BY <2>1, <2>2, <2>3 DEF Remaining
  <2> QED
    BY <2>1, <2>2, <2>3, <2>4 DEF IInv, TypeOK
<1> QED BY <1>1, <1>2 DEF Next

LEMMA InvKept == IInv => WindowsAreKept
  BY ScheduleAssumption
  DEF IInv, TypeOK, WindowsAreKept, Remaining, InWindow, Windows, Minutes, Weekdays, Valid

(***************************************************************************)
(* Sharing is allowed in exactly the minutes of an opened window, whatever *)
(* its days and times (in_window, core/src/lib.rs).                        *)
(***************************************************************************)
THEOREM ScheduleKept == Spec => []WindowsAreKept
<1>1. Init => IInv BY InitInv
<1>2. IInv /\ [Next]_vars => IInv' BY NextInv
<1>3. IInv => WindowsAreKept BY InvKept
<1> QED BY <1>1, <1>2, <1>3, PTL DEF Spec
=============================================================================
