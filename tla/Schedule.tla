------------------------------ MODULE Schedule ------------------------------
(***************************************************************************)
(* The owner's sharing schedule: a window opens on given days of the week  *)
(* at a minute of the day and closes at another, on the next day when that *)
(* comes first.  The rules look at the clock only; against them a window   *)
(* that was opened once and counts its minutes down.                       *)
(***************************************************************************)
EXTENDS Integers

CONSTANT DayMinutes  \* 1440
ASSUME ScheduleAssumption == DayMinutes \in Nat /\ DayMinutes > 1

VARIABLES
  window,           \* the owner's window: days, start and end minute
  weekday, minute,  \* the host's clock
  left              \* minutes the open window still lasts (ghost)

vars == <<window, weekday, minute, left>>

Weekdays == 0..6
Minutes  == 0..DayMinutes - 1
Windows  == [days: SUBSET Weekdays, start: Minutes, end: Minutes]

\* validate_policy accepts the window.
Valid(w) == w.days # {} /\ w.start # w.end

\* mutant: the rest of an overnight window is looked up under its own day
InWindowSameDay(w, d, t) ==
  IF w.start < w.end
  THEN d \in w.days /\ t >= w.start /\ t < w.end
  ELSE d \in w.days /\ (t >= w.start \/ t < w.end)

InWindow(w, d, t) ==
  IF w.start < w.end
  THEN d \in w.days /\ t >= w.start /\ t < w.end
  ELSE \/ d \in w.days /\ t >= w.start
       \/ (d + 6) % 7 \in w.days /\ t < w.end

\* How long a window lasts, and the minutes left of it as the clock reaches d and t.
Lasts(w) == IF w.start < w.end THEN w.end - w.start ELSE w.end - w.start + DayMinutes

Opened(w, d, t, before) ==
  IF d \in w.days /\ t = w.start THEN Lasts(w)
  ELSE IF before > 0 THEN before - 1 ELSE 0

\* The clock starts on a minute that the window of no day covers.
Init ==
  /\ window \in {w \in Windows : Valid(w)}
  /\ weekday \in Weekdays /\ minute = window.end
  /\ left = 0

Minute ==
  /\ minute' = IF minute + 1 = DayMinutes THEN 0 ELSE minute + 1
  /\ weekday' = IF minute' = 0 THEN (weekday + 1) % 7 ELSE weekday
  /\ left' = Opened(window, weekday', minute', left)
  /\ UNCHANGED window

Next == Minute
Spec == Init /\ [][Next]_vars

TypeOK ==
  /\ window \in Windows /\ Valid(window)
  /\ weekday \in Weekdays /\ minute \in Minutes
  /\ left \in 0..DayMinutes - 1

(***************************************************************************)
(* The rules allow sharing exactly in the minutes of a window that was     *)
(* opened on one of its days, across midnight and the end of the week      *)
(* (in_window).                                                            *)
(***************************************************************************)
WindowsAreKept == InWindow(window, weekday, minute) <=> left > 0
=============================================================================
