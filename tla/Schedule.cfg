CONSTANT DayMinutes = 5
SPECIFICATION Spec
INVARIANTS WindowsAreKept
