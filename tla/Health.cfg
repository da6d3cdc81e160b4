CONSTANTS
  Rtts = {1, 2, 3}
  CiSlots = 2
  DaySlots = 4
  FreshSlots = 1
  Percent = 60
  CiRtt = 2
  ServicesRtt = 2
  OutagePerMille = 300
  Passes = 2
SPECIFICATION Spec
INVARIANTS CiIsEarned ServicesAreEarned
