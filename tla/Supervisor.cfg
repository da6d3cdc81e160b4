CONSTANTS
  DrainSeconds = 2
  MaxJobs = 1
  OwnerActs = {"pause", "resume", "stop", "resize", "update"}
  Crashes = TRUE
SPECIFICATION Spec
INVARIANTS TypeOK PauseHasDeadline
PROPERTIES WorkIsNotCut UpdateLosesNothing UpdateNeverStarts
