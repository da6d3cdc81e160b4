CONSTANTS
  DrainSeconds = 1
  MaxJobs = 1
  OwnerActs = {"update"}
  Crashes = FALSE
SPECIFICATION Spec
PROPERTY UpdatesNeverForce
