CONSTANTS
  DrainSeconds = 1
  MaxJobs = 1
  OwnerActs = {"pause", "update"}
  Crashes = TRUE
SPECIFICATION FairSpec
PROPERTIES DeadlineIsKept UpdatesFinish
