CONSTANTS
  Disks = {d1, d2}
  Dirs = {a, b}
  First = d1
  Original = a
  SystemGib = 1
  Capacity = 3
  MaxGib = 2
  MaxGeneration = 3
  MaxWrites = 2
  OwnerActs = {"pause", "withdraw", "unplug"}
  None = None
  Own = Own
  System = System
SPECIFICATION FairSpec
INVARIANTS TypeOK OriginalIsKept PromisedRoom RecordedMatches NothingForgotten
PROPERTIES DisksKeepTheirData GrowthFinishes
