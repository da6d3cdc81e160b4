CONSTANTS
  Providers = {"Lima"}
  Volumes = {v1, v2}
  Wait = 2
  MaxGeneration = 2
  MaxWork = 0
  OwnerActs = {"pause", "resume"}
SPECIFICATION Spec
PROPERTIES RecoveryWaits
