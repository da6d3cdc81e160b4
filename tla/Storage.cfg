CONSTANTS
  Providers = {"Lima", "Multipass"}
  Volumes = {v1, v2}
  Wait = 1
  MaxGeneration = 2
  MaxWork = 1
  OwnerActs = {"resize", "delete", "pause", "stop", "resume", "consent", "crash"}
SPECIFICATION Spec
INVARIANTS TypeOK SettingsNameThePool DataIsKept NothingForgotten
PROPERTIES AccessEndsFirst RecoveryIsWanted
SYMMETRY Symmetry
