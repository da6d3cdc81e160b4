SPECIFICATION FairSpec
CONSTANTS
  Devices = {d1}
  Requests = {r1}
  Reports = {"sharing"}
  Allowances <- AllKinds
  MaxGeneration = 1
  Window = 1
  MaxGrants = 1
INVARIANTS TypeOK StorageChangeRequalifies EligibleRowsAreOpen IssuedIsRecorded RevokedLeavesNoAccess
PROPERTIES AdmissionNeedsConsent CordonIsHeld CompletedResetIsClean
PROPERTIES RevocationFinishes ResetFinishes PauseCloses
