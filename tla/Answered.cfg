CONSTANTS
  Requests = {q1}
  Sizes = {s1, s2}
  Calls = {c1}
  OwnerActs = {"consent", "policy", "prepare", "stop", "recreate"}
  MaxRevision = 3
  LocalFaults = 0
  None = None
  Mixed = Mixed
SPECIFICATION FairSpec
PROPERTY RequestsAreAnswered
