CONSTANTS
  Requests = {q1}
  Sizes = {s1, s2}
  Calls = {c1}
  OwnerActs = {"policy", "stop"}
  MaxRevision = 4
  LocalFaults = 1
  None = None
  Mixed = Mixed
SPECIFICATION Spec
INVARIANT SharedIsVerified
