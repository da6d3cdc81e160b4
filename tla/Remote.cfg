CONSTANTS
  Requests = {q1, q2}
  Sizes = {s1, s2}
  Calls = {c1, c2}
  OwnerActs = {"consent", "policy", "prepare", "resume", "pause", "stop", "recreate"}
  MaxRevision = 2
  LocalFaults = 0
  None = None
  Mixed = Mixed
SYMMETRY Symmetry
SPECIFICATION Spec
INVARIANTS TypeOK SharedIsVerified OvertakenIsNotApplied AnswersAreTrue
PROPERTY FinishedStaysFinished
