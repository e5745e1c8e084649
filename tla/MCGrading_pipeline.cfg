SPECIFICATION MCSpec
CONSTANTS
  None = None
  amy = amy
  prof = prof
  w1 = w1
  w2 = w2
  Student = {amy}
  Staff = {prof}
  Worker = {w1, w2}
  Grader = {g1}
  Settings <- MCSettings
  Policy = {"highest"}
  Sent = {"none"}
  MaxSkew = 0
  MaxAttempts = 2
  MaxRuns = 6
  MaxHandScores = 2
  MaxCrashes = 1
  MaxAttached = 0
  MaxPatches = 1
INVARIANTS
  TypeOK
  GradedHasFinalScore
  ReceivedHasLiveRun
  HandPointsAreHandEntered
  GradeIsACommittedScore
  GradebookIsRight
PROPERTIES
  ImplementsQueue
CHECK_DEADLOCK FALSE
