SPECIFICATION Spec
CONSTANTS
  None = None
  Student = {amy}
  Staff = {}
  Worker = {w1,w2}
  Grader = {}
  Settings <- LatestSettings
  Policy = {}
  Sent = {"none"}
  MaxSkew = 0
  MaxAttempts = 3
  MaxRuns = 0
  MaxHandScores = 0
  MaxCrashes = 0
  MaxAttached = 0
  MaxPatches = 0
INVARIANTS
  SettledGradeFollowsPolicy
CHECK_DEADLOCK FALSE
