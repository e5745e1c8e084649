SPECIFICATION MCFairSpec
CONSTANTS
  None = None
  Student = {amy}
  Staff = {}
  Worker = {w1}
  Grader = {}
  Settings <- RerunSettings
  Policy = {}
  Sent = {"none","submitted"}
  MaxSkew = 1
  MaxAttempts = 1
  MaxRuns = 5
  MaxHandScores = 0
  MaxCrashes = 1
  MaxAttached = 1
  MaxPatches = 0
  Executor = {w1}
  Job <- MCJob
  Nobody = Nobody
  Paper = {p1, p2}
  MaxStarts = 2
  MaxRenders = 2
  MaxLosses = 1
  MaxNew = 2
INVARIANTS
  OneAtATime
PROPERTIES
  BackfillEnds
  PagesShown
  ImplementsFairQueue
  EverythingSettles
CHECK_DEADLOCK FALSE
