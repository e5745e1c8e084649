SPECIFICATION ExecSpec
CONSTANTS
  scans = scans
  masks = masks
  table = table
  lab = lab
  essay = essay
  quiz = quiz
  Dataset = {scans, masks}
  Url = {table}
  Assignment = {lab, essay, quiz}
  Course <- MCCourse
  Notebook <- MCNotebook
  Attempt = {1}
  Pinned <- MCPinned
  Skew = TRUE
  MaxEvents = 2
INVARIANTS
  RunsInItsEnv
  NoRetryMeansNone
  OutageIsNoZero
  DataIsReached
CHECK_DEADLOCK FALSE
