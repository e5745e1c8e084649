SPECIFICATION ExecSpec
CONSTANTS
  scans = scans
  masks = masks
  table = table
  lab = lab
  essay = essay
  quiz = quiz
  Dataset = {scans, masks}
  Url = {table}
  Assignment = {lab, essay, quiz}
  Course <- MCCourse
  Notebook <- MCNotebook
  Attempt = {1}
  Pinned <- MCPinned
  Skew = TRUE
  MaxEvents = 0
INVARIANT AdviceIsTrue
CHECK_DEADLOCK FALSE
