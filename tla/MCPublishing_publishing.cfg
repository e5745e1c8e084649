SPECIFICATION Spec
CONSTANTS
  None = None
  Qid = {"q1", "q2"}
  Notebook = "notebook"
  Upload <- MoreUploads
  Point = {1, 2}
  Instructor = {ann, bob}
  MaxRequests = 4
INVARIANTS
  LiveIsLatest
  NotebookQuestionAgrees
PROPERTIES
  PublishDoesAsPreviewed
CHECK_DEADLOCK FALSE
