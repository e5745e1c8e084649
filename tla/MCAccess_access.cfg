SPECIFICATION MCFairSpec
CONSTANTS
  None = None
  ann = ann
  ben = ben
  cat = cat
  s1 = s1
  Member = {ann, ben, cat}
  Section = {s1}
  File <- MCFile
  MaxClicks = 5
  Assignment = {exam, homework}
  Offered <- MCOffered
  exam = exam
  homework = homework
  Missing = Missing
  MaxNow = 8
  MaxChanges = 1
  MaxHeld = 1
  CredentialTTL = 7
  MinCredential = 2
  PresignMax = 3
  Margin = 4
  Absent = Absent
  Kernel = {k1, k2}
  Content = {c1, c2, c3}
  c1 = c1
  c2 = c2
  c3 = c3
  Size <- MCSize
  Nothing = Nothing
  Code = {c1, c2}
  MaxSaves = 1
  MaxCellRuns = 2
  MaxWrites = 2
  MaxSubmits = 2
  MaxEvents = 6
INVARIANTS
  KeepsAnInstructor
  NothingOutlivesTheClose
  DoorsAgree
  RenewsItself
  PathIsTheObject
  
PROPERTIES
  ImportsAreFaithful
  ComputedOnce
  ClickIsServed
CHECK_DEADLOCK FALSE
