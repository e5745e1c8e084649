SPECIFICATION MCSpec
CONSTANTS
  None = None
  AutoPoints = {None, 1}
  ManualPoints = {None, 0, 1}
  MaxAttempts = 3
  MaxRows = 3
  Student = {ann, ben}
  Question = {code, essay}
  code = code
  essay = essay
  Setup <- MCSetup
  AutoMax = 1
  HandMax = 1
  ListMax = 1
  MaxTries = 2
  MaxActs = 4
SYMMETRY Alike
INVARIANTS
  RulesAreTheLoops
  HighestDominates
  NobodyForgotten
  AverageAgrees
PROPERTIES
  AnotherAttemptIsFree
CHECK_DEADLOCK FALSE
