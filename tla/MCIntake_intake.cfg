SPECIFICATION SceneSpec
CONSTANTS
  None = None
  Settings <- ClosingOrLimited
  Submitter <- StudentOnly
  MaxClicks = 2
  MaxPosts = 2
  MaxRerenders = 1
  MaxKills = 1
  MaxDrops = 1
  MaxTime = 1
  MaxInbox = 1
INVARIANTS
  AttemptsAreCounted
  ShownIsKept
  PageShowsTheAnnounced
PROPERTIES
  ButtonReturns
CHECK_DEADLOCK FALSE
