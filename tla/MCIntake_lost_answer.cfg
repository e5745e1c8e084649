SPECIFICATION SceneSpec
CONSTANTS
  None = None
  Settings <- Unlimited
  Submitter <- StudentOnly
  MaxClicks = 2
  MaxPosts = 2
  MaxRerenders = 0
  MaxKills = 0
  MaxDrops = 0
  MaxTime = 0
  MaxInbox = 1
INVARIANT RetryMakesNoSecond
CHECK_DEADLOCK FALSE
