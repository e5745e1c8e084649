SPECIFICATION MCFairSpec
CONSTANTS
  None = None
  NoOne = None
  Person = {alice, ben}
  Widget = {button, form}
  Button = button
  Flow = {f1, f2}
  f1 = f1
  f2 = f2
  alice = alice
  MaxBreaks = 1
  MaxReruns = 1
  User = {alice, ben}
  Link = {l1, l2}
  MaxPerDay = 1
INVARIANTS
  KernelFollowsPage
  LinksHold
PROPERTIES
  ApprovalArrives
CHECK_DEADLOCK FALSE
