SPECIFICATION Spec
CONSTANTS
  s = s  t = t  e = e  f = f
  Inventory <- MCInventory
  Limits <- MCLimits
  Artifacts <- MCArtifacts
  Sessions = {s, t}
  Views <- MCViews
  EventIds = {e, f}
  Clicks <- MCClicks
  MaxImpressions = 2
  MaxActions = 3
  MaxUsed = 2
  MaxSessions = 1
  Horizon = 1
  None = None
  MaxDecisions = 3
  MaxApplied = 3
  MaxRestarts = 1
INVARIANTS
  ListsAreAccepted
  LatestIsNewest
  RewardMeetsDecision
  AppliedOnceInHorizon
PROPERTIES
  LearningSurvives
SYMMETRY MCSymmetry
CHECK_DEADLOCK FALSE
