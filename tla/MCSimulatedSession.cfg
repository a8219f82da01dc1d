SPECIFICATION FeedSpec
CONSTANTS
  Products = {1, 2, 3, 4, 5}
  Rows <- MCRows
  Rule <- MCRule
  NoItem = NoItem
  MinLift = 2
  MinConfidence = 2
  MinSupport = 2
INVARIANTS
  StrongestSupportWins
  ReasonIsOrderFree
  EligibleGetsOffer
  SuppressedGetsNone
CHECK_DEADLOCK FALSE
