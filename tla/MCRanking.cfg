SPECIFICATION FairSpec
CONSTANTS
  Processes = {flask1, flask2}
  flask1 = flask1  flask2 = flask2
  Sessions = {shopper}
  shopper = shopper
  Products = {1, 2, 3}
  Prior <- MCPrior
  Coupons = {2}
  Support <- MCSupport
  Weak = {}
  Carts <- MCCarts
  Estimates <- MCEstimates
  Limit = 2
  MaxRequests = 3  MaxFaults = 1
INVARIANTS
  ShownIsRecorded
  ShownIsAttributable
  RepeatedOfferIsOfAnotherLife
PROPERTIES
  AnswersAlways
CHECK_DEADLOCK FALSE
