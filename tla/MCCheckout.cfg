SPECIFICATION FairSpec
CONSTANTS
  s1 = s1  s2 = s2
  o1 = o1  o2 = o2
  k1 = k1  k2 = k2  k3 = k3
  bread = bread  milk = milk
  Sessions = {s1, s2}
  Products = {bread, milk}
  Coupons = {k1, k2, k3}
  Holder <- MCHolder
  ProductOf <- MCProductOf
  Usable = {k1, k3}
  Orders = {o1, o2}
  Shopper <- MCShopper
  Threads = {t1, t2}
  NoOrder = NoOrder  NoThread = NoThread  NoJob = NoJob
  Baskets <- MCBaskets
  MaxRequests = 3
  MaxFaults = 2
INVARIANTS
  CouponUsedOnce
  OneRecordPerOrder
  BoundCouponIsApplied
PROPERTIES
  RedemptionIsFinal
  RequestsEnd
