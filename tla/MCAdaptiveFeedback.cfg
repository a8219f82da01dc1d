SPECIFICATION FairSpec
CONSTANTS
  added = added  bought = bought  garbled = garbled
  shopper = shopper  p1 = p1
  Servers = {flask}
  Stream = Stream
  Events = {added, bought, garbled}
  Valid = {added, bought}
  Late = {added}
  Kind <- MCKind
  About <- MCAbout
  SessionOf <- MCSessionOf
  Sessions = {shopper}
  Products = {p1}
  NoWorker = NoWorker  NoEvent = NoEvent
  MaxFaults = 1
INVARIANTS
  AppliedOnce
  ModelKeepsFeedback
  StreamLeavesNothing
PROPERTIES
  LockIsKept
  KeepsPromise
  EventuallyApplied
