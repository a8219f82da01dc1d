SPECIFICATION Spec
CONSTANTS
  s1 = s1
  s2 = s2
  s3 = s3
  part = part
  bread = bread
  milk = milk
  tea = tea
  c1 = c1
  c2 = c2
  NoId = NoId
  NoProduct = NoProduct
  NoConsumer = NoConsumer
  Rule <- MCRule
  MinLift = 2
  MinConfidence = 1
  MinSupport = 1
  Partitions = {part}
  PartitionOf <- OnePartition
  Products = {bread, tea}
  Sessions = {s1}
  Consumers = {c1}
  MaxUsers = 1
  Traffic <- HesitatingTraffic
  MaxQuantity = 2
  MaxEvents = 4
  MaxFaults = 1
INVARIANT
  AtMostOneCoupon
CHECK_DEADLOCK FALSE
