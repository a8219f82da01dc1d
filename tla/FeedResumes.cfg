SPECIFICATION FairSpec
CONSTANTS
  room = room  shop = shop
  Rooms = {room}
  Stores = {shop}
  mine = mine  other = other
  Sessions = {mine, other}
  Owner <- MCOwner
  Traffic <- MCTraffic
  MaxEvents = 1  Limit = 2  Batch = 2
  MaxEntries = 1  MaxFaults = 1
PROPERTIES
  EvidenceResumes
CHECK_DEADLOCK FALSE
