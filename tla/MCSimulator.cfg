CONSTANTS
  ArpTimeout = 5
  MappingTimeout = 30
  Damaged = Damaged
  Broadcast = Broadcast
  Width = 6
  NoHop = NoHop
  Rounds = 6
  Batch = 2
  MaxSends = 3
  Senders = {"applesauce", "dm42"}
  Destinations <- SomeAddresses
  TTLs = {0, 1, 2}
  RouteOrders <- BothOrders
SPECIFICATION Spec
INVARIANTS
  ChecksPass
  LookupIsLongest
CHECK_DEADLOCK FALSE
