CONSTANTS
  server = server
  alice = alice
  bob = bob
  Server = server
  Clients <- Callers
  Here <- Endpoints
  There <- Contacted
  Eth <- Addresses
  Segments <- Outgoing
  ARPMessages <- Messages
  Changes = {1, 16}
  Cuts = {1, 25, 40}
  MaxDamaged = 1
SPECIFICATION Spec
INVARIANTS
  GotIsSent
  IntactIsGot
  LocksOnCaller
PROPERTIES
  KeepsPeer
CHECK_DEADLOCK FALSE
