CONSTANTS
  ArpTimeout = 2
  MappingTimeout = 3
  Damaged = Damaged
  Broadcast = Broadcast
  Width = 5
  NoHop = NoHop
  Empty = Empty
  ClientSends = 2
  ServerSends = 1
  TTL = 3
  Hellos = 1
  QueueLimit = 1
  MaxLost = 1
  MaxTime = 1
  Quitters = {"server"}
SPECIFICATION FairSpec
PROPERTIES
  ImplementsPath
  Arrival
CHECK_DEADLOCK FALSE
