CONSTANTS
  ArpTimeout = 1
  MappingTimeout = 1
  Damaged = Damaged
  Broadcast = Broadcast
  a = a
  b = b
  c = c
  Hosts = {a, b, c}
  EthOf <- EthAddresses
  IpOf <- IpAddresses
  Sends <- Traffic
  MaxSends = 2
  MaxLost = 1
  Ticks = {1}
  MaxTime = 2
SPECIFICATION Spec
INVARIANTS
  MapsAgree
  MappingsFresh
  OnlyLossStrands
PROPERTIES
  LateSendAsks
  ImplementsLink
CHECK_DEADLOCK FALSE
