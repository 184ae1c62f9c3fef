CONSTANTS
  Modulus = 14
  SizeModulus = 256
  NoByte = 0
  TextLength = 16
  Text <- Letters
  Capacity = 3
  PeerIsns = {0, 13}
  MaxBehind = 2
SPECIFICATION FairSpec
INVARIANTS
  InOrder
  WindowIsAccepted
  AckWhileWaiting
PROPERTIES
  AllDelivered
