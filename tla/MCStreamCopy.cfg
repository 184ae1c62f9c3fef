CONSTANTS
  NoByte = NoByte
  Modulus = 16
  SizeModulus = 100
  MaxPayloadSize = 2
  InitialRTO = 1
  LingerFactor = 2
  MaxRetxAttempts = 1
  WinModulus = 3
  TypedBytes = 2
  PeerBytes = 2
  Text <- Typed
  PeerText <- FromPeer
  ISN = 14
  PeerISN = 3
  PeerWindow = 2
  PipeSize = 1
  BufferBytes = 2
  RecvCapacity = 2
  SendCapacity = 2
  Starts <- CallOrListen
  FaultKinds = {"reset", "refused"}
SPECIFICATION FairSpec
INVARIANTS
  StreamsIntact
  EndsWhenCopied
  DiesOnlyOfPeer
PROPERTIES
  Ends
CHECK_DEADLOCK FALSE
