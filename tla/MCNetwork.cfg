CONSTANTS
  A = A
  B = B
  NoByte = NoByte
  Modulus = 16
  SizeModulus = 100
  MaxPayloadSize = 2
  InitialRTO = 1
  LingerFactor = 2
  MaxRetxAttempts = 1
  WinModulus = 3
  LengthA = 3
  LengthB = 1
  Ends <- BothEnds
  Text <- Texts
  ISN <- SeqNos
  RecvCapacity = 2
  SendCapacity = 3
  CallerSets <- OneOrBoth
  Faults = {"lose", "repeat", "slow", "abort"}
  MaxFaults = 1
SPECIFICATION Spec
INVARIANTS
  EndToEnd
  ForgottenIsTaken
  CleanCloseIsComplete
  NoLingerNoLoss
  FlowControl
  OfficialStates
CHECK_DEADLOCK FALSE
