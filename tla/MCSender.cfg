CONSTANTS
  Modulus = 24
  SizeModulus = 100
  MaxPayloadSize = 2
  InitialRTO = 2
  TextLength = 4
  Text <- Letters
  Capacity = 3
  InitialSeqnos = {20}
  AckFaults = {"reordered", "stray"}
  MaxWindow = 2
  MaxAcks = 2
  MaxRetx = 1
SPECIFICATION Spec
INVARIANTS
  FlightIsOutstanding
  SentInOrder
  TimerArmed
  WindowRespected
  FillIsLoop
