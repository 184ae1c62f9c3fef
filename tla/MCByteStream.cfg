CONSTANTS
  Modulus = 4
  Byte = {0, 1}
  Blank = 0
  Capacity = 3
  MaxData = 4
  MaxAccepted = 6
  Data <- Strings
SPECIFICATION Spec
INVARIANTS
  FIFOOrder
  CountersWrapTogether
PROPERTIES
  ImplementsStream
