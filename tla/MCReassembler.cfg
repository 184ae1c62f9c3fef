CONSTANTS
  Modulus = 20
  SizeModulus = 256
  NoByte = 0
  TextLength = 10
  Logical <- Letters
  Room = 5
SPECIFICATION FairAssembly
INVARIANTS
  AssembledInOrder
  SlotsInPlace
PROPERTIES
  NothingForgotten
  AllAssembled
