CONSTANTS
  Blocks = {b1, b2, b3}
  Inputs = {in1, in2}
  None = None
SPECIFICATION Spec
INVARIANTS
  OneReader
  NoNullInput
  WiredInOrder
