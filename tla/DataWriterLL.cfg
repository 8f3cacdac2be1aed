SPECIFICATION Spec
CONSTANTS
  MaxCapacity = 16
  MaxBlock = 5
INVARIANT StaysInBuffer
