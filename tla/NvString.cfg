SPECIFICATION Spec
CONSTANTS
  a = a
  b = b
  Keys = {k1, k2}
  Chars = {a, b}
  Nul = Nul
  Noise = Noise
  MaxLen = 2
  Strings <- MCStrings
SYMMETRY Interchangeable
INVARIANTS TypeOK ReadBack OldOrEmpty
