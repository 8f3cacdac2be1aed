SPECIFICATION WireSpec
CONSTANTS
  Locals = {a, b}
  Cells = {c1, c2, c3, c4, c5, c6}
  Null = Null
  Items <- MCItems
  MaxBuilt = 2
  Cuts = {1, 2, 3}
PROPERTIES RoundTrip CutIsRefused
CHECK_DEADLOCK FALSE
