SPECIFICATION Spec
CONSTANTS
  Locals = {a, b}
  Cells = {c1, c2, c3, c4}
  Null = Null
  Items <- MCItems
  MaxBuilt = 4
INVARIANTS OneOwner
PROPERTIES MoveKeepsTree CopyIsDeep
SYMMETRY MCSymmetry
