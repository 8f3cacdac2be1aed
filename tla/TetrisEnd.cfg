SPECIFICATION Spec
CONSTANTS
  Width = 4
  Height = 4
  Types = {"J", "O"}
INVARIANT EndsWhenBlocked
