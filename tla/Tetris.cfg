SPECIFICATION PairSpec
CONSTANTS
  Width = 4
  Height = 5
  Types = {"I", "J", "O", "S"}
INVARIANTS NoOverlap SameGame
PROPERTIES RowsComeDown EveryPieceLands
