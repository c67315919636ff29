SPECIFICATION Spec
CONSTANTS
  Keys = {1, 2, 3, 4, 5, 6}
  Vals = {"short", "long"}
  Pairs <- Stores
  NodeHeader = 2
  KeySize <- KeySizes
  ValSize <- ValSizes
  Cap = 12
  FillThreshold = 250
  Cursors = {c1}
  MaxDepth = 3
  MaxIndex = 3
VIEW Viewed
CHECK_DEADLOCK FALSE
INVARIANTS TreeOK CursorsFollow
PROPERTY ImplementsOrderedMap
