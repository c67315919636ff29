SPECIFICATION Spec
CONSTANTS
  Nodes = {1, 2, 3}
  Vals = {1, 2}
  BigNode = 2
  Home <- Pages
  HomeRoot = 2
  HomeBig = 6
  Records <- FreeDB
  NextPgno = 8
  MaxPg = 12
  DirtyMax = 4
  Need = 3
  SpillMost = 2
  Faults = {"write", "free", "spill"}
  Cursors = {c1}
  MaxLevel = 3
  MaxOps = 5
CHECK_DEADLOCK FALSE
INVARIANTS DirtyRoomExact PagesOnce CursorsOnTree
PROPERTY ImplementsNestedStore
