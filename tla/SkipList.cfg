SPECIFICATION Spec
CONSTANTS
  Users = {1, 2, 3}
  Scores = {0, 1, 2}
  MaxN = 3
  MaxLevel = 3
  NodeIds = {1, 2, 3, 4}
INVARIANTS
  TowersNested
PROPERTIES
  ImplementsBoard
