SPECIFICATION Spec
CONSTANTS
  Name = {a, b, c}
  XattrName = {x}
  Sizes = {0, 1}
  MaxBytes = 1
  MaxId = 4
  MaxChange = 60
  NoInode = NoInode
SYMMETRY Symmetry
VIEW Tree
INVARIANTS NamesResolve DirectoriesHaveOneName NothingIsLost LinkCountsAreNames
CHECK_DEADLOCK FALSE
