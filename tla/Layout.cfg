\* Every document of five lines, up to the order of their columns; a byte that counts up to five,
\* so that the deepest documents run over it.
SPECIFICATION Spec
CONSTANTS
  Lines = 5
  Documents <- AllOrders
  Byte = 6
  StackMax = 4
  PendingMax = 8
  BufMax = 24
INVARIANTS Balanced LevelsEnclose EndCloses
