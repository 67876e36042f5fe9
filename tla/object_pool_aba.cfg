CONSTANTS
  PoolCapacity = 3
  Allocators = {a, b}
  Deallocators = {a, b}
  MayThrow = FALSE
  Nil = Nil
  Object = Object
  NoAnswer = NoAnswer
SPECIFICATION PoolSpec
INVARIANT HandedOutOnce
CHECK_DEADLOCK FALSE
