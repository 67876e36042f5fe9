CONSTANTS
  QueueCapacity = 3
  MaxOrdersPerSecond = 4
  Window = 2
  MaxTime = 9
  OrderIds = {1, 2, 3, 4}
  OrderSlots = {1, 2, 3, 4}
  IndexCapacity = 8
  NoSlot = NoSlot
  PoolCapacity = 3
  Allocators = {a}
  Deallocators = {a, d1, d2}
  MayThrow = TRUE
  Nil = Nil
  Object = Object
  NoAnswer = NoAnswer
  ArenaSize = 16
  CacheLine = 8
  WordSize = 64
  Bases = {24}
  Alignments = {1, 2, 8}
  Sizes = {0, 1, 3, 8, 39}
  MaxBlocks = 4
  Recorders = {r1, r2}
  Latencies <- SomeLatencies
  MaxLatencyNanos = 6
  BucketCount = 3
  Infinity = 10
  Permilles = {0, 200, 290, 500, 800, 990, 999, 1000}
  MaxRacing = 3
  MaxCalls = 5
  SAMPLES = 5
  Sleeps = {2, 3}
  Delays = {0, 1}
SPECIFICATION AllSpec
CONSTRAINT Clock
INVARIANTS SlidingWindow RefusesOnlyAtTheLimit IndexConsistent SlotsHaveOneOwner CountSettles BlocksSound ExactAtRest
  PercentileIsRanked RateIsRobust
PROPERTIES ImplementsSlotPool SomeCallGetsThrough
CHECK_DEADLOCK FALSE
