CONSTANTS
  Capacity = 4
  Raw = Raw
  MaxPushes = 5
  Values = {a, b}
SPECIFICATION FairSpecLogger
PROPERTY FlushWritesEverything
CHECK_DEADLOCK FALSE
