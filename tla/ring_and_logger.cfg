CONSTANTS
  Capacity = 4
  Raw = Raw
  MaxPushes = 5
  Values = {a, b}
SPECIFICATION RingOrLogger
INVARIANTS NoSlotRace DeliversInOrder FrontStaysOldest RingInvariant
  ProducerNeverUnderestimates WritesInOrder WriterLeavesNothing FlushLeavesAtMostOne
PROPERTIES ImplementsFIFO TriesAreWaitFree WaitingEnds WaitsEnd
CHECK_DEADLOCK FALSE
