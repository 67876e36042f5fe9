CONSTANTS
  spot = spot
  futures = futures
  Spot = spot
  Futures = futures
  Symbols <- MCSymbols
  InitialBooks <- MCInitialBooks
  Prices = {1, 4}
  Threshold = 1
  MaxSequenceGap = 1
  QueueSize = 2
  EntryThreshold = 1
  ExitThreshold = 1
  DefaultQty = 1
  MaxPosition = 3
  MaxHoldingPeriod = 1
  MaxMessages = 2
  MaxFixMessages = 3
  MaxTime = 3
  Lossy = FALSE
SPECIFICATION Spec
INVARIANTS TradesOnFreshQuotes
CHECK_DEADLOCK FALSE
