CONSTANTS
  QueueCapacity = 2
  MaxOrdersPerSecond = 2
  Window = 0
  Symbols = {1}
  Requests <- BothSides
  MaxPositionPerSymbol = 2
  MaxPendingOrders = 2
  MaxOpenOrders = 3
  MaxOrderValue = 2
  EnableRiskChecks = TRUE
  ReplaceQuantities = {}
  MaxIds = 3
  MaxTime = 1
  ReportQueueSize = 10
  NumericOrderIds = TRUE
  SessionDrops = TRUE
SPECIFICATION FairSpec
INVARIANT AgreesWithExchange
PROPERTIES PendingIsAnswered CancelStopsTrading
CHECK_DEADLOCK FALSE
