CONSTANTS
  QueueCapacity = 2
  MaxOrdersPerSecond = 2
  Window = 0
  Symbols = {1, 2}
  Requests <- SomeRequests
  MaxPositionPerSymbol = 2
  MaxPendingOrders = 1
  MaxOpenOrders = 2
  MaxOrderValue = 2
  EnableRiskChecks = TRUE
  ReplaceQuantities = {}
  MaxIds = 3
  MaxTime = 1
  ReportQueueSize = 10
  NumericOrderIds = TRUE
  SessionDrops = FALSE
SPECIFICATION Spec
INVARIANT ReservesOpenQuantity
CHECK_DEADLOCK FALSE
