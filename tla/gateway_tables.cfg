CONSTANTS
  QueueCapacity = 4
  MaxOrdersPerSecond = 3
  Window = 0
  Symbols = {1, 2}
  Requests <- SomeRequests
  MaxPositionPerSymbol = 2
  MaxPendingOrders = 1
  MaxOpenOrders = 2
  MaxOrderValue = 2
  EnableRiskChecks = TRUE
  ReplaceQuantities = {0, 1}
  MaxIds = 4
  MaxTime = 0
  ReportQueueSize = 10
  NumericOrderIds = TRUE
  SessionDrops = TRUE
SPECIFICATION Spec
INVARIANTS TablesConsistent ReservationsAccounted OrderLimitsHold OneSidedPositionHolds
PROPERTY DoneIsDone
CHECK_DEADLOCK FALSE
