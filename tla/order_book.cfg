CONSTANTS
  MaxLevels = 2
  MaxOrders = 3
  IndexCapacity = 8
  Home <- MCHome
  OrderIds <- MCIds
  Prices = {1, 2, 3}
  NewOrders <- MCOrders
  Changes <- MCChanges
  Snapshots <- MCSnapshots
  InvalidId = 0
  InvalidPrice = 0
  Nil = Nil
SPECIFICATION Spec
INVARIANTS PoolConsistent LevelsConsistent BestPricesCurrent
PROPERTY ImplementsPriceTimeBook
