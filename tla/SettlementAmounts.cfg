\* Every order of every selection; four shipments together (8.01 kg) are too heavy.
CONSTANTS
  Selections <- Lists
  Distance <- RoadDistance
  PickupAt <- Farm
  DropAt <- Shop
  Weight <- Load
  Capacity = 700
  Asked <- Wanted
  Stock = 800
  Moq = 100
  PayoutPrice = 2001
  BuyerPrice = 2001
SPECIFICATION AmountsSpec
CHECK_DEADLOCK FALSE
INVARIANTS AmountsTypeOK RouteIsServable AmountsAddUp
PROPERTIES PlanReturns
