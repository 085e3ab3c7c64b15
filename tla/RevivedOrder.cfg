\* A batch is started after one of its orders was cancelled.
CONSTANTS
  b1 = b1  s1 = s1  d1 = d1  d2 = d2  l1 = l1  o1 = o1  o2 = o2  k1 = k1  k2 = k2
  Buyers = {b1}
  Sellers = {s1}
  Drivers = {d1, d2}
  NoUser = NoUser
  Listings = {l1}
  Orders = {o1, o2}
  SellerOf <- CrateSellerOf
  UnitOf <- CrateUnitOf
  Moq <- CrateMoq
  Stock <- CrateStock
  Carts <- CrateCarts
  Capacities <- LargeTruck
  GatewayOutcomes = {"paid"}
  NoBatch = NoBatch
  Batches = {k1}
  Cases <- CancelledOnly
SPECIFICATION FulfilmentSpec
SYMMETRY BatchSymmetry
PROPERTY StartRevalidatesOrders
