\* Two orders compete for the stock of two farmers; two drivers for the jobs.
CONSTANTS
  b1 = b1  b2 = b2  s1 = s1  s2 = s2  d1 = d1  d2 = d2  l1 = l1  l2 = l2  o1 = o1  o2 = o2
  Buyers = {b1, b2}
  Sellers = {s1, s2}
  Drivers = {d1, d2}
  NoUser = NoUser
  Listings = {l1, l2}
  Orders = {o1, o2}
  SellerOf <- TwoSellerOf
  UnitOf <- TwoUnitOf
  Moq <- TwoMoq
  Stock <- TwoStock
  Carts <- TwoCarts
  Capacities <- TwoCapacities
  GatewayOutcomes = {"paid", "failed"}
SPECIFICATION Spec
SYMMETRY Symmetry
INVARIANTS TypeOK RowsAgree StockAddsUp MoneyIsAccounted
PROPERTIES CustodyStable ImplementsContract
