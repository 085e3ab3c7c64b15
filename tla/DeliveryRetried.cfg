\* One session and one driver are enough.
CONSTANTS
  c1 = c1  c2 = c2  c3 = c3  d1 = d1
  Sessions = {c1}
  NoSession = NoSession
  Drivers = {d1}
  NoUser = NoUser
  Seller = Seller
  Order = Order
  MaxCalls = 2
SPECIFICATION Spec
INVARIANTS GatewayPaysOnce
