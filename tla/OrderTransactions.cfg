\* Three sessions, every failure, under the scheduling of Node and
\* PostgreSQL.
CONSTANTS
  c1 = c1  c2 = c2  c3 = c3  d1 = d1
  Sessions = {c1, c2, c3}
  NoSession = NoSession
  Drivers = {d1}
  NoUser = NoUser
  Seller = Seller
  Order = Order
  MaxCalls = 1
SPECIFICATION FairSpec
INVARIANTS TypeOK BooksAreTrue
PROPERTIES ImplementsContract RequestsEnd
