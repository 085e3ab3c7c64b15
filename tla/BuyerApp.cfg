\* Two orders, two calls at a time, every combination of hazards.
CONSTANTS
  s1 = s1  s2 = s2  o1 = o1  o2 = o2
  Orders = {o1, o2}
  NoOrder = NoOrder
  Slots = {s1, s2}
  Stock = 2
  HazardCases <- AllCases
SPECIFICATION Spec
SYMMETRY Symmetry
INVARIANTS TypeOK OrdersAddUp ToldTheTruth
PROPERTIES RowsNeverGoBack
