\* Two shipments, two calls at a time, with no hazard, lost and late calls, an impatient driver.
CONSTANTS
  x1 = x1  x2 = x2  sh1 = sh1  sh2 = sh2
  Shipments = {sh1, sh2}
  NoShipment = NoShipment
  Slots = {x1, x2}
  Depth = 3
  Limit = 6
  HazardCases <- Cases
SPECIFICATION Spec
SYMMETRY Symmetry
INVARIANTS TypeOK NoDeadEnd ToldTheTruth
