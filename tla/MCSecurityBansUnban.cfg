\* Nothing fails; the administrator lifts the ban between a report and a pull.
CONSTANTS
  g1 = g1
  v1 = v1
  Guards = {g1}
  Exposed = {g1}
  Visitors = {v1}
  BatchLimit = 1
  BanTicks = 1
  MaxMatches = 1
  MaxClock = 0
  MaxOrders = 1
  MaxOutages = 0
SPECIFICATION BansSpec
PROPERTY UnbanConverges
CHECK_DEADLOCK FALSE
