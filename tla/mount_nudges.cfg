SPECIFICATION FairSpec
CONSTANTS
  NoOne = NoOne
  Still = Still
  north = north
  south = south
  east = east
  ns = ns
  we = we
  Axes = {ns, we}
  AxisOf <- MCAxisOf
  Leases = {l1, l2}
  Clients = {c1, c2}
  Directions = {north, south, east}
  Rates = {slow, fast}
  Timed = {TRUE, FALSE}
  Emergency = TRUE
  MoveFaults = {"driver"}
INVARIANTS LeaseIsCurrent StopNotOvertaken MotionHasLease
PROPERTY VanishedClientsStop
