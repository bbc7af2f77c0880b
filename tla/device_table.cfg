SPECIFICATION DeviceSpec
CONSTANTS
  NoEntry = NoEntry
  mountA = mountA
  mountB = mountB
  focuser = focuser
  Ids = {mountA, mountB, focuser}
  Mounts = {mountA, mountB}
  CompanionsOf <- MCCompanionsOf
  Entries = {e1, e2}
  Clients = {c1, c2}
  Uses = {"connect", "disconnect", "soft"}
SYMMETRY MCSymmetry
INVARIANT ShownIsWatched
PROPERTY StaysDown
