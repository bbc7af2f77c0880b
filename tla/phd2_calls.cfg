SPECIFICATION Phd2Spec
CONSTANTS
  None = None
  Clients = {c1, c2}
  Admins = {a1}
  Loops = {l1, l2}
  Calls = {k1, k2, k3}
  Buffer = 2
SYMMETRY MCSymmetry
INVARIANTS SettleSlot OkMeansSettled NobodyWaitsOnDeadLink HealthNeedsLink
