SPECIFICATION FairFocusSpec
CONSTANTS
  None = None
  Zero = Zero
  Positions = {Zero, pA}
  Clients = {c1, c2}
  Runs = {r1, r2}
  Workers = {w1, w2}
  Faults = {"driver"}
INVARIANTS OneRun LeavesFocuser ExposesInPlace
PROPERTY CallsReturn
