SPECIFICATION WizardSpec
CONSTANTS
  None = None
  fA = fA
  fB = fB
  pA = pA
  pB = pB
  Cameras = {c1, c2}
  Filters = {fA, fB}
  Plans <- MCPlans
  Panels <- MCPanels
  Levels = {0, 1, 12, 24}
  Seed = 4
  MinDuration = 1
  MaxDuration = 16
  MaxAttempts = 4
  Target = 12
  Tolerance = 1
  Saturation = 18
  Faults = {"expose", "wheel", "panel"}
SYMMETRY MCSymmetry
INVARIANTS WheelStays PanelsReleased ReachableIsSolved
