SPECIFICATION FairRigSpec
CONSTANTS
  cam1 = cam1
  cam2 = cam2
  Lanes = {cam1, cam2}
  Primary = cam1
  Plans <- MCPlans
  DitherEvery = 2
  Margin = 1
  Lookahead = 1
  FlipTimes = {5}
  Nobody = Nobody
  Uses = {"pause", "resume"}
  Faults = {"error", "guider", "unguided", "blind"}
INVARIANTS MountMovesAlone DithersUnhindered
PROPERTY RigFinishes
CHECK_DEADLOCK FALSE
