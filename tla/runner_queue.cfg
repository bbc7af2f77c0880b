SPECIFICATION Spec
CONSTANTS
  t1 = t1
  t2 = t2
  cam1 = cam1
  cam2 = cam2
  Primary = cam1
  NoTask = NoTask
  Tasks = {t1, t2}
  Initial = {t1}
  Lanes = {cam1, cam2}
  Plans <- MCPlans
  OnError <- MCPauseAbort
  Edits = {"add", "update", "remove", "reorder", "reset", "set_status", "clear"}
  Controls = {"stop", "resume"}
  Whens = {"frame"}
  Faults = {"error", "unguided", "restart", "unreadable"}
INVARIANTS FileKeepsUp OneTaskRuns
PROPERTY KeepsLedger
