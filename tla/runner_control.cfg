SPECIFICATION FairSpec
CONSTANTS
  t1 = t1
  t2 = t2
  cam1 = cam1
  cam2 = cam2
  Primary = cam1
  NoTask = NoTask
  Tasks = {t1, t2}
  Initial = {t1, t2}
  Lanes = {cam1}
  Plans <- MCShort
  OnError <- MCPauseDefer
  Edits = {}
  Controls = {"pause", "resume", "skip", "switch", "stop", "cancel"}
  Whens = {"frame", "now"}
  Faults = {"error", "crash"}
PROPERTIES StopIsFinal SkipStaysWithItsTask UnattendedRunSettles
CHECK_DEADLOCK FALSE
