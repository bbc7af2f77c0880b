SPECIFICATION AutoSpec
CONSTANTS
  NoWorker = NoWorker
  Callers = {c1}
  Workers = {w1, w2}
  Holders = {sequencer, wizard}
  AutoPark = TRUE
  AutoFlip = TRUE
  HorizonActions = {"none","stop_tracking","park"}
  Faults = {"driver"}
  Ops = {"reconnect"}
SYMMETRY MCSymmetry
PROPERTIES SuspensionCounts ParksOnce ActsOncePerCrossing
