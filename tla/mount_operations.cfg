SPECIFICATION FairMountSpec
CONSTANTS
  NoWorker = NoWorker
  Callers = {c1, c2}
  Workers = {w1, w2, w3}
  Ops = {"slew", "park", "flip", "stop"}
INVARIANT StopEndsWhatItFinds
PROPERTIES OperationsEnd StopReturns
