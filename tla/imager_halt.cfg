SPECIFICATION FairImagerSpec
CONSTANTS
  NoLoop = NoLoop
  Exposures = {e1, e2}
  Clients = {c1, c2}
INVARIANT BusyIsBusy
PROPERTIES HaltedFrameIsDropped CallsReturn
