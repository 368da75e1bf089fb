CONSTANTS
  Callers = {c1}
  VlcThread = vlc
  OutputThread = vout
  NoFrame = NoFrame
  NoOwner = NoOwner
  MaxTime = 2
  Targets <- MCTargets
  Tolerance = 0
  MaximumOvershoot = 1
  RunAhead = TRUE
  MayRefuse = FALSE
  MaxGeneration = 1
  MaxSerial = 1
  MaxEvents = 1
SPECIFICATION FairSpec
PROPERTIES
  SeekSettles
