CONSTANTS
  Callers = {c1}
  VlcThread = vlc
  OutputThread = vout
  NoFrame = NoFrame
  NoOwner = NoOwner
  MaxTime = 2
  Targets <- MCTargets
  Tolerance = 0
  MaximumOvershoot = 1
  RunAhead = FALSE
  MayRefuse = FALSE
  MaxGeneration = 2
  MaxSerial = 1
  MaxEvents = 2
SPECIFICATION Spec
INVARIANTS
  SeekFrameShowsTarget
