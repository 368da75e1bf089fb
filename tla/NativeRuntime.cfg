\* Four notifying threads against one disable_and_release(), and each other part
\* of the native runtime on an instance of its own.  Every part but the sink ends.
CONSTANTS
  Callbacks = {t1, t2, t3, t4}
  Releaser = releaser
  Nobody = nobody
  Parts = {"sink", "pool", "player", "cpuPlayer", "extraction", "replacement", "android"}
  Targets <- Consumers
  SurfaceCount = 2
  MaxSurfaces = 3
  MaxHeld = 1
  Apps = {a1, a2}
  PlayerFrames = {f1, f2}
  Processes = {p1, p2}
  External = {e}
  Files = {"libvlc", "plugin"}
  MaxCrashes = 1
  MaxDamage = 1
  Windows = {"w1", "w2"}
  Attachments <- WindowPairs
  MaxCalls = 6
SPECIFICATION RuntimeSpec
INVARIANTS
  TypeOK
  CountExact
  ReferenceOutlivesCalls
  NoWakeupLost
  SurfacesAreExclusive
  PlayersEndCleanly
PROPERTIES
  ReleaseReturns
  OnlyVerifiedResolved
  ReplacementKeepsIntent
CHECK_DEADLOCK FALSE
