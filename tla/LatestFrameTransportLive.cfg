\* Liveness and refinement, without symmetry.
CONSTANTS
  Frames = {f1, f2}
  Producers = {p1, p2}
  Closers = {c1}
  Subscribers = {s1}
  NoFrame = NoFrame
  NoListener = NoListener
SPECIFICATION FairSpec
PROPERTIES
  EveryFrameReleased
  MailboxSpec
CHECK_DEADLOCK FALSE
