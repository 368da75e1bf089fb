\* Two producers and a consumer racing with close() and two calls of subscribe().
CONSTANTS
  Frames = {f1, f2, f3}
  Producers = {p1, p2}
  Closers = {c1}
  Subscribers = {s1, s2}
  NoFrame = NoFrame
  NoListener = NoListener
SPECIFICATION Spec
SYMMETRY Symmetry
INVARIANTS
  TypeOK
  ReleasedAtMostOnce
  NoFrameLost
  ClosedTransportIsEmpty
  RefusedNeverDelivered
  DropAccounting
  NoLostNotification
CHECK_DEADLOCK FALSE
