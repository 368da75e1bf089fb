SPECIFICATION FairSpec
CONSTANTS
  Jobs = {j1, j2}
  Contents = {pinned, other}
  Malformed = malformed
  Absent = absent
  Empty = empty
  Mirrors = 2
  HasBundle = TRUE
  MaxCrashes = 1
  MaxLines = 2
INVARIANTS SuccessMeansPinned NoTemporaryLeft
PROPERTIES OnlyVerifiedContent EveryJobEnds
CHECK_DEADLOCK FALSE
