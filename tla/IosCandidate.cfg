SPECIFICATION Spec
CONSTANTS
  Scripts = {"ios"}
  None = None
  Link = Link
  a1 = a1
  a2 = a2
  n1 = n1
  n2 = n2
  Packagers = {"p1"}
  TwoPackagers = {"p1", "p2"}
  Verifiers = {"v1"}
  Edits <- EditsOf
  MaxMoves = 1
  MaxCrashes = 1
  MaxTampers = 1
  Version <- VersionOf
  WithinLimits <- SomeFit
  AndroidPinned <- ThePinned
  AuditTargets <- TheAuditTargets
  AndroidArchives <- TheArchives
  Tested = "k1"
  AndroidTrees <- TheAndroidTrees
  PlainTrees = {"k1", "k2", "vlc1", "vlc2"}
  AndroidPaths <- ThePaths
  AndroidEpochs <- TheEpochs
  AndroidPolicies <- ThePolicies
  Components = 1
  ArchiveCount = 1
  AndroidFiles <- TheAndroidFiles
  ValidNdk = {n1}
  NdkSourceIds <- TheSourceIds
  NdkTree <- TheTree
  NdkPolicies <- TheNdkPolicies
  Blobs = {"x2"}
  IosTargets <- TheIosTargets
  Fixed = {"core"}
  IosSelected = 1
  IosRoots <- TheRoots
  IosSlices <- TheSlices
  IosReports <- TheReports
  Sound <- SoundFor
  WindowsPolicies <- TheWindowsPolicies
  WindowsCandidates <- TheWindowsCandidates
  WindowsRetained <- TheWindowsRetained
  Allowed = {"p2"}
  Toolchain = "llvm"
  DesktopPolicies <- TheDesktopPolicies
  DesktopContribs <- TheDesktopContribs
  DesktopRetained <- TheDesktopRetained
  DesktopPlatforms = {"windows", "linux"}
  Directories = {"amd64", "arm64"}
  ReleasePolicies <- TheReleasePolicies
  ReleaseContribs <- TheReleaseContribs
  ReleaseRetained <- TheReleaseRetained
  ReleasePlatforms = {"windows", "linux", "ios"}
  CommitTrees <- TheCommitTrees
  ReleaseTarget <- TheReleaseTarget
  ReleasePoliciesOf <- TheReleasePoliciesOf
INVARIANT PendingNeedsOptIn
CHECK_DEADLOCK FALSE
