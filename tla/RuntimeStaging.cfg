\* Two runs of a script on one output, one after the other or at the same time, and
\* one where a second adds nothing but states; a kill, and a changed input.
SPECIFICATION Spec
CONSTANTS
  Scripts = {"linux", "mac", "windows", "ios", "iosOverlap", "payload", "payloadOverlap"}
  Runs = {"r1", "r2"}
  SingleRuns = {"r1"}
  MaxCrashes = 1
  MaxEdits = 1
  Strays = {"core.dump"}
  LinuxPolicies <- ManyLinuxPolicies
  LinuxInstalls <- ManyLinuxInstalls
  MinRaw = 2
  MaxRaw = 2
  SystemLibraries = {"libc"}
  RawPlugins = 2
  SelectedPlugins = 1
  SystemNames = {"/usr/lib/libz"}
  MacPolicies <- ManyMacPolicies
  MacInstalls <- ManyMacInstalls
  WindowsPolicies <- ManyWindowsPolicies
  WindowsInstalls <- ManyWindowsInstalls
  WindowsBuilds <- ManyWindowsBuilds
  IosPolicies <- ManyIosPolicies
  IosInstalls <- ManyIosInstalls
  Foreign = {"/opt/libx"}
  Platforms <- TwoPlatforms
  Archived = "windows"
  Selected = {"libvlc"}
  PayloadStagings <- ManyStagings
  PayloadReports <- ManyReports
  PayloadBytes <- ManyBytes
INVARIANTS ReportedRuntimeLoads ReportIsTrue CacheIsCurrent EndsCleanly
CHECK_DEADLOCK FALSE
