------------------------------ MODULE MCStaging ------------------------------
(* The four staging scripts and the packaging of what three of them have       *)
(* staged, each on its own instance: a behaviour belongs to one of them, chosen *)
(* at the start; iOS and the payload a second time with runs that overlap.     *)
EXTENDS Naturals, Sequences, FiniteSets

CONSTANTS
  Scripts,   \* "linux", "mac", "windows", "ios", "iosOverlap", "payload", "payloadOverlap"
  Runs, SingleRuns, MaxCrashes, MaxEdits,             \* of each script
  Strays,                                             \* of the stagers
  LinuxPolicies, LinuxInstalls, MinRaw, MaxRaw, SystemLibraries,
  RawPlugins, SelectedPlugins, SystemNames,           \* of macOS and iOS
  MacPolicies, MacInstalls,
  WindowsPolicies, WindowsInstalls, WindowsBuilds,
  IosPolicies, IosInstalls, Foreign,
  Platforms, Archived, Selected, PayloadStagings, PayloadReports, PayloadBytes

VARIABLES
  script,
  policy, install, allow, staged, listed, audited, report, pc, crashes,
  edits,       \* Windows and the payload
  temporary,   \* iOS and the payload
  status, inventory, archive, unpacked, output, read, seen   \* the payload alone

\* The plugins and support libraries of a policy are at places of their own, which
\* are not those of the fixed files, of the cache, or of what a tool leaves behind.
ASSUME StagingAssumption ==
  /\ \A p \in LinuxPolicies \cup MacPolicies \cup WindowsPolicies \cup IosPolicies :
       /\ IsFiniteSet(p.modules) /\ IsFiniteSet(DOMAIN p.support)
       /\ p.modules \cap DOMAIN p.support = {}
       /\ (p.modules \cup DOMAIN p.support)
            \cap ({"libvlc", "core", "bridge", "plugins.dat"} \cup Strays) = {}
  /\ Strays \cap {"libvlc", "core", "bridge", "plugins.dat"} = {}

IsMap(f) == f = [x \in DOMAIN f |-> f[x]]

\* Every target is packaged once; runs of the packager are not jobs; a staging
\* directory is a finite set of files, checksums map files to digests; the report of
\* a stager lists what the policies select, which is neither the audit nor the
\* checksums; and no file or target has the name that marks what is absent.
ASSUME PayloadAssumption ==
  LET targets == {Platforms[i] : i \in DOMAIN Platforms} IN
  /\ Platforms \in Seq(STRING) /\ Platforms # <<>>
  /\ \A i, j \in DOMAIN Platforms : Platforms[i] = Platforms[j] => i = j
  /\ Archived \in targets /\ targets \cap {"extraction", "absent"} = {}
  /\ (Runs \cup SingleRuns) \cap (targets \cup {"extraction"}) = {}
  /\ IsFiniteSet(Selected) /\ Selected \cap {"BINARY-COMPONENTS.json", "SHA256SUMS", "absent"} = {}
  /\ \A t \in targets : \A files \in PayloadStagings[t] :
       /\ IsFiniteSet(DOMAIN files) /\ IsMap(files) /\ "absent" \notin DOMAIN files
       /\ "SHA256SUMS" \in DOMAIN files => IsMap(files["SHA256SUMS"].sums)
  /\ \A d \in PayloadReports :
       /\ d = [status |-> d.status, files |-> d.files]
       /\ IsFiniteSet(DOMAIN d.files) /\ Selected \subseteq DOMAIN d.files

ofInstall == <<policy, install, listed, audited>>
ofPayload == <<status, inventory, archive, unpacked, output, read, seen>>
vars == <<script, allow, staged, report, pc, crashes, edits, temporary, ofInstall, ofPayload>>

LinuxInputs == INSTANCE MCLinuxStaging
MacInputs == INSTANCE MCMacStaging
WindowsInputs == INSTANCE MCWindows
IosInputs == INSTANCE MCIos
PayloadInputs == INSTANCE MCNativePayload

\* The policies, install trees and stagings of the bounded instance.
ManyLinuxPolicies == LinuxInputs!Policies
ManyLinuxInstalls == LinuxInputs!Installs
ManyMacPolicies == MacInputs!Policies
ManyMacInstalls == MacInputs!Installs
ManyWindowsPolicies == WindowsInputs!Policies
ManyWindowsInstalls == WindowsInputs!Installs
ManyWindowsBuilds == WindowsInputs!Builds
ManyIosPolicies == IosInputs!Policies
ManyIosInstalls == IosInputs!Installs
TwoPlatforms == <<"linux", "windows">>
ManyStagings == PayloadInputs!Stagings
ManyReports == PayloadInputs!Reports
ManyBytes == PayloadInputs!Bytes

Linux == INSTANCE LinuxStaging WITH
  Runs <- SingleRuns, Policies <- LinuxPolicies, Installs <- LinuxInstalls
Mac == INSTANCE MacStaging WITH Policies <- MacPolicies, Installs <- MacInstalls
Windows == INSTANCE WindowsStaging WITH
  Policies <- WindowsPolicies, Installs <- WindowsInstalls, Builds <- WindowsBuilds
Ios == INSTANCE IosStaging WITH
  Policies <- IosPolicies, Installs <- IosInstalls, Overlapping <- FALSE
IosOverlap == INSTANCE IosStaging WITH
  Policies <- IosPolicies, Installs <- IosInstalls, Overlapping <- TRUE
Payload == INSTANCE NativePayload WITH
  Targets <- Platforms, Runs <- SingleRuns,
  Stagings <- PayloadStagings, Reports <- PayloadReports, Bytes <- PayloadBytes
PayloadOverlap == INSTANCE NativePayload WITH
  Targets <- Platforms, Stagings <- PayloadStagings, Reports <- PayloadReports,
  Bytes <- PayloadBytes, MaxEdits <- 0, MaxCrashes <- 0

NoInstall == policy = <<>> /\ install = <<>> /\ listed = <<>> /\ audited = <<>>
NoPayload ==
  /\ status = <<>> /\ inventory = <<>> /\ archive = <<>> /\ unpacked = <<>>
  /\ output = <<>> /\ read = <<>> /\ seen = <<>>

Init ==
  /\ script \in Scripts
  /\ script = "linux" => Linux!Init
  /\ script = "mac" => Mac!Init
  /\ script = "windows" => Windows!WinInit
  /\ script \in {"ios", "iosOverlap"} => Ios!IosInit
  /\ script = "payload" => Payload!Init
  /\ script = "payloadOverlap" => PayloadOverlap!Init
  /\ script \in {"payload", "payloadOverlap"} => NoInstall
  /\ script \notin {"payload", "payloadOverlap"} => NoPayload
  /\ script \notin {"windows", "payload", "payloadOverlap"} => edits = 0
  /\ script \notin {"ios", "iosOverlap", "payload", "payloadOverlap"} => temporary = <<>>

StageLinux == script = "linux" /\ Linux!Next /\ UNCHANGED <<script, edits, temporary, ofPayload>>
StageMac == script = "mac" /\ Mac!Next /\ UNCHANGED <<script, edits, temporary, ofPayload>>
StageWindows == script = "windows" /\ Windows!Next /\ UNCHANGED <<script, temporary, ofPayload>>
StageIos == script = "ios" /\ Ios!Next /\ UNCHANGED <<script, edits, ofPayload>>
StageIosOverlap == script = "iosOverlap" /\ IosOverlap!Next /\ UNCHANGED <<script, edits, ofPayload>>
PackagePayload == script = "payload" /\ Payload!Next /\ UNCHANGED <<script, ofInstall>>
PackageOverlap == script = "payloadOverlap" /\ PayloadOverlap!Next /\ UNCHANGED <<script, ofInstall>>

Next ==
  \/ StageLinux \/ StageMac \/ StageWindows \/ StageIos \/ StageIosOverlap
  \/ PackagePayload \/ PackageOverlap
Spec == Init /\ [][Next]_vars

-----------------------------------------------------------------------------
(* Properties *)

\* Whatever was in the install tree, a Linux or macOS runtime that a staging
\* script has reported, and iOS frameworks it has published, find every library
\* they need among themselves or on the host; and a payload that was published has
\* every target, whole, with a manifest of exactly its files.
ReportedRuntimeLoads ==
  /\ script = "linux" => Linux!ReportedRuntimeLoads
  /\ script = "mac" => Mac!ReportedRuntimeLoads
  /\ script \in {"ios", "iosOverlap"} => Ios!PublishedIsWhole
  /\ script = "payload" => Payload!PayloadIsWhole
  /\ script = "payloadOverlap" => PayloadOverlap!PayloadIsWhole

\* A report tells the truth about the runtime beside it: the digest each file has
\* after the tools rewrote it, no file left over from a run that was refused or
\* killed, the components of the files, a candidate called one; and there is a
\* whole report only after a run that succeeded.  On its way into the payload an
\* inventory is closed; what was published is what was reported, and approved.
ReportIsTrue ==
  /\ script = "linux" => Linux!ReportIsTrue /\ Linux!ComponentsAreExact /\ Linux!ReportNeedsSuccess
  /\ script = "mac" => Mac!ReportIsTrue /\ Mac!NoLeftovers
  /\ script = "windows" => Windows!ReportIsTrue /\ Windows!ReportIsClosed
  /\ script = "payload" =>
       Payload!InventoryIsClosed /\ Payload!PayloadIsReported /\ Payload!WindowsIsAudited

\* The plugin cache of a reported runtime was made from the plugins as they are
\* staged, not from what they were before the tools rewrote them.
CacheIsCurrent ==
  /\ script = "linux" => Linux!CacheIsCurrent
  /\ script = "mac" => Mac!CacheIsCurrent

\* An iOS staging that fails at any step, its report or rename included, leaves
\* neither output, report nor temporary directory; even a killed one leaves no
\* output without its report.  Of overlapping iOS stagings, or payload packagers,
\* that all find the output free, one publishes it.
EndsCleanly ==
  /\ script = "ios" => Ios!EndsCleanly /\ Ios!NoUnreportedOutput
  /\ script = "iosOverlap" => IosOverlap!OnePublisher
  /\ script = "payloadOverlap" => PayloadOverlap!OnePublisher
=============================================================================
