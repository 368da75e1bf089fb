--------------------------- MODULE MCSourceArchives --------------------------
(* The scripts that make archives with evidence and those that verify them,    *)
(* each pair on its own instance: a behaviour is one pair's, chosen at the     *)
(* start; Android a second time with two packagers of one output.              *)
EXTENDS Naturals, Sequences, FiniteSets

CONSTANTS
  Scripts,   \* "android", "android_publish", "ndk", "ios", "windows", "desktop", "release"
  None, Link, a1, a2, n1, n2,
  Packagers, TwoPackagers, Verifiers,   \* TwoPackagers where packagers may overlap
  Edits, MaxMoves, MaxCrashes, MaxTampers,   \* Edits of each script
  Version,                                   \* that a process is told of
  WithinLimits(_, _),   \* of a script's verifier, an archive: see its Fits
  AndroidPinned, AuditTargets, AndroidArchives, Tested, AndroidTrees, PlainTrees, AndroidPaths,
  AndroidEpochs, AndroidPolicies, Components, ArchiveCount, AndroidFiles, ValidNdk,
  NdkSourceIds, NdkTree, NdkPolicies, Blobs,
  IosTargets, Fixed, IosSelected, IosRoots, IosSlices, IosReports, Sound(_, _, _),
  WindowsPolicies, WindowsCandidates, WindowsRetained, Allowed, Toolchain,
  DesktopPolicies, DesktopContribs, DesktopRetained, DesktopPlatforms, Directories,
  ReleasePolicies, ReleaseContribs, ReleaseRetained, ReleasePlatforms,
  CommitTrees, ReleaseTarget, ReleasePoliciesOf

VARIABLES
  script,
  head, work, pc, read, image, partial, output, edits, crashes,
  file, record, quiet,                                               \* Android
  policy, pol, entries, done, value, moves, accepted, calm, tampers,       \* NDK
  commit, root, slice, report, allow, trusted, expected, made,       \* iOS
  archive, podspec, seen,
  policies, candidate, supplement, began                             \* Windows, desktop, release

\* The variables by the scripts that use them.
android == <<file, record, quiet>>
ndk == <<policy, pol, entries, done, value, moves, accepted, calm>>
ios == <<commit, root, slice, report, allow, trusted, expected, made, podspec, seen>>
desktop == <<policies, candidate, supplement, began>>
checkouts == <<head, work, image, partial>>
vars == <<script, android, ndk, ios, desktop, checkouts, read, output, archive, tampers,
          pc, edits, crashes>>

AndroidInputs == INSTANCE MCAndroid
IosInputs == INSTANCE MCIos
WindowsInputs == INSTANCE MCWindows
DesktopInputs == INSTANCE MCDesktopSource
ReleaseInputs == INSTANCE MCReleaseSource

\* The inputs of the bounded instance.
EditsOf ==
  [s \in Scripts |-> CASE s = "android" -> 3 [] s \in {"ndk", "desktop", "release"} -> 2 [] OTHER -> 1]
VersionOf == [p \in {"p1", "p2", "v1"} |-> 1]
ThePinned == AndroidInputs!Pinned
TheAuditTargets == AndroidInputs!Targets
TheArchives == AndroidInputs!Archives
TheAndroidTrees == AndroidInputs!Trees
ThePaths == AndroidInputs!PathsOf
TheEpochs == AndroidInputs!EpochOf
ThePolicies == AndroidInputs!PolicyOf
TheAndroidFiles == AndroidInputs!Candidates
TheSourceIds == AndroidInputs!SourceIds
TheTree == AndroidInputs!Tree
TheNdkPolicies == AndroidInputs!Policies
TheIosTargets == IosInputs!Targets
TheRoots == IosInputs!Roots
TheSlices == IosInputs!Slices
TheReports == IosInputs!Reports
SoundFor(f, t, b) == b.target = t
TheWindowsPolicies == WindowsInputs!PolicySets
TheWindowsCandidates == WindowsInputs!Candidates
TheWindowsRetained == WindowsInputs!Retained
TheDesktopPolicies == DesktopInputs!PolicySets
TheDesktopContribs == DesktopInputs!Contribs
TheDesktopRetained == DesktopInputs!Retained
TheReleasePolicies == ReleaseInputs!PolicySets
TheReleaseContribs == ReleaseInputs!Contribs
TheReleaseRetained == ReleaseInputs!Retained
TheCommitTrees == ReleaseInputs!Trees
TheReleaseTarget == [p \in {"p1", "v1"} |-> "desktop"]
TheReleasePoliciesOf == ReleaseInputs!PoliciesOf

\* Of each script some archives are beyond the limits of its verifier: those with a
\* large archive or large licenses in them, and those with many members.
SomeFit(s, a) ==
  CASE s = "android" -> a["zlib"] # a2
    [] s = "ndk" -> Cardinality(DOMAIN a.files) <= 2
    [] s = "ios" -> a["licenses"] = 1
    [] s = "windows" -> Cardinality(DOMAIN a) <= 9
    [] s = "desktop" -> "xcb.tar" \in DOMAIN a => a["xcb.tar"] # "x2"

AndroidFits(a) == WithinLimits("android", a)
NdkFits(a) == WithinLimits("ndk", a)
IosFits(a) == WithinLimits("ios", a)
WindowsFits(a) == WithinLimits("windows", a)
DesktopFits(a) == WithinLimits("desktop", a)

Android == INSTANCE AndroidSourceVerify WITH
  Fits <- AndroidFits, MaxEdits <- Edits["android"], MaxCrashes <- 0,
  Targets <- AuditTargets, Trees <- AndroidTrees, Candidates <- AndroidFiles,
  Pinned <- AndroidPinned, Archives <- AndroidArchives, PathsOf <- AndroidPaths,
  EpochOf <- AndroidEpochs, PolicyOf <- AndroidPolicies
AndroidPublish == INSTANCE AndroidSourceVerify WITH
  Fits <- AndroidFits,
  Packagers <- TwoPackagers, Verifiers <- {}, MaxEdits <- Edits["android_publish"],
  Targets <- AuditTargets, Trees <- AndroidTrees, Candidates <- AndroidFiles,
  Pinned <- AndroidPinned, Archives <- AndroidArchives, PathsOf <- AndroidPaths,
  EpochOf <- AndroidEpochs, PolicyOf <- AndroidPolicies
Ndk == INSTANCE NdkSourceVerify WITH
  Fits <- NdkFits, SourceIds <- NdkSourceIds, Tree <- NdkTree, Policies <- NdkPolicies,
  MaxEdits <- Edits["ndk"]
Ios == INSTANCE IosArchiveVerify WITH
  Fits <- IosFits, Assemblers <- Packagers, Targets <- IosTargets, MaxEdits <- Edits["ios"],
  Selected <- IosSelected, Roots <- IosRoots, Slices <- IosSlices, Reports <- IosReports
Windows == INSTANCE WindowsSource WITH Fits <- WindowsFits,
  Packagers <- TwoPackagers, Outputs <- {"windows"}, Platforms <- {"windows"},
  PolicySets <- WindowsPolicies, Candidates <- WindowsCandidates, Directories <- {},
  Contribs <- {}, Retained <- WindowsRetained, MaxEdits <- Edits["windows"]
Desktop == INSTANCE DesktopSource WITH Fits <- DesktopFits,
  Outputs <- {"windows", "desktop"}, Platforms <- DesktopPlatforms,
  PolicySets <- DesktopPolicies, Candidates <- {[safe |-> FALSE, files |-> <<>>]},
  Contribs <- DesktopContribs, Retained <- DesktopRetained, MaxEdits <- Edits["desktop"]
Release == INSTANCE ReleaseSource WITH
  Outputs <- {"release"}, Platforms <- ReleasePlatforms, PolicySets <- ReleasePolicies,
  Candidates <- {[safe |-> FALSE, files |-> <<>>]}, Contribs <- ReleaseContribs,
  Retained <- ReleaseRetained, MaxEdits <- Edits["release"],
  Trees <- CommitTrees, Target <- ReleaseTarget, PoliciesOf <- ReleasePoliciesOf

-----------------------------------------------------------------------------
\* One packager makes an archive, but for the two of each of TwoPackagers' scripts;
\* a verifier is another process.
ASSUME SourceProcesses ==
  /\ \E p \in Packagers : Packagers = {p}
  /\ \E p, q \in TwoPackagers : TwoPackagers = {p, q}
  /\ (Packagers \cup TwoPackagers) \cap Verifiers = {}
  /\ {None, "nobody"} \cap (Packagers \cup TwoPackagers \cup Verifiers) = {}

\* The names of a member, an input and a fact of the Android scripts are apart.  The
\* effective license of a legal manifest is null, an expression, or blank.
AndroidNames == {"kmediavlc", "manifest", "legal", "ndk", "policy", "revision", "tree",
                 "verified", "policy_digest", "archive", "reported"}
ASSUME AndroidAssumption ==
  /\ AndroidPinned \in Seq(STRING) /\ AuditTargets \in Seq(STRING) /\ AndroidArchives \in Seq(STRING)
  /\ AuditTargets # <<>> /\ AndroidArchives # <<>>
  /\ \A i \in DOMAIN AndroidPinned : AndroidPinned[i] \notin AndroidNames
  /\ \A i \in DOMAIN AuditTargets : AuditTargets[i] \notin AndroidNames
  /\ \A i \in DOMAIN AndroidArchives : AndroidArchives[i] \notin AndroidNames
  /\ \A i \in DOMAIN AndroidPinned, j \in DOMAIN AuditTargets : AndroidPinned[i] # AuditTargets[j]
  /\ \A i \in DOMAIN AndroidPinned, j \in DOMAIN AndroidArchives : AndroidPinned[i] # AndroidArchives[j]
  /\ \A i \in DOMAIN AuditTargets, j \in DOMAIN AndroidArchives : AuditTargets[i] # AndroidArchives[j]
  /\ \A l \in AndroidFiles["legal"] \ {None} : l.effective \in {"none", "spdx", "blank"}

\* The sources of the NDK have different names, the first of each path in their trees
\* and in the policies, which pin a revision of each.
ASSUME NdkAssumption ==
  LET sources == {NdkSourceIds[i] : i \in DOMAIN NdkSourceIds} IN
  /\ NdkSourceIds \in Seq(STRING) /\ NdkSourceIds # <<>>
  /\ \A i, j \in DOMAIN NdkSourceIds : NdkSourceIds[i] = NdkSourceIds[j] => i = j
  /\ \A r \in DOMAIN NdkTree : \A q \in DOMAIN NdkTree[r] : q[1] \in sources
  /\ \A c \in NdkPolicies :
       /\ \A prefix \in c.selected \cup c.required : prefix[1] \in sources
       /\ \A s \in sources : /\ c.revision[s] \in DOMAIN NdkTree
                            /\ \A q \in DOMAIN NdkTree[c.revision[s]] : q[1] = s

\* A framework has not the name of a target, of an evidence file or of what else is
\* in the directory of an assembly.
IosNames == {"recipes", "policy", "inventory", "licenses", "temporary", "latest"}
ASSUME IosAssumption ==
  /\ IosTargets \in Seq(STRING) /\ Len(IosTargets) = 2 /\ IosTargets[1] # IosTargets[2]
  /\ \A i \in {1, 2} : IosTargets[i] \notin IosNames
  /\ Fixed # {}
  /\ \A r \in IosRoots :
       (Fixed \cup r.policy.modules) \cap (IosNames \cup {IosTargets[1], IosTargets[2]}) = {}

\* A contrib source has another name than what else is in an archive; a policy names
\* finitely many, a commit has finitely many files, and a run is given finitely many
\* directories.
Apart(names, others) == IsFiniteSet(names) /\ names \cap others = {}
WindowsOthers == Windows!RetainedFiles \cup Windows!Range(Windows!Generated)
ReleaseOthers == DOMAIN CommitTrees \cup Release!Range(Release!Generated)
ASSUME SourceNames ==
  /\ \A set \in WindowsPolicies :
       Apart(Windows!SourcesOf(set["windows"].components), WindowsOthers)
  /\ \A set \in DesktopPolicies :
       Apart(UNION {Desktop!SourcesOf(set[q].components) : q \in DesktopPlatforms}, WindowsOthers)
  /\ \A set \in ReleasePolicies, r \in Packagers \cup Verifiers :
       Apart(UNION {Release!SourcesOf(set[q].components) : q \in ReleasePoliciesOf[ReleaseTarget[r]]},
             ReleaseOthers)
  /\ Apart(DOMAIN CommitTrees, Release!Range(Release!Generated)) /\ IsFiniteSet(Directories)

-----------------------------------------------------------------------------
\* What a script does not use.
NoAndroid == file = None /\ record = None /\ quiet = None
NoNdk ==
  /\ policy = None /\ pol = None /\ entries = None /\ done = None /\ value = None
  /\ moves = None /\ accepted = None /\ calm = None
NoIos ==
  /\ commit = None /\ root = None /\ slice = None /\ report = None /\ allow = None
  /\ trusted = None /\ expected = None /\ made = None /\ podspec = None /\ seen = None
NoDesktop == policies = None /\ candidate = None /\ supplement = None /\ began = None
NoCheckouts == head = None /\ work = None /\ image = None /\ partial = None

\* The interesting starts.  Android: everything is as the tested commit wants it,
\* but for the legal manifest and the contrib archive.  iOS: both slices are of
\* the first build; what the reports say, and what the second slice was built
\* for, may be wrong.
AndroidStart ==
  /\ Android!Init
  /\ head["kmediavlc"] = "k1" /\ head["vlc"] = "vlc1"
  /\ file["arm64"] = AndroidInputs!Audit("k1") /\ file["ndk"] = n1
PublishStart ==
  /\ AndroidPublish!Init
  /\ head["kmediavlc"] = "k1" /\ head["vlc"] = "vlc1"
  /\ file["arm64"] = AndroidInputs!Audit("k1") /\ file["ndk"] = n1
IosStart ==
  /\ Ios!VerifyInit
  /\ \A i \in {1, 2} : LET t == IosInputs!Targets[i] IN
       slice[t] \in {IosInputs!SliceOf(1, t, {"avcodec"}),
                    IosInputs!SliceOf(1, IosInputs!Targets[1], {"avcodec"})}
  /\ commit.policy.modules = {"avcodec"}

AndroidInit(start) ==
  start /\ NoNdk /\ NoIos /\ NoDesktop /\ archive = None /\ tampers = None
NdkInit ==
  /\ Ndk!VerifyInit
  /\ NoAndroid /\ NoIos /\ NoDesktop /\ read = None /\ archive = None
IosInit == IosStart /\ NoAndroid /\ NoNdk /\ NoDesktop /\ NoCheckouts /\ read = None
DesktopInit(start) ==
  start /\ NoAndroid /\ NoNdk /\ NoIos /\ NoCheckouts /\ output = None /\ tampers = None

Init ==
  /\ script \in Scripts
  /\ script = "android" => AndroidInit(AndroidStart)
  /\ script = "android_publish" => AndroidInit(PublishStart)
  /\ script = "ndk" => NdkInit
  /\ script = "ios" => IosInit
  /\ script = "windows" => DesktopInit(Windows!Init)
  /\ script = "desktop" => DesktopInit(Desktop!DesktopInit)
  /\ script = "release" => DesktopInit(Release!Init)

Only(name) == script = name /\ UNCHANGED script
AndroidRest == UNCHANGED <<ndk, ios, desktop, archive, tampers>>
DesktopRest == UNCHANGED <<android, ndk, ios, checkouts, output, tampers>>

AndroidSteps == Only("android") /\ Android!Next /\ AndroidRest
PublishSteps == Only("android_publish") /\ AndroidPublish!Next /\ AndroidRest
NdkSteps == Only("ndk") /\ Ndk!Next /\ UNCHANGED <<android, ios, desktop, read, archive>>
IosSteps == Only("ios") /\ Ios!Next /\ UNCHANGED <<android, ndk, desktop, checkouts, read>>
WindowsSteps == Only("windows") /\ Windows!WindowsNext /\ DesktopRest
DesktopSteps == Only("desktop") /\ Desktop!DesktopNext /\ DesktopRest
ReleaseSteps == Only("release") /\ Release!ReleaseNext /\ DesktopRest

Next ==
  \/ AndroidSteps \/ PublishSteps \/ NdkSteps \/ IosSteps
  \/ WindowsSteps \/ DesktopSteps \/ ReleaseSteps
Spec == Init /\ [][Next]_vars

-----------------------------------------------------------------------------
(* Properties *)

\* An accepted archive is the one that the packager set out to make or that the
\* pinned inputs call for, file by file: one that a failed or killed run has left
\* half-way does not pass for it, nor one changed afterwards.  Of the NDK's it holds
\* unless someone moves the HEAD of a checkout, which its scripts resolve twice,
\* while the verifier runs.
AcceptedIsExact ==
  /\ script = "ndk" => Ndk!AcceptedIsExact
  /\ script = "windows" => Windows!AcceptedIsWhole
  /\ script = "desktop" => Desktop!DesktopAcceptedIsWhole
  /\ script = "release" => Release!AcceptedIsExact

\* An accepted archive agrees with its own evidence, whatever was changed while it
\* was made: manifests, checksums, reports and audits describe the files beside
\* them.  A desktop archive made while nothing changed has the bytes of every copy
\* there is of each contrib source.
AcceptedIsConsistent ==
  /\ script = "android" => Android!AcceptedIsConsistent
  /\ script = "ios" => Ios!AcceptedIsReported
  /\ script = "windows" => Windows!AcceptedIsConsistent
  /\ script = "desktop" => Desktop!CopiesAgree
  /\ script = "release" => Release!AcceptedIsConsistent

\* What a packager puts under the final name is whole: every member that its manifest
\* lists is there, wherever the packager is killed, and, of Android's, however two of
\* them overlap (with a third one the rename of the first may move the half-written
\* file of the third).  Made while nothing changed, it is what its evidence says.
PublishedIsWhole ==
  /\ script = "android" => Android!PublishedIsConsistent
  /\ script = "android_publish" => AndroidPublish!PublishedIsWhole
  /\ script = "ndk" => Ndk!PublishedIsWhole
  /\ script = "ios" => Ios!PodspecPinsArchive

\* A run of the Android packager or the iOS assembler that fails by itself, at
\* whatever step, leaves nothing of its own that a later run would take for a
\* product or stumble over.
FailureLeavesNothing ==
  /\ script = "android_publish" => AndroidPublish!NoPartialLeft
  /\ script = "ios" => Ios!EndsCleanly

\* The packager and the verifier of an archive are two programs that restate each
\* other's rules: what one makes of inputs that stay as they are the other does not
\* refuse, but for the differences each component's property names.  One of them is
\* that verifiers limit the members, sizes and names of an archive where packagers
\* do not.
ScriptsAgree ==
  /\ script = "android" => Android!RefusedOnlyIfBlank
  /\ script = "ndk" => Ndk!RefusedOnlyIfChanged
  /\ script = "ios" => Ios!RefusedOnlyIfChanged
  /\ script = "windows" => Windows!RefusedOnlyIfUnreviewed
  /\ script = "desktop" => Desktop!DesktopRefusedOnlyIfChanged
  /\ script = "release" => Release!RefusedOnlyIfChanged

\* docs/IOS.md of the XCFramework archive: the candidate opt-in is required while a
\* policy is pending.  The assembler copies the policies after it has verified the
\* reports against them, and the verifier asks the reports alone.
PendingNeedsOptIn == script = "ios" /\ tampers = 0 => Ios!PendingNeedsOptIn
=============================================================================
