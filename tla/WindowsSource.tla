---------------------------- MODULE WindowsSource ----------------------------
(* scripts/package_corresponding_source.py, which prunes the source candidate *)
(* of a Windows build, and scripts/verify_corresponding_source_archive.py.    *)
EXTENDS SourceArchives

CONSTANTS
  Allowed,    \* the packagers that are given --allow-audit-candidate
  Toolchain,  \* the toolchain image the verifier pins
  Fits(_)     \* the members keep to the limits of the verifiers: of the packager's,
              \* which are for its candidate, and the assembler's, which has none

Windows(set) == set["windows"]

\* The members that are no contrib source: their paths come before those of the
\* contrib sources, or after.
Before == <<"BUILD-TOOLCHAIN.txt", "TOOLCHAIN-STATIC-ARCHIVES-SHA256SUMS">>
After == <<"kmediavlc", "toolchain-licenses", "vlc/meson.build", "vlc/src">>
Generated == <<"SELECTED-CONTRIB-SHA256SUMS", "SOURCE-MANIFEST.json">>
RetainedFiles == Range(Before) \cup Range(After)

\* Which of them come first; no property tells the order among these apart.
Sorted(members) ==
  InSomeOrder(members \cap Range(Before)) \o InSomeOrder(members \ RetainedFiles)
    \o InSomeOrder(members \cap Range(After))

\* What the scripts ask for of these: of VLC's tree, one file.
Required == RetainedFiles \ {"vlc/src"}

-----------------------------------------------------------------------------
(* The packager *)

\* load_policy: the image is taken as it is.
LoadPolicy(p, policy) ==
  /\ policy.closed /\ policy.components # <<>>
  /\ policy.status = "approved" \/ p \in Allowed

Start(p) ==
  Begins(p, archive["windows"].state = "none" /\ LoadPolicy(p, Windows(policies)), "open",
         "policy", Windows(policies))

Selected(p) == SourcesOf(read[p]["policy"].components)

\* A mutant of OpenCandidate: whatever the candidate holds is kept.
OpenUnpruned(p) ==
  Reads(p, "open", candidate.safe /\ Required \cup Selected(p) \subseteq DOMAIN candidate.files,
        "create", "members", candidate.files)

\* The members to keep, out of a candidate that is open from here to the end:
\* those required are among them.
OpenCandidate(p) ==
  LET kept == (RetainedFiles \cup Selected(p)) \cap DOMAIN candidate.files IN
  Reads(p, "open", candidate.safe /\ Required \cup Selected(p) \subseteq kept, "create",
        "members", [m \in kept |-> candidate.files[m]])

\* The manifest, and with it the digests of what was selected.
WindowsManifest(p) ==
  LET policy == read[p]["policy"] IN
  [target |-> "windows", version |-> Version[p], status |-> policy.status, image |-> policy.image,
   components |-> policy.components, hashes |-> [a \in Selected(p) |-> read[p]["members"][a]]]

\* A mutant of WindowsOrder: what is generated is written first.
GeneratedFirst(p) == Generated \o Sorted(DOMAIN read[p]["members"])

WindowsOrder(p) == Sorted(DOMAIN read[p]["members"]) \o Generated

WindowsBytes(p, m) ==
  CASE m = "SOURCE-MANIFEST.json" -> WindowsManifest(p)
    [] m = "SELECTED-CONTRIB-SHA256SUMS" -> WindowsManifest(p).hashes
    [] OTHER -> read[p]["members"][m]

CreateWindows(p) == Create(p, "windows")
AddToWindows(p) ==
  LET order == WindowsOrder(p) IN
  AddMember(p, "windows", order, [m \in Range(order) |-> WindowsBytes(p, m)])

Package(p) == Start(p) \/ OpenCandidate(p) \/ CreateWindows(p) \/ AddToWindows(p)

-----------------------------------------------------------------------------
(* The verifier *)

\* load_policy of the verifier: approved, and with the pinned image.
VerifierPolicy(policy) ==
  /\ policy.closed /\ policy.components # <<>>
  /\ policy.status = "approved" /\ policy.image = Toolchain

\* What every verifier asks of an archive: that a manifest lists exactly the
\* contrib sources expected, and so do the checksums and the members.
ContribOK(files, names) ==
  LET hashes == files["SOURCE-MANIFEST.json"].hashes IN
  /\ DOMAIN hashes = names
  /\ files["SELECTED-CONTRIB-SHA256SUMS"] = hashes
  /\ DOMAIN files \ (RetainedFiles \cup Range(Generated)) = names
  /\ \A a \in names : files[a] = hashes[a]

\* A mutant of WindowsOK: the contrib sources are not hashed.
WindowsNamesOK(v, files, policy) ==
  LET manifest == files["SOURCE-MANIFEST.json"] IN
  /\ Fits(files)
  /\ Required \cup Range(Generated) \subseteq DOMAIN files
  /\ files["TOOLCHAIN-STATIC-ARCHIVES-SHA256SUMS"] # "invalid"
  /\ manifest.target = "windows" /\ manifest.version = Version[v]
  /\ manifest.status = "approved" /\ manifest.image = policy.image
  /\ manifest.components = policy.components
  /\ DOMAIN manifest.hashes = SourcesOf(policy.components)

\* verify: an archive that is open from its first member to the last.
WindowsOK(v, files, policy) ==
  LET manifest == files["SOURCE-MANIFEST.json"] IN
  /\ Fits(files)
  /\ Required \cup Range(Generated) \subseteq DOMAIN files
  /\ files["TOOLCHAIN-STATIC-ARCHIVES-SHA256SUMS"] # "invalid"
  /\ manifest.target = "windows" /\ manifest.version = Version[v]
  /\ manifest.status = "approved" /\ manifest.image = policy.image
  /\ manifest.components = policy.components
  /\ ContribOK(files, SourcesOf(policy.components))

VerifyStart(v) ==
  /\ Settled("windows")
  /\ Begins(v, VerifierPolicy(Windows(policies)), "verify", "policy", Windows(policies))

VerifyArchive(v) ==
  Reads(v, "verify", Readable("windows") /\ WindowsOK(v, Files("windows"), read[v]["policy"]),
        "done", "archive", archive["windows"])

Verify(v) == VerifyStart(v) \/ VerifyArchive(v)

WindowsNext ==
  \/ Edit
  \/ \E p \in Packagers : Package(p)
  \/ \E v \in Verifiers : Verify(v)
  \/ \E p \in Processes : Kill(p)
WindowsSpec == Init /\ [][WindowsNext]_vars

-----------------------------------------------------------------------------
(* Properties *)

\* An archive that the Windows packager made and its verifier accepts is the one
\* it set out to make: a run that failed or was killed half-way leaves nothing
\* that passes for it.
AcceptedIsWhole ==
  \A v \in Verifiers : pc[v] = "done" =>
    LET a == Accepted(v) IN
    a.by \in Packagers => DOMAIN a.files = Range(WindowsOrder(a.by))

\* Wherever it comes from, an accepted archive holds the contrib sources of every
\* component its manifest lists, with the digests it states.
AcceptedIsConsistent ==
  \A v \in Verifiers : pc[v] = "done" =>
    LET files == Accepted(v).files manifest == files["SOURCE-MANIFEST.json"] IN
    \A c \in DOMAIN manifest.components :
      LET a == manifest.components[c].source IN a \in DOMAIN files /\ files[a] = manifest.hashes[a]

\* The two scripts agree: what was packaged from approved inputs, and nothing has
\* changed since, is not refused, but for limits that its packager has not.
RefusedOnlyIfUnreviewed ==
  \A v \in Verifiers : pc[v] = "failed" =>
    LET a == archive["windows"] IN
    Quiet(a) =>
      \/ Windows(policies).status # "approved" \/ Windows(policies).image # Toolchain
      \/ a.files["TOOLCHAIN-STATIC-ARCHIVES-SHA256SUMS"] = "invalid" \/ Version[v] # Version[a.by]
      \/ ~Fits(a.files)
=============================================================================
