---------------------------- MODULE DesktopSource ----------------------------
(* scripts/assemble_desktop_corresponding_source.py, which extends a Windows   *)
(* source archive with the contrib sources of the POSIX builds, and            *)
(* scripts/verify_desktop_corresponding_source_archive.py.                     *)
EXTENDS WindowsSource

Holders(name) == {d \in Directories : name \in DOMAIN supplement[d]}
Copies(name) == {supplement[d][name] : d \in Holders(name)}

\* load_policies, of both scripts: every platform approved, and no component
\* described in two ways.  A set of the components' records.
ApprovedPolicies(set) ==
  /\ \A q \in Platforms : set[q].closed /\ set[q].components # <<>> /\ set[q].status = "approved"
  /\ \A q, r \in Platforms : \A c \in DOMAIN set[q].components \cap DOMAIN set[r].components :
       set[q].components[c] = set[r].components[c]

Together(set) ==
  LET names == UNION {DOMAIN set[q].components : q \in Platforms} IN
  [c \in names |-> LET q == CHOOSE r \in Platforms : c \in DOMAIN set[r].components
                   IN set[q].components[c]]

-----------------------------------------------------------------------------
(* The assembler *)

AssembleStart(p) ==
  Begins(p, archive["windows"].state # "none" /\ archive["desktop"].state = "none"
              /\ VerifierPolicy(Windows(policies)), "base", "policy", Windows(policies))

\* A mutant of VerifyBase: the base is taken as it is.
TakeBase(p) == Reads(p, "base", Readable("windows"), "policies", "verified", TRUE)

\* The verifier of the Windows archive, on the base.
VerifyBase(p) ==
  Reads(p, "base", Readable("windows") /\ WindowsOK(p, Files("windows"), read[p]["policy"]),
        "policies", "verified", TRUE)

AssemblePolicies(p) ==
  Reads(p, "policies", ApprovedPolicies(policies), "supplements", "components", Together(policies))

\* checked_supplements: every name has the same bytes wherever it is, the ones
\* that no component needs among them.  It remembers where each is.
CheckSupplements(p) ==
  LET names == UNION {DOMAIN supplement[d] : d \in Directories} IN
  Reads(p, "supplements", \A name \in names : Cardinality(Copies(name)) = 1,
        "openbase", "places", [name \in names |-> Holders(name)])

Places(p, name) == IF name \in DOMAIN read[p]["places"] THEN read[p]["places"][name] ELSE {}

\* The file that stands for all of a name's: the first that was found.
FirstPlace(p, name) == CHOOSE d \in Places(p, name) : TRUE

\* The base is opened again, and is open from here to the end.
OpenBase(p) ==
  Reads(p, "openbase", Readable("windows"), "hash", "members", Files("windows"))

Needed(p) == SourcesOf(read[p]["components"])
FromBase(p, name) == name \in DOMAIN read[p]["members"] \ (RetainedFiles \cup Range(Generated))

SourceBytes(p, a) ==
  IF FromBase(p, a) THEN read[p]["members"][a] ELSE supplement[FirstPlace(p, a)][a]

\* Every source is in the base or in a directory, and its files are still there.
Present(p) ==
  \A a \in Needed(p) : /\ FromBase(p, a) \/ Places(p, a) # {}
                       /\ \A d \in Places(p, a) : a \in DOMAIN supplement[d]

\* A mutant of HashSources: copies are not compared.
HashAlone(p) ==
  Reads(p, "hash", Present(p), "digest", "hashes",
        IF Present(p) THEN [a \in Needed(p) |-> SourceBytes(p, a)] ELSE <<>>)

\* Each is hashed, and so is every copy of it, which must be the same.
HashSources(p) ==
  Reads(p, "hash",
        /\ Present(p)
        /\ \A a \in Needed(p) : \A d \in Places(p, a) : supplement[d][a] = SourceBytes(p, a),
        "digest", "hashes",
        IF Present(p) THEN [a \in Needed(p) |-> SourceBytes(p, a)] ELSE <<>>)

\* The base's digest, of what is now in its place.
DigestBase(p) == Reads(p, "digest", archive["windows"].state # "none", "create", "base", Files("windows"))

DesktopManifest(p) ==
  [target |-> "desktop", version |-> Version[p], components |-> read[p]["components"],
   hashes |-> read[p]["hashes"], base |-> read[p]["base"]]

\* A mutant of DesktopOrder: what is kept of the base is written last.
DesktopBaseLast(p) ==
  InSomeOrder(Needed(p)) \o Generated \o Sorted(DOMAIN read[p]["members"] \cap RetainedFiles)

\* What is kept of the base, then the contrib sources, then what is generated.
DesktopOrder(p) ==
  Sorted(DOMAIN read[p]["members"] \cap RetainedFiles) \o InSomeOrder(Needed(p)) \o Generated

\* A contrib source that is not the base's is read again as it is written.
DesktopThere(p, m) ==
  m \in Needed(p) /\ ~FromBase(p, m) => m \in DOMAIN supplement[FirstPlace(p, m)]

DesktopBytes(p, m) ==
  CASE m = "SOURCE-MANIFEST.json" -> DesktopManifest(p)
    [] m = "SELECTED-CONTRIB-SHA256SUMS" -> read[p]["hashes"]
    [] m \in RetainedFiles -> read[p]["members"][m]
    [] OTHER -> SourceBytes(p, m)

AddToDesktop(p) ==
  LET order == DesktopOrder(p) IN
  AddMember(p, "desktop", order,
            [m \in {n \in Range(order) : DesktopThere(p, n)} |-> DesktopBytes(p, m)])

Assemble(p) ==
  \/ AssembleStart(p) \/ VerifyBase(p) \/ AssemblePolicies(p) \/ CheckSupplements(p)
  \/ OpenBase(p) \/ HashSources(p) \/ DigestBase(p) \/ Create(p, "desktop") \/ AddToDesktop(p)

-----------------------------------------------------------------------------
(* The verifier *)

VerifyPolicies(v) ==
  /\ Settled("desktop")
  /\ Begins(v, ApprovedPolicies(policies), "desktop", "components", Together(policies))

\* It asks for no licenses of the toolchain, and for a base by the form of its
\* digest only.
DesktopOK(v, files, components) ==
  LET manifest == files["SOURCE-MANIFEST.json"] IN
  /\ Fits(files)
  /\ (Required \ {"toolchain-licenses"}) \cup Range(Generated) \subseteq DOMAIN files
  /\ manifest.target = "desktop" /\ manifest.version = Version[v]
  /\ manifest.components = components
  /\ ContribOK(files, SourcesOf(components))

VerifyDesktop(v) ==
  Reads(v, "desktop",
        Readable("desktop") /\ DesktopOK(v, Files("desktop"), read[v]["components"]),
        "done", "archive", archive["desktop"])

\* A base is in place; an assembler extends it, and a verifier looks at the result.
DesktopInit ==
  /\ \E files \in Retained :
       /\ policies \in PolicySets /\ candidate \in Candidates
       /\ supplement \in [Directories -> Contribs]
       /\ archive = [a \in Outputs |->
                       IF a = "windows" THEN [state |-> "whole", files |-> files, by |-> "nobody"]
                       ELSE [state |-> "none", files |-> <<>>, by |-> "nobody"]]
  /\ pc = [p \in Processes |-> "new"] /\ read = [p \in Processes |-> <<>>]
  /\ edits = 0 /\ crashes = 0 /\ began = [p \in Processes |-> 0]

DesktopNext ==
  \/ Edit
  \/ \E p \in Packagers : Assemble(p)
  \/ \E v \in Verifiers : VerifyPolicies(v) \/ VerifyDesktop(v)
  \/ \E p \in Processes : Kill(p)
DesktopSpec == DesktopInit /\ [][DesktopNext]_vars

-----------------------------------------------------------------------------
(* Properties *)

\* An archive that the assembler made and its verifier accepts is the one it set
\* out to make, although the verifier asks for less than half of it by name.
DesktopAcceptedIsWhole ==
  \A v \in Verifiers : pc[v] = "done" =>
    LET a == Accepted(v) IN
    a.by \in Packagers => DOMAIN a.files = Range(DesktopOrder(a.by))

\* If nothing has changed since it was begun, an accepted archive has the bytes
\* of every copy there is of each contrib source: the base's and those of each
\* directory.
CopiesAgree ==
  \A v \in Verifiers : pc[v] = "done" /\ Quiet(Accepted(v)) =>
    LET files == Accepted(v).files IN
    \A a \in SourcesOf(Accepted(v).files["SOURCE-MANIFEST.json"].components) :
      /\ Copies(a) \subseteq {files[a]}
      /\ a \in DOMAIN Files("windows") => Files("windows")[a] = files[a]

\* The two scripts agree: what was assembled, and nothing has changed since, is
\* not refused, but for limits that the assembler has not.
DesktopRefusedOnlyIfChanged ==
  \A v \in Verifiers : pc[v] = "failed" =>
    LET a == archive["desktop"] IN
    Quiet(a) => Version[v] # Version[a.by] \/ ~Fits(a.files)
=============================================================================
