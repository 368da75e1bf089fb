---------------------------- MODULE ReleaseSource ----------------------------
(* scripts/package_release_corresponding_source.py, which packages two commits *)
(* and the contrib sources of a release, and                                   *)
(* scripts/verify_release_corresponding_source.py, which makes everything the  *)
(* archive should hold again and compares.  Both use the same operators,       *)
(* because the verifier imports the packager.                                  *)
EXTENDS SourceArchives

CONSTANTS
  Trees,       \* the files of the two commits: path -> bytes
  Target,      \* the target a process is told of: "desktop" or "ios"
  PoliciesOf   \* the policies of each target

\* In the order of their paths.
Generated == <<"SELECTED-CONTRIB-SHA256SUMS", "SOURCE-MANIFEST.json">>

\* required_archives: of the working tree, whatever the review says.
RequiredArchives(p) ==
  LET set == PoliciesOf[Target[p]] IN
  Reads(p, "policies", \A q \in set : policies[q].components # <<>>, "inputs", "required",
        UNION {SourcesOf(policies[q].components) : q \in set})

\* real_repository and what precedes it: the commits are there and the output is not.
PackageStart(p) ==
  Begins(p, archive["release"].state = "none", "policies", "commits", TRUE)

Holders(name) == {d \in Directories : name \in DOMAIN supplement[d]}
Copies(name) == {supplement[d][name] : d \in Holders(name)}

\* A mutant of SourceInputs: the first copy is taken, whatever the others are.
SourceInputsAny(p) ==
  LET required == read[p]["required"] IN
  Reads(p, "inputs", \A a \in required : Copies(a) # {}, "digest", "chosen",
        [a \in required |-> CHOOSE d \in Directories : a \in DOMAIN supplement[d]])

\* source_inputs: every required name is there, with the same bytes wherever it
\* is; the first file found stands for all.
SourceInputs(p) ==
  LET required == read[p]["required"] IN
  Reads(p, "inputs", \A a \in required : Cardinality(Copies(a)) = 1, "digest", "chosen",
        [a \in required |-> CHOOSE d \in Directories : a \in DOMAIN supplement[d]])

\* A file that was chosen may have changed or gone.
Still(p, a) == a \in DOMAIN supplement[read[p]["chosen"][a]]
Bytes(p, a) == supplement[read[p]["chosen"][a]][a]

\* The chosen files are read again for their digests.
Digest(p, next) ==
  LET ok == \A a \in read[p]["required"] : Still(p, a) IN
  Reads(p, "digest", ok, next, "hashes",
        IF ok THEN [a \in read[p]["required"] |-> Bytes(p, a)] ELSE <<>>)

Expected(p) ==
  [target |-> Target[p], version |-> Version[p], trees |-> Cardinality(DOMAIN Trees),
   hashes |-> read[p]["hashes"]]

ReleaseOrder(p) == InSomeOrder(DOMAIN Trees) \o InSomeOrder(read[p]["required"]) \o Generated

\* A mutant of ReleaseBytes: the manifest counts what is generated, too.
ReleaseBytesCounted(p, m) ==
  CASE m = "SOURCE-MANIFEST.json" -> [Expected(p) EXCEPT !.trees = @ + Len(Generated)]
    [] m = "SELECTED-CONTRIB-SHA256SUMS" -> read[p]["hashes"]
    [] m \in DOMAIN Trees -> Trees[m]
    [] OTHER -> Bytes(p, m)

\* A contrib source is read a third time as it is written.
ReleaseBytes(p, m) ==
  CASE m = "SOURCE-MANIFEST.json" -> Expected(p)
    [] m = "SELECTED-CONTRIB-SHA256SUMS" -> read[p]["hashes"]
    [] m \in DOMAIN Trees -> Trees[m]
    [] OTHER -> Bytes(p, m)

AddToRelease(p) ==
  LET order == ReleaseOrder(p)
      there == {m \in Range(order) : m \in read[p]["required"] => Still(p, m)} IN
  AddMember(p, "release", order, [m \in there |-> ReleaseBytes(p, m)])

Package(p) ==
  \/ PackageStart(p) \/ RequiredArchives(p) \/ SourceInputs(p) \/ Digest(p, "create")
  \/ Create(p, "release") \/ AddToRelease(p)

-----------------------------------------------------------------------------
(* The verifier *)

VerifyStart(v) ==
  /\ Settled("release")
  /\ Begins(v, TRUE, "policies", "commits", TRUE)

\* A mutant of ReleaseOK: more than is expected may be there.
ReleaseOverbroad(v, files) ==
  /\ DOMAIN Trees \cup read[v]["required"] \cup Range(Generated) \subseteq DOMAIN files
  /\ \A m \in DOMAIN Trees : files[m] = Trees[m]
  /\ \A a \in read[v]["required"] : files[a] = read[v]["hashes"][a]
  /\ files["SOURCE-MANIFEST.json"] = Expected(v)
  /\ files["SELECTED-CONTRIB-SHA256SUMS"] = read[v]["hashes"]

\* A mutant of ReleaseOK: the contrib sources are not hashed.
ReleaseByName(v, files) ==
  /\ DOMAIN files = DOMAIN Trees \cup read[v]["required"] \cup Range(Generated)
  /\ \A m \in DOMAIN Trees : files[m] = Trees[m]
  /\ files["SOURCE-MANIFEST.json"] = Expected(v)
  /\ files["SELECTED-CONTRIB-SHA256SUMS"] = read[v]["hashes"]

\* verify: the archive has exactly the members expected, with the bytes expected.
ReleaseOK(v, files) ==
  /\ DOMAIN files = DOMAIN Trees \cup read[v]["required"] \cup Range(Generated)
  /\ \A m \in DOMAIN Trees : files[m] = Trees[m]
  /\ \A a \in read[v]["required"] : files[a] = read[v]["hashes"][a]
  /\ files["SOURCE-MANIFEST.json"] = Expected(v)
  /\ files["SELECTED-CONTRIB-SHA256SUMS"] = read[v]["hashes"]

VerifyArchive(v) ==
  Reads(v, "verify", Readable("release") /\ ReleaseOK(v, Files("release")),
        "done", "archive", archive["release"])

Verify(v) ==
  \/ VerifyStart(v) \/ RequiredArchives(v) \/ SourceInputs(v) \/ Digest(v, "verify")
  \/ VerifyArchive(v)

ReleaseNext ==
  \/ Edit
  \/ \E p \in Packagers : Package(p)
  \/ \E v \in Verifiers : Verify(v)
  \/ \E p \in Processes : Kill(p)
ReleaseSpec == Init /\ [][ReleaseNext]_vars

-----------------------------------------------------------------------------
(* Properties *)

\* What is accepted while nothing changes holds the files of the two commits, a
\* source for every component of every policy of its target, the same as every
\* copy of it, and not another file: whoever made it, and whenever.
AcceptedIsExact ==
  \A v \in Verifiers : pc[v] = "done" /\ edits = began[v] =>
    LET files == Accepted(v).files
        names == UNION {SourcesOf(policies[q].components) : q \in PoliciesOf[Target[v]]} IN
    /\ DOMAIN files = DOMAIN Trees \cup names \cup Range(Generated)
    /\ \A m \in DOMAIN Trees : files[m] = Trees[m]
    /\ \A a \in names : Copies(a) = {files[a]}

\* Whatever changes while the packager and the verifier run, the contrib sources
\* of an accepted archive are what its own manifest and checksums say.
AcceptedIsConsistent ==
  \A v \in Verifiers : pc[v] = "done" =>
    LET files == Accepted(v).files IN
    \A a \in DOMAIN files \ (DOMAIN Trees \cup Range(Generated)) :
      /\ files["SOURCE-MANIFEST.json"].hashes[a] = files[a]
      /\ files["SELECTED-CONTRIB-SHA256SUMS"][a] = files[a]

\* The two scripts agree: what was packaged for the same version and target, and
\* nothing has changed since, is not refused.
RefusedOnlyIfChanged ==
  \A v \in Verifiers : pc[v] = "failed" =>
    LET a == archive["release"] IN
    ~(Quiet(a) /\ Version[v] = Version[a.by] /\ Target[v] = Target[a.by])
=============================================================================
