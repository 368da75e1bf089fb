--------------------------- MODULE NdkSourceVerify ---------------------------
(* scripts/verify_android_ndk_source_archive.py beside the packager: it lists *)
(* the checkouts itself and compares the archive with what it has listed.     *)
EXTENDS NdkSourcePackage

CONSTANTS
  Fits(_),      \* an archive keeps to limits that only the verifier has
  MaxTampers    \* bound on changes to a published archive

VARIABLES accepted,   \* the archive each verifier has accepted
          calm,       \* the verifiers since whose start no one has moved a checkout
          tampers

verifyVars == <<vars, accepted, calm, tampers>>

\* The archive must be there to be verified.
VerifyStart(v) ==
  /\ Published
  /\ Goto(v, "new", TRUE, "policy")
  /\ calm' = calm \cup {v}
  /\ UNCHANGED <<world, own, partial, output, crashes, accepted, tampers>>

\* load_policy and the identity of the checkouts, as in the packager
VerifierPolicy(v) == LoadPolicy(v)
VerifyIdentity(v) == Identify(v)

\* expected_git_files: the files need not be there.
ExpectedGitFiles(v) == ListCheckout(v, TRUE, "check")

\* The manifest is the one expected, entry by entry, and pins the policy.
ManifestMatches(v, a) ==
  /\ a.manifest.policy = pol[v]
  /\ a.manifest.digest = policy
  /\ a.manifest.files = entries[v]

\* A mutant of MembersMatch: the members are those of the complete trees.
MembersOfTrees(v, a) ==
  /\ DOMAIN a.files = UNION {DOMAIN Tree[pol[v].revision[s]] : s \in Range(SourceIds)}
  /\ \A q \in DOMAIN a.files : a.files[q] = a.manifest.files[q]

\* The members are the listed files and no others, and each hashes to its blob.
MembersMatch(v, a) ==
  /\ DOMAIN a.files = DOMAIN a.manifest.files
  /\ \A q \in DOMAIN a.files : a.files[q] = a.manifest.files[q]

\* A mutant of Compare: the members are not hashed.
CompareNames(v) ==
  LET ok == /\ Fits(Archive) /\ ManifestMatches(v, Archive)
            /\ DOMAIN Archive.files = DOMAIN Archive.manifest.files IN
  /\ Goto(v, "check", ok, "done")
  /\ accepted' = [accepted EXCEPT ![v] = IF ok THEN Archive ELSE @]
  /\ UNCHANGED <<world, own, partial, output, crashes, calm, tampers>>

Compare(v) ==
  LET ok == Fits(Archive) /\ ManifestMatches(v, Archive) /\ MembersMatch(v, Archive) IN
  /\ Goto(v, "check", ok, "done")
  /\ accepted' = [accepted EXCEPT ![v] = IF ok THEN Archive ELSE @]
  /\ UNCHANGED <<world, own, partial, output, crashes, calm, tampers>>

Verify(v) ==
  \/ VerifyStart(v) \/ Compare(v)
  \/ /\ VerifierPolicy(v) \/ VerifyIdentity(v) \/ ExpectedGitFiles(v)
     /\ UNCHANGED <<accepted, calm, tampers>>

\* A retained archive changes: a member, or an entry of its manifest.
Tamper ==
  /\ Published /\ tampers < MaxTampers /\ tampers' = tampers + 1
  /\ \E q \in DOMAIN Archive.files, b \in Blobs \cup {None} :
       LET files == IF b = None THEN [x \in DOMAIN Archive.files \ {q} |-> Archive.files[x]]
                    ELSE [Archive.files EXCEPT ![q] = b] IN
       \/ image' = [image EXCEPT ![output].files = files]
       \/ image' = [image EXCEPT ![output].files = files, ![output].manifest.files = files]
  /\ UNCHANGED <<world, pc, pol, entries, done, value, partial, output, crashes, accepted, calm>>

Next ==
  \/ \E p \in Packagers : Package(p) /\ UNCHANGED <<accepted, calm, tampers>>
  \/ \E v \in Verifiers : Verify(v)
  \/ (Edit \/ \E p \in Processes : Kill(p)) /\ UNCHANGED <<accepted, calm, tampers>>
  \/ Move /\ calm' = {} /\ UNCHANGED <<accepted, tampers>>
  \/ Tamper

VerifyInit == Init /\ accepted = [v \in Verifiers |-> None] /\ calm = {} /\ tampers = 0
Spec == VerifyInit /\ [][Next]_verifyVars

-----------------------------------------------------------------------------
(* Properties *)

\* What docs/LICENSING.md says of the verifier, unless someone moves a checkout while
\* it runs: an accepted archive has exactly the files the policy selects of the pinned
\* trees, also when HEAD was moved between the two looks that its packager took.
AcceptedIsExact ==
  \A v \in calm : accepted[v] # None =>
    LET c == accepted[v].manifest.policy IN
    accepted[v].files =
      [q \in {q \in Paths : /\ q \in DOMAIN Tree[c.revision[q[1]]]
                            /\ Covered(q, c.selected)} |-> Tree[c.revision[q[1]]][q]]

\* An archive, as published, has the files its manifest lists and no others, among
\* them one for every path that the policy in the manifest selects or requires.  If
\* nothing has changed since its packager began, what docs/ANDROID.md says holds of
\* it too: their bytes are those recorded, of the revisions that the policy pins.
PublishedIsWhole ==
  Published /\ tampers = 0 =>
    LET manifest == Archive.manifest IN
    /\ DOMAIN Archive.files = DOMAIN manifest.files
    /\ \A prefix \in manifest.policy.selected \cup manifest.policy.required :
         \E q \in DOMAIN Archive.files : Below(q, prefix)
    /\ edits + moves = Archive.began => PublishedBytesAreRecorded /\ PublishedIsPinned

\* The two programs agree: an archive published since whose packager began nothing
\* has changed is not refused, but for limits the packager has not.
RefusedOnlyIfChanged ==
  \A v \in Verifiers : pc[v] = "failed" =>
    edits + moves > Archive.began \/ tampers > 0 \/ ~Fits(Archive)
=============================================================================
