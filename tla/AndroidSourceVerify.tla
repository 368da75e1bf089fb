------------------------- MODULE AndroidSourceVerify -------------------------
(***************************************************************************)
(* scripts/verify_android_corresponding_source_archive.py, beside the      *)
(* packagers of AndroidSourcePackage: it shares no code with them, reads    *)
(* the same inputs again and compares what it expects with the archive.    *)
(***************************************************************************)
EXTENDS AndroidSourcePackage

CONSTANT Fits(_)   \* an archive keeps to limits that only the verifier has

-----------------------------------------------------------------------------
(* What the verifier accepts *)

\* load_policies of the verifier.
VerifierPolicies(tree) ==
  LET policy == PolicyOf[tree] IN
  /\ policy.closed
  /\ policy.staticVlc = policy.pin["vlc"] /\ policy.recipe = policy.pin
  /\ Cardinality(DOMAIN policy.components) = Components
  /\ \A c \in DOMAIN policy.components : policy.components[c] # {}
  /\ Cardinality(UNION {policy.components[c] : c \in DOMAIN policy.components}) = ArchiveCount

\* expected_git_records: git_identity, and the listing.
PolicyIdentity(s, policy, revision, tree) ==
  /\ revision = (IF s = "kmediavlc" THEN Tested ELSE policy.pin[s])
  /\ s # "kmediavlc" => tree = policy.pin[s]
ExpectedGitRecords(s, policy, listed) ==
  /\ listed \in PlainTrees /\ PathsOf[listed] # {}
  /\ policy.required[s] \subseteq PathsOf[listed]

\* A mutant of LegalSourceIdentity: an automatic scan does not count.
LegalApprovedOnly(legal, policy) ==
  /\ legal.closed
  /\ legal.vlc = policy.staticVlc /\ legal.static = work["kmediavlc"]
  /\ IF legal.status = "approved" THEN legal.effective = "spdx" ELSE legal.effective = "none"
  /\ [i \in DOMAIN legal.audits |-> legal.audits[i].target] = Targets
  /\ LegalComponents(legal, policy)

\* legal_source_identity: an effective license must not be blank here.
LegalSourceIdentity(legal, policy) ==
  /\ legal.closed
  /\ legal.vlc = policy.staticVlc
  /\ legal.static = work["kmediavlc"]
  /\ IF Publishable(legal) THEN legal.effective = "spdx" ELSE legal.effective = "none"
  /\ legal.status = "scanned" => legal.scan
  /\ [i \in DOMAIN legal.audits |-> legal.audits[i].target] = Targets
  /\ LegalComponents(legal, policy)

\* checked_audit
CheckedAudit(t, legal, policy) ==
  /\ file[t] # None
  /\ file[t] = LegalAudit(legal, t)
  /\ file[t].closed /\ file[t].target = t
  /\ file[t].pin = policy.pin
  /\ file[t].static = work["kmediavlc"]

\* The manifest the inputs call for.
ExpectedManifest(facts, digests) ==
  [digest |-> facts["policy_digest"], files |-> digests, verified |-> facts["verified"],
   sources |-> [s \in Items(SourceIds) |-> facts[s]],
   required |-> PolicyOf[facts["policy"]].required,
   status |-> facts["legal"].status, effective |-> facts["legal"].effective]

\* The comparison of an archive with what is expected: the same members in the
\* same order, the exact manifest, and the bytes of every file.
Matches(archive, facts, digests) ==
  /\ DOMAIN archive = Items(Members)
  /\ archive["manifest"] = ExpectedManifest(facts, digests)
  /\ \A i \in Items(Inputs) : archive[i] = digests[i]
  /\ \A s \in Items(SourceIds) : archive[s] = facts[s].files

-----------------------------------------------------------------------------
(* verify() *)

VerifyStart(v) ==
  LET ok == output # None /\ VerifierPolicies(work["kmediavlc"]) IN
  /\ output # None
  /\ Goto(v, "new", ok, "v_git")
  /\ Learn(read, v, ok, "policy", work["kmediavlc"])
  /\ quiet' = quiet \cup {v}
  /\ UNCHANGED <<world, published, record, crashes>>

VerifyCommit(v) == Reads(v, "v_git", TRUE, "v_tree", "revision", head[Checkout(v)])

VerifyTree(v) ==
  LET s == Checkout(v) IN
  Reads(v, "v_tree", PolicyIdentity(s, PolicyRead(v), read[v]["revision"], head[s]),
        "v_status", "tree", head[s])

VerifyStatus(v) ==
  LET s == Checkout(v) IN
  /\ Goto(v, "v_status", work[s] = head[s], "v_list")
  /\ UNCHANGED <<world, published, read, record, crashes, quiet>>

\* git_object_values reads the blobs that were listed out of the object store.
VerifyListing(v) ==
  LET s == Checkout(v) IN
  Reads(v, "v_list", ExpectedGitRecords(s, PolicyRead(v), head[s]),
        Loop(SourceIds, read[v], s, "v_git", "v_legal"), s, Identity(read[v], head[s]))

VerifyLegal(v) ==
  Reads(v, "v_legal",
        file["legal"] # None /\ LegalSourceIdentity(file["legal"], PolicyRead(v)),
        "v_audit", "legal", file["legal"])

VerifyAudit(v) ==
  /\ pc[v] = "v_audit"
  /\ LET t == NextIn(Targets, read[v]) IN
     Reads(v, "v_audit", CheckedAudit(t, read[v]["legal"], PolicyRead(v)),
           Loop(Targets, read[v], t, "v_audit", "v_ndk"), t, file[t])

VerifyNdkAgain(v) ==
  Reads(v, "v_ndk", file["ndk"] \in ValidNdk, "v_contrib", "verified", file["ndk"])

\* A mutant of VerifyContrib: the legal manifest is not consulted.
VerifyContribUnpinned(v) ==
  /\ pc[v] = "v_contrib"
  /\ LET a == NextIn(Archives, record[v]) IN
     Digests(v, "v_contrib", TRUE, Loop(Archives, record[v], a, "v_contrib", "v_ndk_record"), a)

VerifyContrib(v) ==
  /\ pc[v] = "v_contrib"
  /\ LET a == NextIn(Archives, record[v]) IN
     Digests(v, "v_contrib", file[a] = LegalSource(read[v]["legal"], a),
             Loop(Archives, record[v], a, "v_contrib", "v_ndk_record"), a)

VerifyNdkRecord(v) ==
  Digests(v, "v_ndk_record", file["ndk"] = read[v]["verified"], "v_legal_record", "ndk")

VerifyLegalRecord(v) == Digests(v, "v_legal_record", TRUE, "v_audit_record", "legal")

VerifyAuditRecord(v) ==
  /\ pc[v] = "v_audit_record"
  /\ LET t == NextIn(Targets, record[v]) IN
     Digests(v, "v_audit_record", file[t] = LegalAudit(read[v]["legal"], t),
             Loop(Targets, record[v], t, "v_audit_record", "v_manifest"), t)

VerifyManifest(v) ==
  Reads(v, "v_manifest", TRUE, "v_compare", "policy_digest", work["kmediavlc"])

\* The archive is opened, found small enough and compared.
Compare(v) ==
  Reads(v, "v_compare", Fits(image[output]) /\ Matches(image[output], read[v], record[v]),
        "v_digest", "archive", image[output])

\* The digest that is printed is taken when the archive is closed.
ReportDigest(v) == Reads(v, "v_digest", TRUE, "done", "reported", image[output])

Verify(v) ==
  \/ VerifyStart(v) \/ VerifyCommit(v) \/ VerifyTree(v) \/ VerifyStatus(v) \/ VerifyListing(v)
  \/ VerifyLegal(v) \/ VerifyAudit(v)
  \/ VerifyNdkAgain(v) \/ VerifyContrib(v) \/ VerifyNdkRecord(v)
  \/ VerifyLegalRecord(v) \/ VerifyAuditRecord(v) \/ VerifyManifest(v)
  \/ Compare(v) \/ ReportDigest(v)

-----------------------------------------------------------------------------
Next ==
  \/ Edit
  \/ \E p \in Packagers : Package(p)
  \/ \E v \in Verifiers : Verify(v)
  \/ \E p \in Processes : Kill(p)

Spec == Init /\ [][Next]_vars

-----------------------------------------------------------------------------
(* Properties *)

Places ==
  {"new", "inspect", "tree", "status", "list", "legal", "audit", "ndk", "contrib", "ndk_record", "legal_record",
   "audit_record", "manifest", "check", "open", "write", "recheck", "rename",
   "v_git", "v_tree", "v_status", "v_list", "v_legal", "v_audit", "v_ndk", "v_contrib", "v_ndk_record", "v_legal_record",
   "v_audit_record", "v_manifest", "v_compare", "v_digest"} \cup Ended

\* The variables of the packagers and the verifiers keep their types: what is in an
\* archive is a record of a source or a manifest that lists such records.
TypeOK ==
  /\ \A s \in Items(SourceIds) : head[s] \in Trees[s] /\ work[s] \in Trees[s]
  /\ \A i \in Items(Inputs) : file[i] \in Candidates[i]
  /\ pc \in [Processes -> Places]
  /\ \A p \in Processes : DOMAIN record[p] \subseteq Items(Inputs)
  /\ \A p \in Packagers : DOMAIN image[p] \subseteq Items(Members)
  /\ partial \in Packagers \cup {None} /\ output \in Packagers \cup {None}
  /\ edits \in 0 .. MaxEdits /\ crashes \in 0 .. MaxCrashes /\ quiet \subseteq Processes

\* An archive that is what its own evidence says: the tested commit, the pinned
\* sources, and exactly the archives and audits its legal manifest names.
Consistent(archive) ==
  LET legal == archive["legal"] manifest == archive["manifest"] policy == PolicyOf[Tested] IN
  /\ DOMAIN archive = Items(Members)
  /\ manifest.digest = Tested /\ manifest.required = policy.required
  /\ archive["kmediavlc"] = Tested /\ \A s \in Items(Pinned) : archive[s] = policy.pin[s]
  /\ \A s \in Items(SourceIds) : LET m == manifest.sources[s] IN
       {m.revision, m.tree, m.files} = {archive[s]}
  /\ archive["ndk"] \in ValidNdk
  /\ \A a \in Items(Archives) : archive[a] = LegalSource(legal, a)
  /\ \A t \in Items(Targets) : archive[t] = LegalAudit(legal, t)
  /\ manifest.status = legal.status /\ manifest.effective = legal.effective

\* Whatever happened to the archive and its inputs before, one that is accepted
\* while nothing changes is consistent.
AcceptedIsConsistent ==
  \A v \in Verifiers : pc[v] = "done" /\ v \in quiet => Consistent(read[v]["archive"])

\* So is one that is published while nothing changes.
PublishedIsConsistent ==
  output # None /\ output \in quiet => Consistent(image[output])

\* The two scripts agree: what was packaged and never changed since is refused
\* for nothing but a blank effective license and limits the packager has not.
RefusedOnlyIfBlank ==
  \A v \in Verifiers :
    pc[v] = "failed" /\ output # None /\ output \in quiet =>
      image[output]["legal"].effective = "blank" \/ ~Fits(image[output])

\* The output is the whole archive its manifest lists, whoever fails or is
\* killed: it never shows a file that is still being written.
PublishedIsWhole ==
  output # None =>
    LET archive == image[output] IN
    /\ DOMAIN archive = Items(Members)
    /\ \A i \in Items(Inputs) : archive[i] = archive["manifest"].files[i]
    /\ \A s \in Items(SourceIds) : archive[s] = archive["manifest"].sources[s].files

\* A run that ended by itself leaves no partial file of its own behind.
NoPartialLeft == partial # None => pc[partial] \notin {"done", "failed"}

\* docs/ANDROID.md: the archive holds exactly the archives selected by the
\* legal manifest, and that legal manifest.  The packager reads it twice and does
\* not keep this; the verifier refuses the archive.
ArchivesAreSelected ==
  output # None =>
    \A a \in Items(Archives) : image[output][a] = LegalSource(image[output]["legal"], a)
=============================================================================
