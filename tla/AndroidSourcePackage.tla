------------------------ MODULE AndroidSourcePackage ------------------------
(***************************************************************************)
(* scripts/package_android_corresponding_source.py: the packager reads     *)
(* three Git checkouts and the external evidence of an Android build, one  *)
(* input after the other, while people and jobs may change them, and       *)
(* publishes one archive by renaming a partial file.  Several packagers    *)
(* may run on one output, and each may be killed.                          *)
(*                                                                         *)
(* A file is its content, and the digest of a content is the content.  A   *)
(* Git commit and its tree are one revision.                               *)
(***************************************************************************)
EXTENDS Naturals, Sequences, FiniteSets

CONSTANTS
  Packagers, Verifiers,
  None,           \* no file, or none that real_file and the size limits accept
  Pinned,         \* SOURCE_IDS after "kmediavlc"
  Targets,        \* AUDIT_TARGETS
  Archives,       \* the contrib archives, sorted
  Tested,         \* the tested commit of KMediaVlc
  Trees,          \* the revisions of each checkout
  PlainTrees,     \* the revisions that hold nothing but regular files
  PathsOf,        \* the tracked paths of a revision
  EpochOf,        \* the timestamp of a KMediaVlc commit
  PolicyOf,       \* the three policy files of a KMediaVlc tree
  Components, ArchiveCount,   \* the counts the scripts insist on
  Candidates,     \* what each external input may hold
  ValidNdk,       \* the NDK source archives their own verifier accepts
  MaxEdits, MaxCrashes        \* bounds on changed inputs and killed runs

Items(seq) == {seq[i] : i \in DOMAIN seq}
SourceIds == <<"kmediavlc">> \o Pinned
Inputs == Archives \o <<"ndk", "legal">> \o Targets
Processes == Packagers \cup Verifiers

\* The members of an archive in the order of their paths.
Members == <<"manifest", "legal">> \o Targets \o <<"ndk">> \o SourceIds \o Archives

VARIABLES
  head, work,   \* the commit of each checkout, and the tree in its directory
  file,         \* the external inputs
  pc,           \* where each process is
  read,         \* what each process has read and relies on, by name
  record,       \* the digests each process has taken of the external inputs
  image,        \* the archive each packager has written, by member
  partial, output,   \* whose archive the two names lead to
  edits, crashes, quiet   \* changes so far; processes started after the last one

world == <<head, work, file, edits>>
published == <<image, partial, output>>
vars == <<head, work, file, pc, read, record, image, partial, output, edits, crashes, quiet>>

Ended == {"done", "failed", "killed"}

Init ==
  /\ head \in [Items(SourceIds) -> UNION {Trees[s] : s \in DOMAIN Trees}]
  /\ \A s \in DOMAIN head : head[s] \in Trees[s]
  /\ work = head
  /\ file \in [Items(Inputs) -> UNION {Candidates[i] : i \in DOMAIN Candidates}]
  /\ \A i \in DOMAIN file : file[i] \in Candidates[i]
  /\ pc = [p \in Processes |-> "new"]
  /\ read = [p \in Processes |-> <<>>] /\ record = read
  /\ image = [p \in Packagers |-> <<>>]
  /\ partial = None /\ output = None
  /\ edits = 0 /\ crashes = 0 /\ quiet = {}

-----------------------------------------------------------------------------
(* Control shared by both scripts: one step reads some inputs, then the     *)
(* script goes on or raises.                                                *)

\* A map with one entry more, or another one.
With(map, name, value) == [n \in DOMAIN map \cup {name} |-> IF n = name THEN value ELSE map[n]]

\* The first element of a sequence that a partial function lacks.
Lacks(seq, map) == \E i \in DOMAIN seq : seq[i] \notin DOMAIN map
NextIn(seq, map) ==
  seq[CHOOSE i \in DOMAIN seq :
        seq[i] \notin DOMAIN map /\ \A j \in 1 .. i - 1 : seq[j] \in DOMAIN map]

Goto(p, at, ok, to) == pc[p] = at /\ pc' = [pc EXCEPT ![p] = IF ok THEN to ELSE "failed"]
Learn(map, p, ok, name, value) ==
  map' = IF ok THEN [map EXCEPT ![p] = With(@, name, value)] ELSE map

\* After an element of a loop: the loop again while it lacks another one.
Loop(seq, map, name, at, to) == IF Lacks(seq, With(map, name, None)) THEN at ELSE to

\* A step that learns one named fact.
Reads(p, at, ok, to, name, value) ==
  /\ Goto(p, at, ok, to)
  /\ Learn(read, p, ok, name, value)
  /\ UNCHANGED <<world, published, record, crashes, quiet>>

\* A step that takes the digest of one external input.
Digests(p, at, ok, to, i) ==
  /\ Goto(p, at, ok /\ file[i] # None, to)
  /\ Learn(record, p, ok /\ file[i] # None, i, file[i])
  /\ UNCHANGED <<world, published, read, crashes, quiet>>

-----------------------------------------------------------------------------
(* What the packager accepts *)

\* load_policies: the literal parts, the pins all three files repeat, and a
\* component map of the right size.
LoadPolicies(tree) ==
  LET policy == PolicyOf[tree] IN
  /\ policy.closed
  /\ policy.staticVlc = policy.pin["vlc"]
  /\ policy.recipe = policy.pin
  /\ Cardinality(DOMAIN policy.components) = Components
  /\ \A c \in DOMAIN policy.components : policy.components[c] # {}
  /\ Cardinality(UNION {policy.components[c] : c \in DOMAIN policy.components}) = ArchiveCount

\* inspect_checkout.  The commit and the tree that Git has named must be the pinned
\* ones (the tree of KMediaVlc is not pinned), the listing must be of plain files,
\* with every required path.
RightIdentity(s, policy, revision, tree) ==
  /\ revision = (IF s = "kmediavlc" THEN Tested ELSE policy.pin[s])
  /\ s # "kmediavlc" => tree = policy.pin[s]
RightListing(s, policy, listed) ==
  /\ listed \in PlainTrees
  /\ PathsOf[listed] # {} /\ policy.required[s] \subseteq PathsOf[listed]

Publishable(legal) == legal.status \in {"scanned", "approved"}

\* The digest a legal manifest gives an archive, and the audit of a target.
LegalSource(legal, a) ==
  (CHOOSE e \in UNION {legal.sources[c] : c \in DOMAIN legal.sources} : e.name = a).sha256
LegalAudit(legal, t) ==
  legal.audits[CHOOSE i \in DOMAIN legal.audits : legal.audits[i].target = t].report

\* Each contrib component lists the archives the static policy gives it, and
\* components that share an archive agree on it.
LegalComponents(legal, policy) ==
  /\ DOMAIN legal.sources = DOMAIN policy.components
  /\ \A c \in DOMAIN legal.sources :
       /\ {e.name : e \in legal.sources[c]} = policy.components[c]
       /\ Cardinality(legal.sources[c]) = Cardinality(policy.components[c])
       /\ \A d \in DOMAIN legal.sources, e \in legal.sources[c] :
            \A f \in legal.sources[d] : e.name = f.name => e = f

\* load_legal_manifest
LoadLegalManifest(legal, policy) ==
  /\ legal.closed
  /\ legal.vlc = policy.staticVlc
  /\ legal.static = work["kmediavlc"]
  /\ Publishable(legal) <=> legal.effective # "none"
  /\ legal.status = "scanned" => legal.scan
  /\ [i \in DOMAIN legal.audits |-> legal.audits[i].target] = Targets
  /\ LegalComponents(legal, policy)

\* validate_audit: the report the legal manifest names, about these sources.
ValidateAudit(t, legal, policy) ==
  /\ file[t] # None
  /\ file[t] = LegalAudit(legal, t)
  /\ file[t].closed /\ file[t].target = t
  /\ file[t].pin = policy.pin
  /\ file[t].static = work["kmediavlc"]

\* The manifest of the archive.
Manifest(facts, digests) ==
  [digest |-> facts["policy_digest"], files |-> digests, verified |-> facts["verified"],
   sources |-> [s \in Items(SourceIds) |-> facts[s]],
   required |-> PolicyOf[facts["policy"]].required,
   status |-> facts["legal"].status, effective |-> facts["legal"].effective]

-----------------------------------------------------------------------------
(* package() *)

PolicyRead(p) == PolicyOf[read[p]["policy"]]

\* The output is new, the policies hold together, the epoch is the commit's.
Start(p) ==
  LET ok == output = None /\ LoadPolicies(work["kmediavlc"])
            /\ EpochOf[head["kmediavlc"]] = EpochOf[Tested] IN
  /\ Goto(p, "new", ok, "inspect")
  /\ Learn(read, p, ok, "policy", work["kmediavlc"])
  /\ quiet' = quiet \cup {p}
  /\ UNCHANGED <<world, published, record, crashes>>

\* The checkout in the hands of inspect_checkout.  It asks Git four times about HEAD,
\* which may have moved in between.
Checkout(p) == NextIn(SourceIds, read[p])

InspectCommit(p) == Reads(p, "inspect", TRUE, "tree", "revision", head[Checkout(p)])

InspectTree(p) ==
  LET s == Checkout(p) IN
  Reads(p, "tree", RightIdentity(s, PolicyRead(p), read[p]["revision"], head[s]),
        "status", "tree", head[s])

InspectStatus(p) ==
  LET s == Checkout(p) IN
  /\ Goto(p, "status", work[s] = head[s], "list")
  /\ UNCHANGED <<world, published, read, record, crashes, quiet>>

\* A source is the identity and the blobs that were listed.
Identity(facts, listed) ==
  [revision |-> facts["revision"], tree |-> facts["tree"], files |-> listed]

InspectListing(p) ==
  LET s == Checkout(p) IN
  Reads(p, "list", RightListing(s, PolicyRead(p), head[s]),
        Loop(SourceIds, read[p], s, "inspect", "legal"), s, Identity(read[p], head[s]))

ReadLegal(p) ==
  Reads(p, "legal", file["legal"] # None /\ LoadLegalManifest(file["legal"], PolicyRead(p)),
        "audit", "legal", file["legal"])

ReadAudit(p) ==
  /\ pc[p] = "audit"
  /\ LET t == NextIn(Targets, read[p]) IN
     Reads(p, "audit", ValidateAudit(t, read[p]["legal"], PolicyRead(p)),
           Loop(Targets, read[p], t, "audit", "ndk"), t, file[t])

\* The verifier of the NDK source archive says which digest it has seen.
VerifyNdk(p) == Reads(p, "ndk", file["ndk"] \in ValidNdk, "contrib", "verified", file["ndk"])

\* A mutant of ContribRecord: the legal manifest is not consulted.
ContribRecordUnchecked(p) ==
  /\ pc[p] = "contrib"
  /\ LET a == NextIn(Archives, record[p]) IN
     Digests(p, "contrib", TRUE, Loop(Archives, record[p], a, "contrib", "ndk_record"), a)

ContribRecord(p) ==
  /\ pc[p] = "contrib"
  /\ LET a == NextIn(Archives, record[p]) IN
     Digests(p, "contrib", file[a] = LegalSource(read[p]["legal"], a),
             Loop(Archives, record[p], a, "contrib", "ndk_record"), a)

NdkRecord(p) ==
  Digests(p, "ndk_record", file["ndk"] = read[p]["verified"], "legal_record", "ndk")

\* The legal manifest is not compared with the one that was read.
LegalRecord(p) == Digests(p, "legal_record", TRUE, "audit_record", "legal")

AuditRecord(p) ==
  /\ pc[p] = "audit_record"
  /\ LET t == NextIn(Targets, record[p]) IN
     Digests(p, "audit_record", file[t] = LegalAudit(read[p]["legal"], t),
             Loop(Targets, record[p], t, "audit_record", "manifest"), t)

\* A mutant of MakeManifest: a policy file joins the inventory.
ManifestListsPolicy(p) ==
  /\ Goto(p, "manifest", TRUE, "check")
  /\ Learn(record, p, TRUE, "policy_digest", work["kmediavlc"])
  /\ UNCHANGED <<world, published, read, crashes, quiet>>

\* The digests of the policy files are taken last.
MakeManifest(p) ==
  Reads(p, "manifest", TRUE, "check", "policy_digest", work["kmediavlc"])

CheckPartial(p) ==
  /\ Goto(p, "check", partial = None, "open")
  /\ UNCHANGED <<world, published, read, record, crashes, quiet>>

\* Mode "xb" refuses a file that is there; the exception handler then unlinks
\* whatever has that name.
OpenPartial(p) ==
  /\ Goto(p, "open", partial = None, "write")
  /\ partial' = IF partial = None THEN p ELSE None
  /\ UNCHANGED <<world, read, record, image, output, crashes, quiet>>

\* git_blob_values: the blobs that were listed, out of the object store, whatever
\* the directory holds by then.
GitBlobValues(p, s) == read[p][s].files

\* The bytes of a member, read again for an external input.
Bytes(p, m) ==
  IF m = "manifest" THEN Manifest(read[p], record[p])
  ELSE IF m \in Items(SourceIds) THEN GitBlobValues(p, m) ELSE file[m]

\* Mutants of AddFile: external bytes are not compared with their record; the
\* partial file of a run that fails is left.
AddFileUnchecked(p) ==
  /\ pc[p] = "write"
  /\ LET m == NextIn(Members, image[p]) IN
     /\ Goto(p, "write", TRUE, Loop(Members, image[p], m, "write", "recheck"))
     /\ Learn(image, p, TRUE, m, Bytes(p, m))
     /\ UNCHANGED <<world, read, record, partial, output, crashes, quiet>>

AddFileLeaving(p) ==
  /\ pc[p] = "write"
  /\ LET m == NextIn(Members, image[p])
         ok == m \in Items(Inputs) => file[m] = record[p][m] IN
     /\ Goto(p, "write", ok, Loop(Members, image[p], m, "write", "recheck"))
     /\ Learn(image, p, ok, m, Bytes(p, m))
     /\ UNCHANGED <<world, read, record, partial, output, crashes, quiet>>

\* One member, in the order of the paths; an input that has changed since its
\* record ends the run, which removes the partial file.
AddFile(p) ==
  /\ pc[p] = "write"
  /\ LET m == NextIn(Members, image[p])
         ok == m \in Items(Inputs) => file[m] = record[p][m] IN
     /\ Goto(p, "write", ok, Loop(Members, image[p], m, "write", "recheck"))
     /\ Learn(image, p, ok, m, Bytes(p, m))
     /\ partial' = IF ok THEN partial ELSE None
     /\ UNCHANGED <<world, read, record, output, crashes, quiet>>

\* Every checkout is still at the commit that was packaged, and unmodified.
Recheck(p) ==
  LET ok == \A s \in Items(SourceIds) :
              head[s] = read[p][s].revision /\ head[s] = read[p][s].tree /\ work[s] = head[s] IN
  /\ Goto(p, "recheck", ok, "rename")
  /\ partial' = IF ok THEN partial ELSE None
  /\ UNCHANGED <<world, read, record, image, output, crashes, quiet>>

\* The name moves whatever partial file is there, and replaces any output.
Rename(p) ==
  /\ Goto(p, "rename", partial # None, "done")
  /\ output' = IF partial # None THEN partial ELSE output
  /\ partial' = None
  /\ UNCHANGED <<world, read, record, image, crashes, quiet>>

Package(p) ==
  \/ Start(p) \/ InspectCommit(p) \/ InspectTree(p) \/ InspectStatus(p) \/ InspectListing(p)
  \/ ReadLegal(p) \/ ReadAudit(p) \/ VerifyNdk(p)
  \/ ContribRecord(p) \/ NdkRecord(p) \/ LegalRecord(p) \/ AuditRecord(p) \/ MakeManifest(p)
  \/ CheckPartial(p) \/ OpenPartial(p) \/ AddFile(p) \/ Recheck(p) \/ Rename(p)

-----------------------------------------------------------------------------
(* The environment *)

\* Someone replaces one input, edits a checkout, or checks out another commit.
Edit ==
  /\ edits < MaxEdits /\ edits' = edits + 1
  /\ quiet' = {}
  /\ \/ \E i \in DOMAIN file : \E c \in Candidates[i] \ {file[i]} :
          file' = [file EXCEPT ![i] = c] /\ UNCHANGED <<head, work>>
     \/ \E s \in DOMAIN head : \E r \in Trees[s] :
          /\ work' = [work EXCEPT ![s] = r]
          /\ \E h \in {head[s], r} : head' = [head EXCEPT ![s] = h]
          /\ <<head, work>>' # <<head, work>>
          /\ UNCHANGED file
  /\ UNCHANGED <<pc, read, record, published, crashes>>

\* A killed run runs no handler: a partial file stays.
Kill(p) ==
  /\ pc[p] \notin Ended \cup {"new"} /\ crashes < MaxCrashes
  /\ pc' = [pc EXCEPT ![p] = "killed"]
  /\ crashes' = crashes + 1
  /\ UNCHANGED <<world, read, record, published, quiet>>
=============================================================================
