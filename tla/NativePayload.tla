---------------------------- MODULE NativePayload ----------------------------
(***************************************************************************)
(* From the staged runtimes to the payload of the desktop JAR.  One job    *)
(* per target closes its staging directory with an inventory              *)
(* (create_posix_native_inventory.py, create_windows_native_inventory.py); *)
(* the Windows one travels as an archive (extract_windows_candidate.py);   *)
(* package_native_runtime_matrix.py packages all targets, each with        *)
(* package_native_runtime.py.                                              *)
(*                                                                         *)
(* A file is its content, and the digest of a content is the content: a    *)
(* record of bytes, of checksums (SHA256SUMS), or of an audit.             *)
(***************************************************************************)
EXTENDS Naturals, Sequences, FiniteSets, SequencesExt

CONSTANTS
  Targets,     \* REQUIRED_TARGETS, a sequence
  Archived,    \* the target that is archived and extracted
  Selected,    \* the files that the policies select for a runtime
  Runs,        \* runs of the matrix packager, on one output
  Stagings,    \* what the staging directory of each target may hold: name -> content
  Reports,     \* what the stager's report may say: status and files
  Bytes,       \* what a changed file may hold
  MaxEdits, MaxCrashes   \* bounds on changed inputs and killed processes

VARIABLES
  status,      \* reviewStatus of the policies
  allow,       \* --allow-audit-candidate of the inventories and the extraction
  staged, report, inventory,   \* of each target
  archive, unpacked,           \* the Windows candidate, and where it is extracted
  temporary,   \* of each run: the targets packaged so far
  output,      \* the matrix
  pc,
  read,        \* what each process has read: a report, an inventory, ...
  seen,        \* the files it has hashed, or extracted
  edits, crashes

inputs == <<status, allow, report, edits>>
products == <<staged, inventory, archive, unpacked, temporary, output>>
vars == <<inputs, products, pc, read, seen, crashes>>

Audit == "BINARY-COMPONENTS.json"
Sums == "SHA256SUMS"
Torn == [torn |-> TRUE]
Cut == [cut |-> TRUE]
Absent == [absent |-> TRUE]

Jobs == Range(Targets)
Posix == Jobs \ {Archived}
Extraction == "extraction"
Processes == Jobs \cup {Extraction} \cup Runs
Ended == {"done", "failed", "killed"}

Init ==
  /\ status \in {"approved", "pending"}
  /\ allow \in BOOLEAN
  /\ staged \in [Jobs -> UNION {Stagings[t] : t \in Jobs}]
  /\ \A t \in Jobs : staged[t] \in Stagings[t]
  /\ report \in [Posix -> Reports]
  /\ inventory = [t \in Jobs |-> Absent]
  /\ archive = Absent /\ unpacked = Absent
  /\ temporary = [r \in Runs |-> Absent] /\ output = Absent
  /\ pc = [p \in Processes |-> "new"]
  /\ read = [p \in Processes |-> Absent] /\ seen = [p \in Processes |-> <<>>]
  /\ edits = 0 /\ crashes = 0

Goto(p, at, ok, to) == pc[p] = at /\ pc' = [pc EXCEPT ![p] = IF ok THEN to ELSE "failed"]

\* A file written among others.
With(files, f, content) == [g \in DOMAIN files \cup {f} |-> IF g = f THEN content ELSE files[g]]

\* The next of the files that a process goes through, and whether it is the last.
NextFile(p, names) == CHOOSE f \in names : f \notin DOMAIN seen[p]
LastFile(p, names) == Cardinality(names \ DOMAIN seen[p]) = 1
See(p, f, content) == seen' = [seen EXCEPT ![p] = With(@, f, content)]

\* load_policies: what is not approved is let through as a candidate.
Permitted == status = "approved" \/ allow

\* The jobs of the targets share nothing, so one at a time is enough.
JobsIdle == \A t \in Jobs : pc[t] \in Ended \cup {"new"}

-----------------------------------------------------------------------------
(* create(), for a POSIX target *)

\* The policies, and the report that must be theirs.
BindReport(t) ==
  /\ JobsIdle
  /\ LET ok == /\ inventory[t] = Absent
               /\ Permitted
               /\ report[t].status = status /\ DOMAIN report[t].files # {}
     IN Goto(t, "new", ok, "hash")
  /\ read' = [read EXCEPT ![t] = report[t]]
  /\ seen' = [seen EXCEPT ![t] = <<>>]
  /\ UNCHANGED <<inputs, products, crashes>>

\* A mutant of HashReported: the file only has to be there.
HashUncompared(t) ==
  /\ pc[t] = "hash"
  /\ LET names == DOMAIN read[t].files
         f == NextFile(t, names) IN
     /\ Goto(t, "hash", f \in DOMAIN staged[t], IF LastFile(t, names) THEN "close" ELSE "hash")
     /\ See(t, f, read[t].files[f])
  /\ UNCHANGED <<inputs, products, read, crashes>>

\* Every file of the report is in the staging directory, as reported.
HashReported(t) ==
  /\ pc[t] = "hash"
  /\ LET names == DOMAIN read[t].files
         f == NextFile(t, names) IN
     /\ Goto(t, "hash", f \in DOMAIN staged[t] /\ staged[t][f] = read[t].files[f],
             IF LastFile(t, names) THEN "close" ELSE "hash")
     /\ See(t, f, read[t].files[f])
  /\ UNCHANGED <<inputs, products, read, crashes>>

\* A mutant of ClosePosix: other files are not noticed.
ClosePosixOpen(t) ==
  /\ Goto(t, "close", TRUE, "audit")
  /\ UNCHANGED <<inputs, products, read, seen, crashes>>

ClosePosix(t) ==
  /\ Goto(t, "close", DOMAIN staged[t] = DOMAIN seen[t], "audit")
  /\ UNCHANGED <<inputs, products, read, seen, crashes>>

\* The report is copied from its file, which is read once more.
CopyReport(t) ==
  /\ Goto(t, "fill", TRUE, "inventory")
  /\ staged' = [staged EXCEPT ![t] = With(@, Audit, report[t])]
  /\ UNCHANGED <<inputs, inventory, archive, unpacked, temporary, output, read, seen, crashes>>

-----------------------------------------------------------------------------
(* create(), for Windows *)

RequiredFiles == Selected \cup {Sums}

BindPolicies ==
  /\ JobsIdle
  /\ LET ok == /\ inventory[Archived] = Absent
               /\ Permitted
               /\ Audit \notin DOMAIN staged[Archived]
     IN Goto(Archived, "new", ok, "hash")
  /\ read' = [read EXCEPT ![Archived] = [status |-> status]]
  /\ seen' = [seen EXCEPT ![Archived] = <<>>]
  /\ UNCHANGED <<inputs, products, crashes>>

\* add(): every file of the policy is there, and hashed for the audit.
HashRequired ==
  /\ pc[Archived] = "hash"
  /\ LET f == NextFile(Archived, RequiredFiles)
         ok == f \in DOMAIN staged[Archived] IN
     /\ Goto(Archived, "hash", ok, IF LastFile(Archived, RequiredFiles) THEN "audit" ELSE "hash")
     /\ IF ok THEN See(Archived, f, staged[Archived][f]) ELSE UNCHANGED seen
  /\ UNCHANGED <<inputs, products, read, crashes>>

WriteAudit ==
  /\ Goto(Archived, "fill", TRUE, "close")
  /\ staged' = [staged EXCEPT ![Archived] =
                  With(@, Audit, [status |-> read[Archived].status, files |-> seen[Archived]])]
  /\ UNCHANGED <<inputs, inventory, archive, unpacked, temporary, output, read, seen, crashes>>

\* The set is closed after the audit was written into it.
CloseWindows ==
  /\ Goto(Archived, "close", DOMAIN staged[Archived] = DOMAIN seen[Archived] \cup {Audit}, "inventory")
  /\ UNCHANGED <<inputs, products, read, seen, crashes>>

-----------------------------------------------------------------------------
(* Both: the audit and the inventory are written straight to their places *)

OpenAudit(t) ==
  /\ Goto(t, "audit", TRUE, "fill")
  /\ staged' = [staged EXCEPT ![t] = With(@, Audit, Torn)]
  /\ UNCHANGED <<inputs, inventory, archive, unpacked, temporary, output, read, seen, crashes>>

\* open("w") creates the file; the disk may be full before it is written.
WriteInventory(t) ==
  /\ \/ Goto(t, "inventory", TRUE, "write")
        /\ inventory' = [inventory EXCEPT ![t] = Cut]
     \/ \E ok \in BOOLEAN :
          /\ Goto(t, "write", ok, "done")
          /\ inventory' = IF ok THEN [inventory EXCEPT ![t] = [files |-> DOMAIN seen[t] \cup {Audit}]]
                          ELSE inventory
  /\ UNCHANGED <<inputs, staged, archive, unpacked, temporary, output, read, seen, crashes>>

CreateInventory(t) ==
  \/ t \in Posix /\ (BindReport(t) \/ HashReported(t) \/ ClosePosix(t) \/ CopyReport(t))
  \/ t = Archived /\ (BindPolicies \/ HashRequired \/ WriteAudit \/ CloseWindows)
  \/ OpenAudit(t) \/ WriteInventory(t)

-----------------------------------------------------------------------------
(* extract(), after the workflow has archived the Windows candidate *)

Compress ==
  /\ pc[Archived] = "done" /\ archive = Absent
  /\ archive' = staged[Archived]
  /\ UNCHANGED <<inputs, staged, inventory, unpacked, temporary, output, pc, read, seen, crashes>>

\* The members are exactly the files of the inventory; then the output is made.
OpenCandidate ==
  /\ archive # Absent
  /\ LET ok == unpacked = Absent /\ DOMAIN archive = inventory[Archived].files IN
     /\ Goto(Extraction, "new", ok, "unpack")
     /\ unpacked' = IF ok THEN <<>> ELSE unpacked
  /\ read' = [read EXCEPT ![Extraction] = archive]
  /\ UNCHANGED <<inputs, staged, inventory, archive, temporary, output, seen, crashes>>

\* One member; a disk that is full ends the extraction, and nothing is removed.
Unpack ==
  /\ pc[Extraction] = "unpack"
  /\ LET names == DOMAIN read[Extraction]
         f == NextFile(Extraction, names) IN
     \E ok \in BOOLEAN :
       /\ Goto(Extraction, "unpack", ok, IF LastFile(Extraction, names) THEN "sums" ELSE "unpack")
       /\ unpacked' = With(unpacked, f, IF ok THEN read[Extraction][f] ELSE Torn)
       /\ See(Extraction, f, Torn)
  /\ UNCHANGED <<inputs, staged, inventory, archive, temporary, output, read, crashes>>

\* Whether a record of digests is exactly of some of the extracted files.
Describes(digests, names) ==
  /\ DOMAIN digests = names
  /\ \A f \in names : unpacked[f] = digests[f]

\* A mutant of VerifySums: the digests are not compared.
VerifySumsNames ==
  /\ Goto(Extraction, "sums", DOMAIN unpacked[Sums].sums = DOMAIN unpacked \ {Sums, Audit}, "verify")
  /\ UNCHANGED <<inputs, products, read, seen, crashes>>

\* verify_runtime_checksums
VerifySums ==
  /\ Goto(Extraction, "sums", Describes(unpacked[Sums].sums, DOMAIN unpacked \ {Sums, Audit}), "verify")
  /\ UNCHANGED <<inputs, products, read, seen, crashes>>

\* A mutant of VerifyAudit: the digests are not compared.
VerifyAuditNames ==
  /\ \E candidate \in {FALSE, allow} :
       Goto(Extraction, "verify", unpacked[Audit].status = "approved" \/ candidate, "done")
  /\ UNCHANGED <<inputs, products, read, seen, crashes>>

\* verify_component_audit; a release extracts without --allow-audit-candidate.
VerifyAudit ==
  /\ \E candidate \in {FALSE, allow} :
       LET ok == /\ unpacked[Audit].status = "approved" \/ candidate
                 /\ Describes(unpacked[Audit].files, DOMAIN unpacked \ {Audit})
       IN Goto(Extraction, "verify", ok, "done")
  /\ UNCHANGED <<inputs, products, read, seen, crashes>>

Extract == OpenCandidate \/ Unpack \/ VerifySums \/ VerifyAudit

-----------------------------------------------------------------------------
(* package_matrix(): what comes from the audit jobs is packaged together *)

StagingOf(t) == IF t = Archived THEN unpacked ELSE staged[t]
Current(r) == Targets[Cardinality(DOMAIN temporary[r]) + 1]

\* What a step inside the TemporaryDirectory block does: it goes on, or the
\* directory is removed and the run has failed.
Within(r, at, ok, to, packaged) ==
  /\ Goto(r, at, ok, to)
  /\ temporary' = [temporary EXCEPT ![r] = IF ok THEN packaged ELSE Absent]
Keep(r) == temporary[r]

\* The workflow packages what its audit jobs have completed.
StartMatrix(r) ==
  /\ \A p \in Jobs \cup {Extraction} : pc[p] = "done"
  /\ Goto(r, "new", output = Absent, "load")
  /\ temporary' = [temporary EXCEPT ![r] = IF output = Absent THEN <<>> ELSE Absent]
  /\ UNCHANGED <<inputs, staged, inventory, archive, unpacked, output, read, seen, crashes>>

\* A mutant of LoadTarget: the review is not asked for.
LoadUnreviewed(r) ==
  /\ pc[r] = "load"
  /\ Within(r, "load", TRUE, "validate", Keep(r))
  /\ read' = [read EXCEPT ![r] = inventory[Current(r)].files]
  /\ seen' = [seen EXCEPT ![r] = <<>>]
  /\ UNCHANGED <<inputs, staged, inventory, archive, unpacked, output, crashes>>

\* require_approved_platform_review: here candidates are refused.
Approved == status = "approved"

\* package(): the inventory, and policies that have been approved.
LoadTarget(r) ==
  /\ pc[r] = "load"
  /\ Within(r, "load", Approved, "validate", Keep(r))
  /\ read' = [read EXCEPT ![r] = inventory[Current(r)].files]
  /\ seen' = [seen EXCEPT ![r] = <<>>]
  /\ UNCHANGED <<inputs, staged, inventory, archive, unpacked, output, crashes>>

\* validate_inventory: each file is hashed for the manifest,
Validate(r) ==
  /\ pc[r] = "validate"
  /\ LET f == NextFile(r, read[r])
         ok == f \in DOMAIN StagingOf(Current(r)) IN
     /\ Within(r, "validate", ok, IF LastFile(r, read[r]) THEN "close" ELSE "validate", Keep(r))
     /\ IF ok THEN See(r, f, StagingOf(Current(r))[f]) ELSE UNCHANGED seen
  /\ UNCHANGED <<inputs, staged, inventory, archive, unpacked, output, read, crashes>>

\* and there are no others.  The runtime is identified by what was hashed.
CloseTarget(r) ==
  /\ pc[r] = "close"
  /\ Within(r, "close", DOMAIN StagingOf(Current(r)) = read[r], "copy", Keep(r))
  /\ read' = [read EXCEPT ![r] = [digests |-> seen[r]]]
  /\ seen' = [seen EXCEPT ![r] = <<>>]
  /\ UNCHANGED <<inputs, staged, inventory, archive, unpacked, output, crashes>>

\* Each file is read again as it is copied.
CopyFile(r) ==
  /\ pc[r] = "copy"
  /\ LET names == DOMAIN read[r].digests
         f == NextFile(r, names)
         ok == f \in DOMAIN StagingOf(Current(r)) IN
     /\ Within(r, "copy", ok, IF LastFile(r, names) THEN "manifest" ELSE "copy", Keep(r))
     /\ IF ok THEN See(r, f, StagingOf(Current(r))[f]) ELSE UNCHANGED seen
  /\ UNCHANGED <<inputs, staged, inventory, archive, unpacked, output, read, crashes>>

\* The files as they were copied, with the digests of the manifest.  The second
\* digest of macOS files, which leaves out the code signature, is not modelled.
Payload(r) == [files |-> seen[r], digests |-> read[r].digests]

WriteManifest(r) ==
  /\ pc[r] = "manifest"
  /\ LET t == Current(r) IN
     Within(r, "manifest", TRUE, IF t = Targets[Len(Targets)] THEN "mkdir" ELSE "load",
            With(Keep(r), t, Payload(r)))
  /\ UNCHANGED <<inputs, staged, inventory, archive, unpacked, output, read, seen, crashes>>

\* A mutant of MakeOutput: an output that is complete by now is replaced.
MakeOutputAnyway(r) ==
  /\ pc[r] = "mkdir"
  /\ LET ok == output = Absent \/ DOMAIN output = Jobs IN
     /\ Within(r, "mkdir", ok, "publish", Keep(r))
     /\ output' = IF ok THEN <<>> ELSE output
  /\ UNCHANGED <<inputs, staged, inventory, archive, unpacked, read, seen, crashes>>

\* mkdir refuses an output that another run has made meanwhile.
MakeOutput(r) ==
  /\ pc[r] = "mkdir"
  /\ Within(r, "mkdir", output = Absent, "publish", Keep(r))
  /\ output' = IF output = Absent THEN <<>> ELSE output
  /\ UNCHANGED <<inputs, staged, inventory, archive, unpacked, read, seen, crashes>>

\* A mutant of PublishTarget: a copy that has failed is not noticed.
PublishUnnoticed(r) ==
  /\ pc[r] = "publish"
  /\ LET t == Targets[Cardinality(DOMAIN output) + 1]
         last == t = Targets[Len(Targets)] IN
     \E ok \in BOOLEAN :
       /\ Goto(r, "publish", TRUE, IF last THEN "done" ELSE "publish")
       /\ output' = With(output, t, IF ok THEN temporary[r][t] ELSE Torn)
       /\ temporary' = IF last THEN [temporary EXCEPT ![r] = Absent] ELSE temporary
  /\ UNCHANGED <<inputs, staged, inventory, archive, unpacked, read, seen, crashes>>

\* copytree, one target after the other; it may fail, and the output stays.
PublishTarget(r) ==
  /\ pc[r] = "publish"
  /\ LET t == Targets[Cardinality(DOMAIN output) + 1]
         last == t = Targets[Len(Targets)] IN
     \E ok \in BOOLEAN :
       /\ Goto(r, "publish", ok, IF last THEN "done" ELSE "publish")
       /\ output' = With(output, t, IF ok THEN temporary[r][t] ELSE Torn)
       /\ temporary' = IF ok /\ ~last THEN temporary ELSE [temporary EXCEPT ![r] = Absent]
  /\ UNCHANGED <<inputs, staged, inventory, archive, unpacked, read, seen, crashes>>

PackageMatrix(r) ==
  \/ StartMatrix(r) \/ LoadTarget(r) \/ Validate(r) \/ CloseTarget(r) \/ CopyFile(r)
  \/ WriteManifest(r) \/ MakeOutput(r) \/ PublishTarget(r)

-----------------------------------------------------------------------------
(* The environment *)

\* A staged or archived file changes, a report, or the review of the policies.
\* What was extracted is the packaging job's own.
Edit ==
  /\ edits < MaxEdits /\ edits' = edits + 1
  /\ \/ \E t \in Jobs, f \in Selected, b \in Bytes :
          /\ f \in DOMAIN staged[t] /\ staged[t][f] # b
          /\ staged' = [staged EXCEPT ![t][f] = b] /\ UNCHANGED <<status, report, archive, unpacked>>
     \/ \E t \in Posix : \E d \in Reports \ {report[t]} :
          report' = [report EXCEPT ![t] = d] /\ UNCHANGED <<status, staged, archive, unpacked>>
     \/ archive # Absent /\ \E f \in Selected, b \in Bytes :
          /\ archive[f] # b /\ archive' = [archive EXCEPT ![f] = b]
          /\ UNCHANGED <<status, staged, report, unpacked>>
     \/ status' = (IF status = "approved" THEN "pending" ELSE "approved")
        /\ UNCHANGED <<staged, report, archive, unpacked>>
  /\ UNCHANGED <<allow, inventory, temporary, output, pc, read, seen, crashes>>

Kill(p) ==
  /\ pc[p] \notin Ended \cup {"new"} /\ crashes < MaxCrashes
  /\ pc' = [pc EXCEPT ![p] = "killed"] /\ crashes' = crashes + 1
  /\ UNCHANGED <<inputs, products, read, seen>>

\* What was killed is tried again, on what it has left.
Retry(p) ==
  /\ pc[p] = "killed" /\ pc' = [pc EXCEPT ![p] = "new"]
  /\ UNCHANGED <<inputs, products, read, seen, crashes>>

Next ==
  \/ \E t \in Jobs : CreateInventory(t)
  \/ Compress \/ Extract
  \/ \E r \in Runs : PackageMatrix(r)
  \/ Edit
  \/ \E p \in Processes : Kill(p) \/ Retry(p)
Spec == Init /\ [][Next]_vars

-----------------------------------------------------------------------------
(* Properties *)

Published == \E r \in Runs : pc[r] = "done"

\* An inventory that is complete lists exactly the files of its staging directory,
\* an audit that was written whole among them, whatever an earlier attempt that
\* was killed has left there.
InventoryIsClosed ==
  \A t \in Jobs : pc[t] = "done" =>
    DOMAIN staged[t] = inventory[t].files /\ staged[t][Audit] # Torn

\* If nothing was changed on the way, a published payload is, to the byte, what
\* the stager of each POSIX target has reported and what was staged for Windows;
\* its manifests have the digests of its files; and all of it has been approved.
PayloadIsReported ==
  Published /\ edits = 0 =>
    /\ \A t \in Posix : output[t].files = With(report[t].files, Audit, report[t])
    /\ output[Archived].files = staged[Archived]
    /\ \A t \in Jobs : output[t].digests = output[t].files /\ output[t].files[Audit].status = "approved"

\* Whatever was changed before the Windows candidate was extracted, its payload
\* agrees with the audit and the checksums it carries.
WindowsIsAudited ==
  Published =>
    LET files == output[Archived].files IN
    /\ files[Audit].files = [f \in DOMAIN files \ {Audit} |-> files[f]]
    /\ files[Sums].sums = [f \in DOMAIN files \ {Audit, Sums} |-> files[f]]

\* A published payload has every target, whole, with a manifest of exactly its files.
PayloadIsWhole ==
  Published =>
    /\ DOMAIN output = Jobs /\ Torn \notin Range(output)
    /\ \A t \in Jobs : DOMAIN output[t].files = DOMAIN output[t].digests /\ Selected \subseteq DOMAIN output[t].files

\* Of runs that overlap, all of which found the output free, one publishes.
OnePublisher == Cardinality({r \in Runs : pc[r] = "done"}) <= 1
=============================================================================
