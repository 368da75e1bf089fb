---------------------------- MODULE IosAssembly -----------------------------
(***************************************************************************)
(* scripts/assemble_ios_xcframeworks.py: two staged slices with their      *)
(* reports become one directory of XCFrameworks with its evidence, one     *)
(* archive of it, and one podspec that pins the archive.  The inputs may   *)
(* change meanwhile, and a run may fail or be killed at any step.          *)
(*                                                                         *)
(* A file is its content, and the digest of a content is the content.      *)
(***************************************************************************)
EXTENDS Naturals, Sequences, FiniteSets

CONSTANTS
  Assemblers, Verifiers,
  None,
  Targets,      \* the two targets, a sequence
  Fixed,        \* FIXED_FRAMEWORKS
  Selected,     \* EXPECTED_SELECTED_PLUGIN_COUNT
  Roots,        \* what the repository may hold: policy, recipes, licenses
  Slices,       \* what a staged slice may hold: framework -> [binary, headers]
  Reports,      \* what the report of a slice may say
  Sound(_, _, _),   \* audit_macho: framework, target, binary
  MaxEdits, MaxCrashes

VARIABLES
  commit, root,    \* the repository as committed, and as it is
  slice, report,   \* the inputs of each target
  allow,           \* --allow-audit-candidate of each process
  pc,
  trusted,         \* the reports an assembler has verified, by target
  expected,        \* the frameworks it is to make
  made,            \* its temporary directory: frameworks, evidence, ...
  output, archive, podspec,   \* the three products
  edits, crashes

world == <<commit, root, slice, report, allow, edits>>
own == <<trusted, expected, made>>
products == <<output, archive, podspec>>
vars == <<commit, root, slice, report, allow, pc, trusted, expected, made,
          output, archive, podspec, edits, crashes>>

Items(seq) == {seq[i] : i \in DOMAIN seq}
Processes == Assemblers \cup Verifiers
Ended == {"done", "failed", "killed"}
Evidence == Targets \o <<"recipes", "policy">>

Init ==
  /\ commit \in Roots /\ root = commit
  /\ slice \in [Items(Targets) -> Slices] /\ report \in [Items(Targets) -> Reports]
  /\ allow \in [Processes -> BOOLEAN]
  /\ pc = [p \in Processes |-> "new"]
  /\ trusted = [p \in Processes |-> <<>>] /\ expected = [p \in Processes |-> {}]
  /\ made = [p \in Processes |-> <<>>]
  /\ output = None /\ archive = None /\ podspec = None
  /\ edits = 0 /\ crashes = 0

\* expected_frameworks
Frameworks(policy) == Fixed \cup policy.modules
PolicyOK(policy) == Cardinality(policy.modules) = Selected

\* verify_framework_tree: a framework is as the report says, and loads.
FrameworkTreeOK(f, t) ==
  report[t].records[f] = slice[t][f] /\ Sound(f, t, slice[t][f].binary)

\* verify_slice: the report is that of this target and these policies, and both
\* it and the slice have exactly the frameworks expected.
SliceOK(p, t) ==
  /\ report[t].target = t
  /\ report[t].status = root.policy.status /\ report[t].components = root.policy.components
  /\ allow[p] \/ report[t].status = "approved"
  /\ PolicyOK(root.policy)
  /\ DOMAIN report[t].records = Frameworks(root.policy)
  /\ DOMAIN slice[t] = Frameworks(root.policy)
  /\ \A f \in DOMAIN slice[t] : FrameworkTreeOK(f, t)

-----------------------------------------------------------------------------
(* assemble() *)

Goto(p, at, ok, to) == pc[p] = at /\ pc' = [pc EXCEPT ![p] = IF ok THEN to ELSE "failed"]

\* A step inside the try block: what raises goes to the handler.
Try(p, at, ok, to) == pc[p] = at /\ pc' = [pc EXCEPT ![p] = IF ok THEN to ELSE "handler"]

\* A map with one entry more, or another one.
With(map, name, value) == [n \in DOMAIN map \cup {name} |-> IF n = name THEN value ELSE map[n]]

\* The products are new, and the checkout is the commit, unmodified.
Start(p) ==
  /\ Goto(p, "new", output = None /\ archive = None /\ podspec = None /\ root = commit, "slice")
  /\ UNCHANGED <<world, own, products, crashes>>

VerifySlice(p) ==
  /\ pc[p] = "slice"
  /\ LET t == Targets[Cardinality(DOMAIN trusted[p]) + 1] IN
     /\ Goto(p, "slice", SliceOK(p, t), IF t = Targets[Len(Targets)] THEN "prepare" ELSE "slice")
     /\ trusted' = [trusted EXCEPT ![p] = With(@, t, report[t])]
  /\ UNCHANGED <<world, expected, made, products, crashes>>

\* The policy is read once more for what is to be made.
Prepare(p) ==
  /\ Goto(p, "prepare", PolicyOK(root.policy), "frameworks")
  /\ expected' = [expected EXCEPT ![p] = Frameworks(root.policy)]
  /\ made' = IF PolicyOK(root.policy) THEN [made EXCEPT ![p] = With(@, "temporary", TRUE)] ELSE made
  /\ UNCHANGED <<world, trusted, products, crashes>>

Put(p, name, content) == made' = [made EXCEPT ![p] = With(@, name, content)]
NextFramework(p) == CHOOSE f \in expected[p] \ DOMAIN made[p] : TRUE
LastMade(p) == CHOOSE f \in expected[p] : made[p]["latest"] = f

\* xcodebuild copies the framework of both slices, if both have it.
CreateXcframework(p) ==
  /\ pc[p] = "frameworks"
  /\ \E tool \in BOOLEAN :
       LET f == NextFramework(p)
           ok == tool /\ \A t \in Items(Targets) : f \in DOMAIN slice[t] IN
       /\ Try(p, "frameworks", ok, "compare")
       /\ made' = IF ok
                    THEN [made EXCEPT ![p] = With(With(@, f, [t \in Items(Targets) |-> slice[t][f]]),
                                                  "latest", f)] ELSE made
  /\ UNCHANGED <<world, trusted, expected, products, crashes>>

\* compare_framework_copies
SameCopy(p, f, t) == f \in DOMAIN slice[t] /\ made[p][f][t] = slice[t][f]

\* verify_xcframework: both copies are as their sources are now, and the
\* binaries are those of the reports.
CompareXcframework(p) ==
  /\ pc[p] = "compare"
  /\ LET f == LastMade(p)
         ok == \A t \in Items(Targets) :
                 /\ SameCopy(p, f, t)
                 /\ f \in DOMAIN trusted[p][t].records
                 /\ made[p][f][t].binary = trusted[p][t].records[f].binary IN
     Try(p, "compare", ok, IF expected[p] \subseteq DOMAIN made[p] THEN "evidence" ELSE "frameworks")
  /\ UNCHANGED <<world, own, products, crashes>>

\* What an evidence file holds now.
EvidenceNow(e) == IF e \in Items(Targets) THEN report[e] ELSE root[e]

\* The evidence is copied as it is now, one file after the other.
CopyEvidence(p) ==
  /\ pc[p] = "evidence"
  /\ LET e == Evidence[1 + Cardinality(Items(Evidence) \cap DOMAIN made[p])] IN
     /\ Try(p, "evidence", TRUE, IF e = "policy" THEN "inventory" ELSE "evidence")
     /\ Put(p, e, EvidenceNow(e))
  /\ UNCHANGED <<world, trusted, expected, products, crashes>>

\* A mutant of Inventory: it records the option, and not what was found.
InventoryOfOption(p) ==
  [frameworks |-> [f \in expected[p] |-> [t \in Items(Targets) |-> trusted[p][t].records[f].binary]],
   hashes |-> [e \in Items(Evidence) |-> made[p][e]],
   candidate |-> allow[p]]

\* The inventory: the binaries of the reports, the digests of the evidence
\* copied, and whether a verified report was a candidate.
Inventory(p) ==
  [frameworks |-> [f \in expected[p] |-> [t \in Items(Targets) |-> trusted[p][t].records[f].binary]],
   hashes |-> [e \in Items(Evidence) |-> made[p][e]],
   candidate |-> \E t \in Items(Targets) : trusted[p][t].status # "approved"]

WriteInventory(p) ==
  /\ Try(p, "inventory", TRUE, "licenses")
  /\ Put(p, "inventory", Inventory(p))
  /\ UNCHANGED <<world, trusted, expected, products, crashes>>

CopyLicenses(p) ==
  /\ Try(p, "licenses", TRUE, "publish")
  /\ Put(p, "licenses", root.licenses)
  /\ UNCHANGED <<world, trusted, expected, products, crashes>>

Content(m) == [n \in DOMAIN m \ {"temporary", "latest"} |-> m[n]]

\* rename fails on a directory that is not empty; after it there is nothing
\* left to remove.
Publish(p) ==
  /\ Try(p, "publish", output = None, "zip")
  /\ IF output = None
     THEN output' = Content(made[p]) /\ made' = [made EXCEPT ![p] = Content(@)]
     ELSE UNCHANGED <<output, made>>
  /\ UNCHANGED <<world, trusted, expected, archive, podspec, crashes>>

\* Mode "x" refuses an archive that is there.
Zip(p) ==
  /\ \E ok \in BOOLEAN :
       /\ Try(p, "zip", ok /\ archive = None, "podspec")
       /\ archive' = IF archive = None THEN IF ok THEN output ELSE <<>> ELSE archive
  /\ UNCHANGED <<world, own, output, podspec, crashes>>

\* A mutant of Podspec: the digest is that of the directory.
PodspecOfDirectory(p) ==
  /\ Try(p, "podspec", TRUE, "done")
  /\ podspec' = [n \in DOMAIN made[p] \ {"licenses"} |-> made[p][n]]
  /\ UNCHANGED <<world, own, output, archive, crashes>>

Podspec(p) ==
  /\ \E ok \in BOOLEAN : Try(p, "podspec", ok, "done") /\ podspec' = IF ok THEN archive ELSE <<>>
  /\ UNCHANGED <<world, own, output, archive, crashes>>

Remove(p, removed) ==
  /\ Try(p, "handler", TRUE, "failed")
  /\ made' = [made EXCEPT ![p] = Content(@)]
  /\ output' = IF "output" \in removed THEN None ELSE output
  /\ archive' = IF "archive" \in removed THEN None ELSE archive
  /\ podspec' = IF "podspec" \in removed THEN None ELSE podspec
  /\ UNCHANGED <<world, trusted, expected, crashes>>

\* A mutant of Handler: a podspec that was cut short stays.
HandlerKeepsPodspec(p) == Remove(p, {"output", "archive"})

\* The handler removes all three products, whoever has made them; finally, the
\* temporary directory goes.
Handler(p) == Remove(p, {"output", "archive", "podspec"})

Assemble(p) ==
  \/ Start(p) \/ VerifySlice(p) \/ Prepare(p) \/ CreateXcframework(p) \/ CompareXcframework(p)
  \/ CopyEvidence(p) \/ WriteInventory(p) \/ CopyLicenses(p) \/ Publish(p) \/ Zip(p)
  \/ Podspec(p) \/ Handler(p)

-----------------------------------------------------------------------------
(* The environment *)

\* A slice is staged again, its report is replaced, or the repository edited.
Edit ==
  /\ edits < MaxEdits /\ edits' = edits + 1
  /\ \/ \E t \in Items(Targets), s \in Slices : slice' = [slice EXCEPT ![t] = s] /\ UNCHANGED <<report, root>>
     \/ \E t \in Items(Targets), r \in Reports : report' = [report EXCEPT ![t] = r] /\ UNCHANGED <<slice, root>>
     \/ root' \in Roots /\ UNCHANGED <<slice, report>>
  /\ <<slice, report, root>>' # <<slice, report, root>>
  /\ UNCHANGED <<commit, allow, pc, own, products, crashes>>

Kill(p) ==
  /\ pc[p] \notin Ended \cup {"new"} /\ crashes < MaxCrashes
  /\ pc' = [pc EXCEPT ![p] = "killed"] /\ crashes' = crashes + 1
  /\ UNCHANGED <<world, own, products>>

AllEnded == \A p \in Assemblers : pc[p] \in Ended \cup {"new"}
=============================================================================
