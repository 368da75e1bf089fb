-------------------------- MODULE IosArchiveVerify ---------------------------
(* scripts/verify_ios_xcframework_archive.py beside the assembler: it compares *)
(* the extracted archive with itself and with the repository as that is now.   *)
EXTENDS IosAssembly

CONSTANTS
  Fits(_),      \* an archive keeps to limits that only the verifier has
  MaxTampers    \* bound on changes to a published archive

VARIABLES seen,       \* the archive each verifier has extracted
          tampers

verifyVars == <<vars, seen, tampers>>
rest == <<world, own, products, crashes, tampers>>

\* An archive is verified when its assembly is over.  safe_members looks at it first.
Extract(v) ==
  /\ AllEnded /\ archive \notin {None, <<>>}
  /\ Goto(v, "new", Fits(archive), "identity")
  /\ seen' = [seen EXCEPT ![v] = archive]
  /\ UNCHANGED rest

VerifyIdentity(v) ==
  /\ Goto(v, "identity", seen[v]["inventory"].candidate => allow[v], "verify_evidence")
  /\ UNCHANGED <<rest, seen>>

\* verify_evidence: the digests, the recipes and policies as they are now, and
\* the candidate state according to the archived reports.
VerifyEvidence(v) ==
  /\ pc[v] = "verify_evidence"
  /\ LET a == seen[v] IN
     Goto(v, "verify_evidence",
          /\ \A e \in Items(Evidence) : a[e] = a["inventory"].hashes[e]
          /\ a["recipes"] = root.recipes /\ a["policy"] = root.policy
          /\ \A t \in Items(Targets) : a[t].target = t
          /\ a["inventory"].candidate = \E t \in Items(Targets) : a[t].status # "approved",
          "verify_frameworks")
  /\ UNCHANGED <<rest, seen>>

\* A mutant of FrameworkOK: a slice is not compared with its report.
FrameworkOfInventory(a, f, t) ==
  a[f][t].binary = a["inventory"].frameworks[f][t] /\ Sound(f, t, a[f][t].binary)

\* verify_framework, for one slice of a framework
FrameworkOK(a, f, t) ==
  /\ f \in DOMAIN a[t].records
  /\ a["inventory"].frameworks[f][t] = a[t].records[f].binary
  /\ a[f][t] = a[t].records[f]
  /\ Sound(f, t, a[f][t].binary)

FrameworksIn(a) == DOMAIN a \ ({"inventory", "licenses"} \cup Items(Evidence))

\* The closure of the frameworks, against the policy as it is now.
VerifyFrameworks(v) ==
  /\ pc[v] = "verify_frameworks"
  /\ LET a == seen[v]
         names == DOMAIN a["inventory"].frameworks IN
     Goto(v, "verify_frameworks",
          /\ PolicyOK(root.policy) /\ names = Frameworks(root.policy) /\ FrameworksIn(a) = names
          /\ \A f \in names, t \in Items(Targets) : FrameworkOK(a, f, t),
          "verify_licenses")
  /\ UNCHANGED <<rest, seen>>

VerifyLicenses(v) ==
  /\ Goto(v, "verify_licenses", seen[v]["licenses"] = root.licenses, "verify_podspec")
  /\ UNCHANGED <<rest, seen>>

\* verify_podspec: the archive is hashed again.
VerifyPodspec(v) ==
  /\ Goto(v, "verify_podspec", podspec # None /\ podspec = archive, "done")
  /\ UNCHANGED <<rest, seen>>

Verify(v) ==
  \/ Extract(v) \/ VerifyIdentity(v) \/ VerifyEvidence(v) \/ VerifyFrameworks(v)
  \/ VerifyLicenses(v) \/ VerifyPodspec(v)

\* The retained archive gets another binary, in its inventory too, perhaps.
Tamper ==
  /\ archive \notin {None, <<>>} /\ tampers < MaxTampers /\ tampers' = tampers + 1
  /\ \E f \in FrameworksIn(archive), t \in Items(Targets), s \in Slices :
       f \in DOMAIN s /\
       \/ archive' = [archive EXCEPT ![f][t] = s[f]]
       \/ archive' = [archive EXCEPT ![f][t] = s[f], !["inventory"].frameworks[f][t] = s[f].binary]
  /\ UNCHANGED <<world, pc, own, output, podspec, crashes, seen>>

Next ==
  \/ \E p \in Assemblers : (Assemble(p) \/ Kill(p)) /\ UNCHANGED <<seen, tampers>>
  \/ \E v \in Verifiers : Verify(v)
  \/ Edit /\ UNCHANGED <<seen, tampers>>
  \/ Tamper

VerifyInit == Init /\ seen = [v \in Verifiers |-> <<>>] /\ tampers = 0
Spec == VerifyInit /\ [][Next]_verifyVars

-----------------------------------------------------------------------------
(* Properties *)

Accepted(v) == pc[v] = "done"

\* In an accepted archive every framework of either target loads there, and is
\* what the archived report of that target says was audited and built.
AcceptedIsReported ==
  \A v \in Verifiers : Accepted(v) =>
    \A f \in FrameworksIn(seen[v]), t \in Items(Targets) :
      /\ Sound(f, t, seen[v][f][t].binary)
      /\ f \in DOMAIN seen[v][t].records /\ seen[v][t].records[f] = seen[v][f][t]

\* Unless it was killed, a run leaves all three products, with a podspec that
\* pins the archive of the directory, or none and no temporary directory, so
\* that it can be tried again.
EndsCleanly ==
  AllEnded /\ crashes = 0 /\ tampers = 0 =>
    /\ archive = output /\ podspec = archive
    /\ \A p \in Assemblers : "temporary" \notin DOMAIN made[p]

\* Even after a kill, a podspec that was written whole pins the archive beside it.
PodspecPinsArchive == podspec \notin {None, <<>>} /\ tampers = 0 => podspec = archive

\* The two programs agree: a verifier with the opt-in refuses only an archive
\* that was changed, or one made or verified while the inputs changed, or one
\* whose assembly was killed, or one beyond limits that the assembler has not.
RefusedOnlyIfChanged ==
  \A v \in Verifiers : pc[v] = "failed" /\ allow[v] =>
                       edits > 0 \/ tampers > 0 \/ crashes > 0 \/ ~Fits(seen[v])

\* What docs/IOS.md says: the opt-in is required while a policy is pending.
PendingNeedsOptIn ==
  \A v \in Verifiers : Accepted(v) /\ seen[v]["policy"].status # "approved" => allow[v]
=============================================================================
