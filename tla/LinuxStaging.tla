----------------------------- MODULE LinuxStaging ----------------------------
(* scripts/stage_vlc_linux_runtime.py *)
EXTENDS Staging, Integers

CONSTANTS
  MinRaw, MaxRaw,   \* bounds on the plugins of the install tree
  SystemLibraries   \* what the host of a player has

\* The dynamic linker's view: support libraries, libvlc and libvlccore are in
\* bin, where the run path of every file leads.
InBin(n) == n \in {"libvlc", "core", "bridge"} \cup DOMAIN policy.support

Count(seq, n) == Cardinality({i \in DOMAIN seq : seq[i] = n})

\* The support libraries a plugin must need.
Required(f) == {s \in DOMAIN policy.support : f \in policy.support[s]}

\* A mutant of LoadPolicy: a component nothing refers to is not noticed.
LoadPolicyWithUnused(r) ==
  /\ policy.closed /\ Reviewed(r)
  /\ DOMAIN policy.moduleComponents \subseteq policy.modules
  /\ policy.core \cup UNION {policy.moduleComponents[m] : m \in DOMAIN policy.moduleComponents}
       \subseteq policy.components

\* load_policy: the literal parts, and what the two policies say of each other.
LoadPolicy(r) ==
  /\ policy.closed
  /\ Reviewed(r)
  /\ policy.additional \subseteq policy.modules
  /\ policy.binaryAdditional = policy.additional
  /\ DOMAIN policy.moduleComponents \subseteq policy.modules
  /\ \A s \in DOMAIN policy.support :
       policy.support[s] # {} /\ policy.support[s] \subseteq policy.modules
  /\ policy.core \cup UNION {policy.moduleComponents[m] : m \in DOMAIN policy.moduleComponents}
       = policy.components

\* relocate_elf: strip, then patchelf sets the name and the run path.
RunPath(f) == IF RoleOf(f) = "PLUGIN" THEN "../../../bin" ELSE "."
RelocateElf(f, b) == [b EXCEPT !.name = f, !.path = RunPath(f)]

\* version_at_most: dotted versions, the shorter one padded with zeros.
VersionAtMost(actual, ceiling) ==
  LET part(v, i) == IF i <= Len(v) THEN v[i] ELSE 0
      width == IF Len(actual) > Len(ceiling) THEN Len(actual) ELSE Len(ceiling) IN
  \A i \in 1 .. width :
    part(actual, i) > part(ceiling, i) =>
      \E j \in 1 .. i - 1 : part(actual, j) < part(ceiling, j)

\* A mutant of AuditElf: other libraries a file needs are not looked at.
AuditElfOpen(f, b) ==
  /\ b.sound /\ b.name = f /\ b.path = RunPath(f)
  /\ \A s \in Required(f) : Count(b.needs, s) = 1
  /\ b.glibc # <<>> => VersionAtMost(b.glibc, policy.ceiling)

\* audit_elf
AuditElf(f, b) ==
  /\ b.sound /\ b.name = f /\ b.path = RunPath(f)
  /\ RoleOf(f) \in {"LIBVLC", "SUPPORT"} => Count(b.needs, "core") = 1
  /\ RoleOf(f) = "PLUGIN" => Count(b.needs, "core") <= 1
  /\ RoleOf(f) \in {"CORE", "BRIDGE"} => Count(b.needs, "core") = 0
  /\ \A s \in Required(f) : Count(b.needs, s) = 1
  /\ \A n \in Range(b.needs) : n = "core" \/ n \in Required(f) \/ n \in policy.system
  /\ b.glibc # <<>> => VersionAtMost(b.glibc, policy.ceiling)

-----------------------------------------------------------------------------
(* main() *)

Start(r) ==
  /\ Alone(r)
  /\ Goto(r, "new", staged = <<>> /\ report.state = "none" /\ LoadPolicy(r), "copy")
  /\ UNCHANGED <<inputs, staged, listed, audited, report, crashes>>

StageFile(r) == CopyNext(r, Present, "count")

\* The plugins of the install tree, wanted or not.
CountRaw(r) ==
  /\ Goto(r, "count",
          Cardinality(DOMAIN install \ (Range(Fixed) \cup DOMAIN policy.support)) \in MinRaw .. MaxRaw,
          "audit")
  /\ UNCHANGED <<inputs, staged, listed, audited, report, crashes>>

RelocateAndAudit(r) ==
  LET relocated == [f \in Range(Order) |-> RelocateElf(f, staged[f])] IN
  AuditNext(r, relocated, {f \in Range(Order) : AuditElf(f, relocated[f])}, "baseline")

\* Some file states which glibc it needs.
CheckBaseline(r) ==
  /\ Goto(r, "baseline", \E f \in audited[r] : staged[f].glibc # <<>>, "cache")
  /\ UNCHANGED <<inputs, staged, listed, audited, report, crashes>>

\* A mutant of MakeCache: the cache is made from the plugins as they were built.
CacheOfInstall(r) ==
  /\ Goto(r, "cache", TRUE, "inventory")
  /\ staged' = With(staged, Cache, CacheOf(install))
  /\ listed' = [listed EXCEPT ![r] = With(@, Cache, CacheOf(install))]
  /\ UNCHANGED <<inputs, audited, report, crashes>>

MakeCache(r) == GenerateCache(r, "inventory")

\* A mutant of CheckInventory: files nobody listed are not noticed.
InventoryIgnoresStrays(r) ==
  /\ Goto(r, "inventory", DOMAIN listed[r] \subseteq DOMAIN staged, "hash")
  /\ UNCHANGED <<inputs, staged, listed, audited, report, crashes>>

\* The output holds the listed files and nothing else.
CheckInventory(r) ==
  /\ Goto(r, "inventory", DOMAIN staged = DOMAIN listed[r], "hash")
  /\ UNCHANGED <<inputs, staged, listed, audited, report, crashes>>

\* A mutant of HashAgain: the digests taken while copying are reported.
KeepDigests(r) ==
  /\ Goto(r, "hash", TRUE, "report")
  /\ UNCHANGED <<inputs, staged, listed, audited, report, crashes>>

HashAgain(r) == Rehash(r)

\* A mutant of CreateReport: the report is written before the files are hashed.
CreateReportAnyway(r) ==
  /\ pc[r] = "report" /\ pc' = [pc EXCEPT ![r] = "write"]
  /\ report' = Report(r, policy.components)
  /\ UNCHANGED <<inputs, staged, listed, audited, crashes>>

CreateReport(r) == OpenReport(r)

FillReport(r) == WriteReport(r, policy.components, "done")

Step(r) ==
  \/ Start(r) \/ StageFile(r) \/ CountRaw(r) \/ RelocateAndAudit(r) \/ CheckBaseline(r)
  \/ MakeCache(r) \/ CheckInventory(r) \/ HashAgain(r) \/ CreateReport(r) \/ FillReport(r)

Next == (\E r \in Runs : Step(r) \/ Kill(r)) \/ Revise
Spec == Init /\ [][Next]_vars

-----------------------------------------------------------------------------
(* Properties *)

\* What the dynamic linker does: every library a file needs is in the directory
\* its run path names, under that name, or the host has it.
Loads(f) ==
  LET b == staged[f] IN
  /\ b.path = (IF f \in Plugins THEN "../../../bin" ELSE ".")
  /\ \A n \in Range(b.needs) :
       \/ n \in DOMAIN staged /\ InBin(n) /\ staged[n].name = n
       \/ n \in SystemLibraries

\* A reported runtime loads on a host that has the allowed libraries, with the
\* files that were staged and no others.
ReportedRuntimeLoads ==
  Reported /\ policy.system \subseteq SystemLibraries =>
    \A f \in Range(Order) : f \in DOMAIN staged /\ Loads(f)

\* The report gives the digest every file has now, and lists every file.
ReportIsTrue == Reported => report.files = staged

\* The plugin cache was made from the plugins that are staged, not from what
\* they were before the tools rewrote them.
CacheIsCurrent == Reported => staged[Cache] = CacheOf(staged)

\* The report names exactly the components its files are built from.
ComponentsAreExact ==
  Reported => report.components = UNION {ComponentsOf(f) : f \in Range(Order)}

\* A run that is refused or killed leaves no report that says more than it
\* checked: without a finished run there is none.
ReportNeedsSuccess == Reported => \E r \in Runs : pc[r] = "done"
=============================================================================
