------------------------------ MODULE MacStaging -----------------------------
(* scripts/stage_vlc_macos_runtime.py *)
EXTENDS Staging

CONSTANTS
  RawPlugins,      \* rawSourceBuildPluginCount of the recipe
  SelectedPlugins, \* stagedPluginCount of the recipe
  SystemNames      \* the names below /System/Library and /usr/lib

\* load_policy
LoadPolicy(r) ==
  /\ policy.closed
  /\ Reviewed(r)
  /\ Cardinality(policy.modules) = SelectedPlugins
  /\ policy.additional \subseteq policy.modules
  /\ DOMAIN policy.moduleComponents \subseteq policy.modules
  /\ policy.core \cup policy.buildOnly
       \cup UNION {policy.moduleComponents[m] : m \in DOMAIN policy.moduleComponents}
     = policy.components

\* expected_private_core_dependency: the core, seen from the directory of a file.
CoreName(f) ==
  CASE RoleOf(f) = "LIBVLC" -> "@loader_path/core"
    [] RoleOf(f) = "PLUGIN" -> "@loader_path/../../../bin/core"
    [] RoleOf(f) \in {"CORE", "BRIDGE", "SUPPORT"} -> "none"

\* relocate_macho: the install name, and the build's name of the core where the
\* role needs it.
RelocateMacho(f, b) ==
  [b EXCEPT !.name = f,
            !.needs = [i \in DOMAIN @ |->
                         IF @[i] = "@rpath/core" /\ CoreName(f) # "none" THEN CoreName(f) ELSE @[i]]]

\* Where the dependencies of a file are, but its own name.
Private(f, b) == {i \in DOMAIN b.needs : b.needs[i] # f}

\* A mutant of AuditMacho: what else a file needs is not looked at.
AuditMachoOpen(f, b) ==
  /\ b.sound /\ b.name = f
  /\ CoreName(f) # "none" => \E i \in DOMAIN b.needs : b.needs[i] = CoreName(f)

\* audit_macho
AuditMacho(f, b) ==
  /\ b.sound /\ b.name = f
  /\ CoreName(f) # "none" =>
       Cardinality({i \in Private(f, b) : b.needs[i] = CoreName(f)}) = 1
  /\ \A i \in Private(f, b) : b.needs[i] \in SystemNames \cup ({CoreName(f)} \ {"none"})

-----------------------------------------------------------------------------
(* main() *)

\* A mutant of Start: what an earlier run has left is used again.
StartOver(r) ==
  /\ Alone(r) /\ Goto(r, "new", report.state = "none" /\ LoadPolicy(r), "copy")
  /\ UNCHANGED <<inputs, staged, listed, audited, report, crashes>>

Start(r) ==
  /\ Alone(r)
  /\ Goto(r, "new", staged = <<>> /\ report.state = "none" /\ LoadPolicy(r), "copy")
  /\ UNCHANGED <<inputs, staged, listed, audited, report, crashes>>

StageFile(r) == CopyNext(r, Present, "count")

CountRaw(r) ==
  /\ Goto(r, "count", Cardinality(DOMAIN install \ Range(Fixed)) = RawPlugins, "audit")
  /\ UNCHANGED <<inputs, staged, listed, audited, report, crashes>>

RelocateAndAudit(r) ==
  LET relocated == [f \in Range(Order) |-> RelocateMacho(f, staged[f])] IN
  AuditNext(r, relocated, {f \in Range(Order) : AuditMacho(f, relocated[f])}, "cache")

\* A mutant of MakeCache: the cache is made from the plugins as they were built.
CacheOfInstall(r) ==
  /\ Goto(r, "cache", TRUE, "hash")
  /\ staged' = With(staged, Cache, CacheOf(install))
  /\ listed' = [listed EXCEPT ![r] = With(@, Cache, CacheOf(install))]
  /\ UNCHANGED <<inputs, audited, report, crashes>>

MakeCache(r) == GenerateCache(r, "hash")

\* A mutant of HashAgain: the digests taken while copying are reported.
KeepDigests(r) ==
  /\ Goto(r, "hash", TRUE, "report")
  /\ UNCHANGED <<inputs, staged, listed, audited, report, crashes>>

HashAgain(r) == Rehash(r)

CreateReport(r) == OpenReport(r)
FillReport(r) == WriteReport(r, policy.components, "done")

Step(r) ==
  \/ Start(r) \/ StageFile(r) \/ CountRaw(r) \/ RelocateAndAudit(r)
  \/ MakeCache(r) \/ HashAgain(r) \/ CreateReport(r) \/ FillReport(r)

Next == (\E r \in Runs : Step(r) \/ Kill(r)) \/ Revise
Spec == Init /\ [][Next]_vars

-----------------------------------------------------------------------------
(* Properties *)

\* What dyld does with a name: the file itself, the system, or a path from the
\* directory of the file; libvlc is in bin, plugins are three levels below it.
Resolves(f, n) ==
  \/ n = staged[f].name \/ n \in SystemNames
  \/ n = "@loader_path/core" /\ f \in Range(Fixed) /\ "core" \in DOMAIN staged
  \/ n = "@loader_path/../../../bin/core" /\ f \in Plugins /\ "core" \in DOMAIN staged

\* Every library that a file of a reported runtime needs is found without any
\* run path, from where the file has been put.
ReportedRuntimeLoads ==
  Reported => \A f \in Range(Order) :
    f \in DOMAIN staged /\ \A n \in Range(staged[f].needs) : Resolves(f, n)

\* The report gives the digest every file has now, though tools have rewritten
\* the files since they were copied.
ReportIsTrue == Reported => \A f \in DOMAIN report.files : report.files[f] = staged[f]

\* Nothing that an earlier run, refused or killed, has left is in a reported
\* runtime, as long as the tools add nothing.
NoLeftovers ==
  Reported => DOMAIN staged \ Strays = DOMAIN report.files

\* The plugin cache was made from the plugins as they are staged.
CacheIsCurrent == Reported => staged[Cache] = CacheOf(staged)
=============================================================================
