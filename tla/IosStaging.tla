------------------------------ MODULE IosStaging -----------------------------
(* scripts/stage_vlc_ios_frameworks.py: the frameworks are made in a         *)
(* temporary directory beside the output, which a last rename publishes.     *)
(* The output of the Staging module is what is published.                    *)
EXTENDS Staging

CONSTANTS
  RawPlugins,       \* the raw plugins the recipe and the script pin
  SelectedPlugins,  \* stagedPluginCount of the recipe
  SystemNames,      \* the names below /System/Library and /usr/lib
  Foreign,          \* other names that are not below @rpath
  Overlapping       \* whether two runs on one output may be underway together

VARIABLE temporary  \* the temporary directory of each run, if it has one

iosVars == <<vars, temporary>>
NoDirectory == [state |-> "none", files |-> <<>>]
Directory(files) == [state |-> "made", files |-> files]

Frameworks == <<"bridge", "libvlc", "core">> \o SetToSeq(policy.modules)

\* load_policy and load_binary_policy
LoadPolicy(r) ==
  /\ policy.closed
  /\ Reviewed(r)
  /\ Cardinality(policy.modules) = SelectedPlugins
  /\ policy.additional \subseteq policy.modules
  /\ DOMAIN policy.moduleComponents \subseteq policy.modules
  /\ policy.buildOnly = {}
  /\ policy.core \cup UNION {policy.moduleComponents[m] : m \in DOMAIN policy.moduleComponents}
     = policy.components

NeedsCore(f) == RoleOf(f) \in {"LIBVLC", "PLUGIN"}

\* relocate_macho: the name of its framework, and the build's name of the core.
RelocateMacho(f, b) ==
  [b EXCEPT !.name = f,
            !.needs = [i \in DOMAIN @ |->
                         IF NeedsCore(f) /\ @[i] = "@rpath/libvlccore.dylib" THEN "core" ELSE @[i]]]

Internal(n) == n \notin SystemNames \cup Foreign
NonSelf(f, b) == {i \in DOMAIN b.needs : b.needs[i] # f}

\* A mutant of AuditMacho: that a file needs the core is enough.
AuditMachoOpen(f, b) ==
  /\ b.sound /\ b.name = f
  /\ NeedsCore(f) => \E i \in DOMAIN b.needs : b.needs[i] = "core"
  /\ Range(b.needs) \cap Foreign = {}

\* audit_macho: the core is the one private dependency a file may have.
AuditMacho(f, b) ==
  /\ b.sound /\ b.name = f
  /\ LET private == {i \in NonSelf(f, b) : Internal(b.needs[i])} IN
     /\ Cardinality(private) = IF NeedsCore(f) THEN 1 ELSE 0
     /\ \A i \in private : b.needs[i] = "core"
  /\ Range(b.needs) \cap Foreign = {}

-----------------------------------------------------------------------------
(* stage() *)

\* Before the temporary directory is made, a refusal leaves nothing to clean up.
Start(r) ==
  /\ Overlapping \/ Alone(r)
  /\ Goto(r, "new", /\ staged = <<>> /\ report.state = "none" /\ LoadPolicy(r)
                    /\ Cardinality(DOMAIN install \ Range(Fixed)) = RawPlugins, "mkdtemp")
  /\ UNCHANGED <<inputs, staged, listed, audited, report, crashes, temporary>>

MakeTemporary(r) ==
  /\ Goto(r, "mkdtemp", TRUE, "copy")
  /\ temporary' = [temporary EXCEPT ![r] = Directory(<<>>)]
  /\ UNCHANGED <<inputs, staged, listed, audited, report, crashes>>

\* A step inside the try block: what raises goes to the handler.
Try(r, at, ok, to) == pc[r] = at /\ pc' = [pc EXCEPT ![r] = IF ok THEN to ELSE "handler"]

\* A mutant of StageFramework: frameworks are made in the output directory.
StageInOutput(r) ==
  /\ pc[r] = "copy"
  /\ LET f == NextOf(Frameworks, DOMAIN listed[r])
         ok == f \in DOMAIN install /\ AuditMacho(f, RelocateMacho(f, install[f])) IN
     /\ Try(r, "copy", ok, IF Finishes(Frameworks, DOMAIN listed[r], f) THEN "report" ELSE "copy")
     /\ staged' = IF ok THEN With(staged, f, RelocateMacho(f, install[f])) ELSE staged
     /\ listed' = IF ok THEN [listed EXCEPT ![r] = With(@, f, RelocateMacho(f, install[f]))] ELSE listed
  /\ UNCHANGED <<inputs, audited, report, crashes, temporary>>

\* stage_framework: copied, rewritten, audited and hashed; a tool may fail, and
\* the headers may be unsafe.
StageFramework(r) ==
  /\ pc[r] = "copy"
  /\ \E tool \in BOOLEAN :
       LET f == NextOf(Frameworks, DOMAIN listed[r])
           b == RelocateMacho(f, install[f])
           ok == f \in DOMAIN install /\ tool /\ AuditMacho(f, b) IN
       /\ Try(r, "copy", ok, IF Finishes(Frameworks, DOMAIN listed[r], f) THEN "report" ELSE "copy")
       /\ IF ok
          THEN /\ temporary' = [temporary EXCEPT ![r].files = With(@, f, b)]
               /\ listed' = [listed EXCEPT ![r] = With(@, f, b)]
          ELSE UNCHANGED <<temporary, listed>>
  /\ UNCHANGED <<inputs, staged, audited, report, crashes>>

\* report.write_text
CreateReport(r) ==
  /\ Try(r, "report", TRUE, "write")
  /\ report' = [state |-> "cut"]
  /\ UNCHANGED <<inputs, staged, listed, audited, crashes, temporary>>

FillReport(r) ==
  /\ \E ok \in BOOLEAN :
       /\ Try(r, "write", ok, "publish")
       /\ report' = IF ok THEN Report(r, policy.components) ELSE report
  /\ UNCHANGED <<inputs, staged, listed, audited, crashes, temporary>>

\* A mutant of Publish: what is at the output is replaced.
PublishOver(r) ==
  /\ Try(r, "publish", TRUE, "done")
  /\ staged' = temporary[r].files
  /\ temporary' = [temporary EXCEPT ![r] = NoDirectory]
  /\ UNCHANGED <<inputs, listed, audited, report, crashes>>

\* temporary.rename(output) fails on a directory that is not empty.
Publish(r) ==
  /\ Try(r, "publish", staged = <<>>, "done")
  /\ IF staged = <<>>
     THEN /\ staged' = temporary[r].files
          /\ temporary' = [temporary EXCEPT ![r] = NoDirectory]
     ELSE UNCHANGED <<staged, temporary>>
  /\ UNCHANGED <<inputs, listed, audited, report, crashes>>

\* The handler: the temporary directory goes first, then the report,
\* whoever has written it.
RemoveTemporary(r) ==
  /\ Goto(r, "handler", TRUE, "unlink")
  /\ temporary' = [temporary EXCEPT ![r] = NoDirectory]
  /\ UNCHANGED <<inputs, staged, listed, audited, report, crashes>>

\* A mutant of RemoveReport: the report stays.
LeaveReport(r) ==
  /\ Goto(r, "unlink", FALSE, "failed")
  /\ UNCHANGED <<inputs, staged, listed, audited, report, crashes, temporary>>

RemoveReport(r) ==
  /\ Goto(r, "unlink", FALSE, "failed")
  /\ report' = [state |-> "none"]
  /\ UNCHANGED <<inputs, staged, listed, audited, crashes, temporary>>

Step(r) ==
  \/ Start(r) \/ MakeTemporary(r) \/ StageFramework(r) \/ CreateReport(r) \/ FillReport(r)
  \/ Publish(r) \/ RemoveTemporary(r) \/ RemoveReport(r)

Next == \/ \E r \in Runs : Step(r) \/ (Kill(r) /\ UNCHANGED temporary)
        \/ Revise /\ UNCHANGED temporary
IosInit == Init /\ temporary = [r \in Runs |-> NoDirectory]
Spec == IosInit /\ [][Next]_iosVars

-----------------------------------------------------------------------------
(* Properties *)

Published == staged # <<>>

\* Frameworks of an application find each other by the name of the framework.
Resolves(n) == n \in SystemNames \cup DOMAIN staged

\* The output appears with every framework in it and every framework loads,
\* whatever was killed and however runs overlap.
PublishedIsWhole ==
  Published => /\ {"libvlc", "core", "bridge"} \subseteq DOMAIN staged
               /\ Cardinality(DOMAIN staged \ Range(Fixed)) = SelectedPlugins
               /\ \A f \in DOMAIN staged : \A n \in Range(staged[f].needs) : Resolves(n)

\* Of the runs that find the place of the output free, one publishes: the others
\* fail, and say so.
OnePublisher == Cardinality({r \in Runs : pc[r] = "done"}) <= 1

\* Runs that follow each other leave, unless one was killed, either an output
\* with its report or neither of them and no temporary directory, so that a
\* refused run can be tried again.
EndsCleanly ==
  (crashes = 0 /\ \A r \in Runs : pc[r] \in Ended \cup {"new"}) =>
     /\ Published <=> report.state # "none"
     /\ Published => report.files = staged
     /\ \A r \in Runs : temporary[r] = NoDirectory

\* Even a killed run leaves no output that its report does not describe.
NoUnreportedOutput ==
  (\A r \in Runs : pc[r] \in Ended \cup {"new"}) => (Published => report.state = "whole")
=============================================================================
