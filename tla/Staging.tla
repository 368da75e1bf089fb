------------------------------ MODULE Staging -------------------------------
(***************************************************************************)
(* What the four scripts that stage a libVLC runtime share: a run copies   *)
(* the files its policy selects from an install tree into an output        *)
(* directory, rewrites and audits them with native tools, and writes a     *)
(* report.  It fails at the first thing that is wrong, and may be killed.  *)
(*                                                                         *)
(* A file is its content, and the digest of a content is the content.  The *)
(* content of a binary is a record: what it is called, where it looks for  *)
(* libraries, which libraries it needs, and whether the rest of it is      *)
(* sound (architecture, platform, hardening).                              *)
(***************************************************************************)
EXTENDS Naturals, Sequences, FiniteSets, SequencesExt

CONSTANTS
  Runs,        \* runs of the script on one output and one report
  Policies,    \* the contents the policy files may have
  Installs,    \* the contents the install tree may have: name -> binary
  Strays,      \* other files a native tool may leave in the output
  MaxCrashes   \* bound on killed runs

VARIABLES
  policy, install,   \* the inputs; no run changes them
  allow,       \* the --allow-audit-candidate flag of each run
  staged,      \* the files of the output directory: name -> content
  listed,      \* the digests each run has taken, by name
  audited,     \* the files each run has rewritten and audited
  report,      \* its state: none, cut (created, not yet written) or whole; what it says
  pc, crashes

inputs == <<policy, install, allow>>
vars == <<policy, install, allow, staged, listed, audited, report, pc, crashes>>

Fixed == <<"libvlc", "core", "bridge">>
Cache == "plugins.dat"

RoleOf(f) ==
  CASE f = "libvlc" -> "LIBVLC" [] f = "core" -> "CORE" [] f = "bridge" -> "BRIDGE"
    [] f \in DOMAIN policy.support -> "SUPPORT" [] f \in policy.modules -> "PLUGIN"

\* The files to stage, in order: fixed files, support libraries, plugins.
Order == Fixed \o SetToSeq(DOMAIN policy.support) \o SetToSeq(policy.modules)
Plugins == policy.modules

\* The components a file is built from.
ComponentsOf(f) ==
  IF f = "core" THEN policy.core
  ELSE IF f \in DOMAIN policy.moduleComponents THEN policy.moduleComponents[f] ELSE {}

Ended == {"done", "failed", "killed"}
Places == {"new", "mkdtemp", "copy", "count", "audit", "baseline", "cache", "inventory", "hash",
           "report", "write", "publish", "handler", "unlink"} \cup Ended

Init ==
  /\ policy \in Policies /\ install \in Installs
  /\ allow \in [Runs -> BOOLEAN]
  /\ staged = <<>> /\ report = [state |-> "none"]
  /\ listed = [r \in Runs |-> <<>>] /\ audited = [r \in Runs |-> {}]
  /\ pc = [r \in Runs |-> "new"] /\ crashes = 0

\* A step of a run: it goes on when ok, and raises SystemExit otherwise.
Goto(r, at, ok, to) == pc[r] = at /\ pc' = [pc EXCEPT ![r] = IF ok THEN to ELSE "failed"]

\* A file written among others, and files written over others.
With(files, f, content) == [g \in DOMAIN files \cup {f} |-> IF g = f THEN content ELSE files[g]]
Over(top, files) ==
  [g \in DOMAIN top \cup DOMAIN files |-> IF g \in DOMAIN top THEN top[g] ELSE files[g]]

\* The next element of a sequence outside a set, and whether it is the last.
NextOf(seq, set) ==
  seq[CHOOSE i \in DOMAIN seq : seq[i] \notin set /\ \A j \in 1 .. i - 1 : seq[j] \in set]
Finishes(seq, set, f) == Range(seq) \subseteq set \cup {f}

\* Runs on one output follow each other: a retry comes after what it retries.
Alone(r) == \A q \in Runs \ {r} : pc[q] \in Ended \cup {"new"}

\* A policy that was not approved needs the flag.
Reviewed(r) ==
  (policy.status = "approved" /\ policy.binaryStatus = "approved") \/ allow[r]

\* A mutant of Copy: everything the build has installed is copied.
CopyTree(r, f) ==
  /\ staged' = Over(install, staged)
  /\ listed' = [listed EXCEPT ![r] = With(@, f, install[f])]

\* copy_file: the bytes and their digest.
Copy(r, f) ==
  /\ staged' = With(staged, f, install[f])
  /\ listed' = [listed EXCEPT ![r] = With(@, f, install[f])]

Present == DOMAIN install

\* The next file is copied, if it is available in the install tree.
CopyNext(r, available, to) ==
  /\ pc[r] = "copy"
  /\ LET f == NextOf(Order, DOMAIN listed[r])
         ok == f \in available IN
     /\ Goto(r, "copy", ok, IF Finishes(Order, DOMAIN listed[r], f) THEN to ELSE "copy")
     /\ IF ok THEN Copy(r, f) ELSE UNCHANGED <<staged, listed>>
  /\ UNCHANGED <<inputs, audited, report, crashes>>

\* The next file is rewritten in place, to what it is relocated to, and then has to
\* be among those that are sound; a tool may fail or time out before or after it has
\* rewritten the file.
AuditNext(r, relocated, sound, to) ==
  /\ pc[r] = "audit"
  /\ LET f == NextOf(Order, audited[r]) IN
     \E tool \in BOOLEAN, wrote \in BOOLEAN :
       /\ staged' = IF tool \/ wrote THEN [staged EXCEPT ![f] = relocated[f]] ELSE staged
       /\ Goto(r, "audit", tool /\ f \in sound,
               IF Finishes(Order, audited[r], f) THEN to ELSE "audit")
       /\ audited' = [audited EXCEPT ![r] = IF tool /\ f \in sound THEN @ \cup {f} ELSE @]
  /\ UNCHANGED <<inputs, listed, report, crashes>>

\* A plugin cache describes the plugins that are there when it is made.
CacheOf(files) == [f \in DOMAIN files \cap Plugins |-> files[f]]

\* vlc-cache-gen, whatever else it leaves behind; it may fail or time out.
GenerateCache(r, to) ==
  \E ok \in BOOLEAN, stray \in SUBSET Strays :
    /\ Goto(r, "cache", ok, to)
    /\ staged' = IF ok THEN With(Over([s \in stray |-> s], staged), Cache, CacheOf(staged))
                 ELSE Over([s \in stray |-> s], staged)
    /\ listed' = IF ok THEN [listed EXCEPT ![r] = With(@, Cache, CacheOf(staged))] ELSE listed
    /\ UNCHANGED <<inputs, audited, report, crashes>>

\* Every listed file is read again for its final digest.
Rehash(r) ==
  /\ Goto(r, "hash", DOMAIN listed[r] \subseteq DOMAIN staged, "report")
  /\ listed' = IF DOMAIN listed[r] \subseteq DOMAIN staged
               THEN [listed EXCEPT ![r] = [f \in DOMAIN @ |-> staged[f]]] ELSE listed
  /\ UNCHANGED <<inputs, staged, audited, report, crashes>>

\* What a report says.
Report(r, components) ==
  [state |-> "whole", files |-> listed[r], audits |-> audited[r], components |-> components,
   candidate |-> ~(policy.status = "approved" /\ policy.binaryStatus = "approved")]

\* report.open("w") creates or empties the file before anything is written.
OpenReport(r) ==
  /\ Goto(r, "report", TRUE, "write")
  /\ report' = [state |-> "cut"]
  /\ UNCHANGED <<inputs, staged, listed, audited, crashes>>

WriteReport(r, components, to) ==
  /\ Goto(r, "write", TRUE, to)
  /\ report' = Report(r, components)
  /\ UNCHANGED <<inputs, staged, listed, audited, crashes>>

Kill(r) ==
  /\ pc[r] \notin Ended \cup {"new"} /\ crashes < MaxCrashes
  /\ pc' = [pc EXCEPT ![r] = "killed"]
  /\ crashes' = crashes + 1
  /\ UNCHANGED <<inputs, staged, listed, audited, report>>

\* Between two runs the policy may be revised, as after a refusal.
Revise ==
  /\ \A r \in Runs : pc[r] \in Ended \cup {"new"}
  /\ report.state # "whole"
  /\ policy' \in Policies
  /\ UNCHANGED <<install, allow, staged, listed, audited, report, pc, crashes>>

-----------------------------------------------------------------------------
(* What a report promises, for each platform's notion of a file that loads *)

Reported == report.state = "whole"

Names == Range(Fixed) \cup UNION {DOMAIN p.support \cup p.modules : p \in Policies}

\* The output holds only files that some policy selects, and what tools leave.
TypeOK ==
  /\ policy \in Policies /\ allow \in [Runs -> BOOLEAN]
  /\ pc \in [Runs -> Places]
  /\ DOMAIN staged \subseteq Names \cup Strays \cup {Cache}
  /\ \A r \in Runs : DOMAIN listed[r] \subseteq Names \cup {Cache}
  /\ \A r \in Runs : audited[r] \subseteq Names
  /\ crashes \in 0 .. MaxCrashes
=============================================================================
