---------------------------- MODULE WindowsStaging ---------------------------
(* scripts/stage_vlc_windows_runtime.py: it copies, and audits nothing.  The *)
(* install tree may be built again while files are copied from it.           *)
EXTENDS Staging

CONSTANTS
  Builds,    \* what another build may put in the place of a file
  MaxEdits   \* bound on such builds

VARIABLE edits

\* load_policy: the list of modules is closed; no component is looked at.
LoadPolicy(r) ==
  /\ policy.closed
  /\ Reviewed(r)
  /\ policy.coreLicenses = {"MIT"} /\ policy.binaryCoreLicenses = policy.coreLicenses
  /\ policy.additional \subseteq policy.modules

\* require_plain_file and require_plugin: one file of the name, at one place.
Required(f) == f \in DOMAIN install /\ Cardinality(install[f].at) = 1

\* A mutant of Start: the output of an earlier run is used again.
StartOver(r) ==
  /\ Alone(r)
  /\ Goto(r, "new", report.state = "none" /\ LoadPolicy(r), "copy")
  /\ UNCHANGED <<inputs, staged, listed, audited, report, crashes, edits>>

Start(r) ==
  /\ Alone(r)
  /\ Goto(r, "new", /\ staged = <<>> /\ report.state = "none"
                    /\ LoadPolicy(r) /\ Required("libvlc") /\ Required("core"), "copy")
  /\ UNCHANGED <<inputs, staged, listed, audited, report, crashes, edits>>

\* A mutant of StageFile: a file is copied, and the one in the install tree is
\* hashed after that.
HashSource(r) ==
  /\ pc[r] = "copy"
  /\ LET f == NextOf(Order, DOMAIN listed[r]) IN
     IF f \in DOMAIN staged
     THEN /\ Goto(r, "copy", TRUE, IF Finishes(Order, DOMAIN listed[r], f) THEN "count" ELSE "copy")
          /\ listed' = [listed EXCEPT ![r] = With(@, f, install[f])] /\ UNCHANGED staged
     ELSE /\ Goto(r, "copy", Required(f), "copy") /\ UNCHANGED listed
          /\ staged' = IF Required(f) THEN With(staged, f, install[f]) ELSE staged
  /\ UNCHANGED <<inputs, audited, report, crashes, edits>>

\* copy_file hashes the copy.
StageFile(r) ==
  CopyNext(r, {f \in Range(Order) : Required(f)}, "count") /\ UNCHANGED edits

\* Every file lib*_plugin.dll below plugins/ counts, selected or not.
CountRaw(r) ==
  /\ LET places == UNION {{<<f, d>> : d \in install[f].at} : f \in DOMAIN install \ Range(Fixed)} IN
     Goto(r, "count", Cardinality(places) >= Cardinality(Plugins), "report")
  /\ UNCHANGED <<inputs, staged, listed, audited, report, crashes, edits>>

CreateReport(r) == OpenReport(r) /\ UNCHANGED edits
FillReport(r) == WriteReport(r, {}, "done") /\ UNCHANGED edits

\* Another build writes a file of the install tree.
Install ==
  /\ edits < MaxEdits /\ edits' = edits + 1
  /\ \E f \in DOMAIN install, b \in Builds : install' = [install EXCEPT ![f] = b]
  /\ UNCHANGED <<policy, allow, staged, listed, audited, report, pc, crashes>>

Step(r) == Start(r) \/ StageFile(r) \/ CountRaw(r) \/ CreateReport(r) \/ FillReport(r)
Next == (\E r \in Runs : Step(r) \/ (Kill(r) /\ UNCHANGED edits)) \/ Install \/ (Revise /\ UNCHANGED edits)
WinInit == Init /\ edits = 0
Spec == WinInit /\ [][Next]_<<vars, edits>>

-----------------------------------------------------------------------------
(* Properties *)

\* The report gives the digest of what was staged, whatever was built while the
\* files were copied.
ReportIsTrue == Reported => report.files = staged

\* A report names every selected file and nothing that an earlier run has left,
\* and a runtime that was not reviewed is called a candidate.
ReportIsClosed ==
  Reported => /\ DOMAIN staged = Range(Order)
              /\ report.candidate \/ (policy.status = "approved" /\ policy.binaryStatus = "approved")
=============================================================================
