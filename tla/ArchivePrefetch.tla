--------------------------- MODULE ArchivePrefetch ---------------------------
(***************************************************************************)
(* scripts/prefetch_vlc_archive.py: several build jobs fetch one pinned    *)
(* source archive into the same directory, from mirrors tried in order and *)
(* then from a source bundle.  A job may be killed at any step.            *)
(*                                                                         *)
(* A file is its content; the digest of a content is the content itself.   *)
(***************************************************************************)
EXTENDS Naturals, FiniteSets, Sequences

CONSTANTS
  Jobs,        \* processes that run the script
  Contents,    \* what an archive can contain
  Malformed,   \* a manifest entry that is no SHA-512
  Absent,      \* no such file
  Empty,       \* a file mkstemp has just made
  Mirrors,     \* --url arguments
  HasBundle,   \* --source-bundle-url and --source-bundle-member are given
  MaxCrashes,  \* bound on jobs killed
  MaxLines     \* bound on the lines of the manifest

ASSUME PrefetchAssumption ==
  /\ {Malformed, Absent, Empty} \cap Contents = {} /\ Absent # Empty
  /\ Mirrors \in Nat /\ HasBundle \in BOOLEAN
  /\ MaxCrashes \in Nat /\ MaxLines \in Nat

\* The lines of the checksum manifest that have two fields.
Line == [archive : BOOLEAN, digest : Contents \cup {Malformed}]
Manifests == UNION {[1 .. n -> Line] : n \in 0 .. MaxLines}

VARIABLES
  manifest,      \* the checksum manifest
  destination,   \* the archive in the directory all jobs share
  temporary,     \* the file mkstemp made for each job
  pc, mirror,    \* where a job is, and the mirror it tries
  crashes

vars == <<manifest, destination, temporary, pc, mirror, crashes>>

Ended == {"done", "failed", "killed"}
Places == {"idle", "look", "mkstemp", "try", "bundle", "verify", "replace", "cleanup"}

\* The variables keep their types: a job is on a mirror it was given, a temporary
\* file belongs to one job.
TypeOK ==
  /\ manifest \in Manifests
  /\ destination \in Contents \cup {Absent}
  /\ temporary \in [Jobs -> Contents \cup {Absent, Empty}]
  /\ pc \in [Jobs -> Places \cup Ended]
  /\ mirror \in [Jobs -> 0 .. Mirrors]
  /\ crashes \in 0 .. MaxCrashes

Init ==
  /\ manifest \in Manifests
  /\ destination \in Contents \cup {Absent}
  /\ temporary = [j \in Jobs |-> Absent]
  /\ pc = [j \in Jobs |-> "idle"]
  /\ mirror = [j \in Jobs |-> 0]
  /\ crashes = 0

-----------------------------------------------------------------------------
(* The manifest *)

\* The manifest binds the archive to d: one line names it, with a SHA-512.
Binds(d) ==
  \E i \in DOMAIN manifest :
    /\ {k \in DOMAIN manifest : manifest[k].archive} = {i}
    /\ manifest[i].digest = d /\ d # Malformed

Expected(content) == Binds(content)

-----------------------------------------------------------------------------
(* prefetch() *)

Goto(j, from, to) == pc[j] = from /\ pc' = [pc EXCEPT ![j] = to]

\* The arguments and the manifest are checked before anything is touched.
Start(j) ==
  /\ Goto(j, "idle", IF (Mirrors > 0 \/ HasBundle) /\ \E d \in Contents : Binds(d)
                     THEN "look" ELSE "failed")
  /\ UNCHANGED <<manifest, destination, temporary, mirror, crashes>>

\* A mutant of Look: an archive that is there already is not checked.
LookWithoutCheck(j) ==
  /\ Goto(j, "look", IF destination = Absent THEN "mkstemp" ELSE "done")
  /\ UNCHANGED <<manifest, destination, temporary, mirror, crashes>>

\* An archive that is there already is checked, never fetched again.
Look(j) ==
  /\ Goto(j, "look", IF destination = Absent THEN "mkstemp"
                     ELSE IF Expected(destination) THEN "done" ELSE "failed")
  /\ UNCHANGED <<manifest, destination, temporary, mirror, crashes>>

MakeTemporary(j) ==
  /\ Goto(j, "mkstemp", "try")
  /\ temporary' = [temporary EXCEPT ![j] = Empty]
  /\ UNCHANGED <<manifest, destination, mirror, crashes>>

\* What curl leaves in a job's file, whether it reports success or not.
Receive(j) == \E c \in Contents \cup {Empty} : temporary' = [temporary EXCEPT ![j] = c]

\* Mutants of TryMirror: the archive is taken unchecked; a mirror that fails is
\* tried again; one mirror too many is tried.
TryMirrorUnchecked(j) ==
  /\ mirror[j] < Mirrors
  /\ \E to \in {"try", "replace"} : Goto(j, "try", to)
  /\ mirror' = [mirror EXCEPT ![j] = @ + 1]
  /\ Receive(j)
  /\ UNCHANGED <<manifest, destination, crashes>>
TryMirrorForever(j) ==
  /\ mirror[j] < Mirrors
  /\ \E to \in {"try", "verify"} : Goto(j, "try", to)
  /\ Receive(j)
  /\ UNCHANGED <<manifest, destination, mirror, crashes>>
TryMirrorTooMany(j) ==
  /\ mirror[j] <= Mirrors
  /\ \E to \in {"try", "verify"} : Goto(j, "try", to)
  /\ mirror' = [mirror EXCEPT ![j] = @ + 1]
  /\ Receive(j)
  /\ UNCHANGED <<manifest, destination, crashes>>

\* If curl reports success the file is checked, otherwise the next mirror is
\* tried.
TryMirror(j) ==
  /\ mirror[j] < Mirrors
  /\ \E to \in {"try", "verify"} : Goto(j, "try", to)
  /\ mirror' = [mirror EXCEPT ![j] = @ + 1]
  /\ Receive(j)
  /\ UNCHANGED <<manifest, destination, crashes>>

\* No mirror is left.
GiveUpMirrors(j) ==
  /\ mirror[j] = Mirrors
  /\ Goto(j, "try", IF HasBundle THEN "bundle" ELSE "cleanup")
  /\ UNCHANGED <<manifest, destination, temporary, mirror, crashes>>

\* The bundle may fail to download, lack the member or hold it twice; a
\* second member is noticed after the first has been written.
FromBundle(j) ==
  /\ \E to \in {"verify", "cleanup"} : Goto(j, "bundle", to)
  /\ Receive(j)
  /\ UNCHANGED <<manifest, destination, mirror, crashes>>

\* A wrong digest ends the job, even with mirrors left.
Verify(j) ==
  /\ Goto(j, "verify", IF Expected(temporary[j]) THEN "replace" ELSE "cleanup")
  /\ UNCHANGED <<manifest, destination, temporary, mirror, crashes>>

\* os.replace is atomic and takes the temporary file away.
Replace(j) ==
  /\ Goto(j, "replace", "done")
  /\ destination' = temporary[j]
  /\ temporary' = [temporary EXCEPT ![j] = Absent]
  /\ UNCHANGED <<manifest, mirror, crashes>>

\* A mutant of Cleanup: the finally clause is missing.
LeaveTemporary(j) ==
  /\ Goto(j, "cleanup", "failed")
  /\ UNCHANGED <<manifest, destination, temporary, mirror, crashes>>

\* The finally clause of a job that failed.
Cleanup(j) ==
  /\ Goto(j, "cleanup", "failed")
  /\ temporary' = [temporary EXCEPT ![j] = Absent]
  /\ UNCHANGED <<manifest, destination, mirror, crashes>>

\* A killed job runs no finally clause.
Kill(j) ==
  /\ pc[j] \notin Ended /\ crashes < MaxCrashes
  /\ pc' = [pc EXCEPT ![j] = "killed"]
  /\ crashes' = crashes + 1
  /\ UNCHANGED <<manifest, destination, temporary, mirror>>

Step(j) ==
  \/ Start(j) \/ Look(j) \/ MakeTemporary(j) \/ TryMirror(j) \/ GiveUpMirrors(j)
  \/ FromBundle(j) \/ Verify(j) \/ Replace(j) \/ Cleanup(j)

Next == \E j \in Jobs : Step(j) \/ Kill(j)

Spec == Init /\ [][Next]_vars

\* A script that runs goes on: curl has --max-time, and mirrors are finite.
FairSpec == Spec /\ \A j \in Jobs : WF_vars(Step(j))

-----------------------------------------------------------------------------
(* Properties *)

\* Whatever the mirrors send and whoever is killed, the shared archive changes
\* only into the pinned content, and never once it has it.
OnlyVerifiedContent ==
  [][destination' # destination => destination = Absent /\ Binds(destination')]_destination

\* A job that reports success leaves the pinned archive to the build.
SuccessMeansPinned == \A j \in Jobs : pc[j] = "done" => Binds(destination)

\* A temporary file survives only the job that still uses it, or a kill.
NoTemporaryLeft ==
  \A j \in Jobs : temporary[j] # Absent => pc[j] \notin {"idle", "look", "mkstemp", "done", "failed"}

\* Every job ends, whatever it is sent.
EveryJobEnds == \A j \in Jobs : <>(pc[j] \in Ended)
=============================================================================
