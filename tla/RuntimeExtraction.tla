-------------------------- MODULE RuntimeExtraction --------------------------
(***************************************************************************)
(* VlcDesktopRuntime: Java processes share an extraction root.  Each of    *)
(* them extracts the bundled runtime, or takes the directory that another  *)
(* has extracted; or it is given a directory that somebody else built.     *)
(* Nothing locks a directory: the code relies on unique temporary          *)
(* directories, one rename, and on verifying what it found.                *)
(***************************************************************************)
EXTENDS Naturals, FiniteSets

CONSTANTS
  Processes,    \* that call resolveBundled()
  External,     \* the process that calls resolveExternalDirectory(), or none
  Files,        \* what the manifest inventories
  MaxCrashes,   \* bound: processes that are killed
  MaxDamage     \* bound: changes somebody else makes

VARIABLES
  runtime,    \* the runtime directory: what each file is; <<>> when there is none
  temporary,  \* the same of each process's temporary directory
  local,      \* the replacement directory: its files, and its manifest
  pc,         \* where each process is
  todo,       \* the files it has still to do there
  manifest,   \* the manifest the external process has read
  crashes, damage,
  found       \* history: the directory as each process found it when it began to verify

vars == <<runtime, temporary, local, pc, todo, manifest, crashes, damage, found>>

All == Processes \cup External
\* What the bundled manifest says of a file, whose resource is good.
Good == "good"
Contents == {Good, "changed", "missing"}
Ended == {"resolved", "failed", "killed"}

TypeOK ==
  /\ runtime = <<>> \/ runtime \in [Files -> Contents]
  /\ \A p \in Processes : temporary[p] = <<>> \/ temporary[p] \in [Files -> Contents]
  /\ DOMAIN temporary = Processes
  /\ local \in [files : [Files -> Contents], manifest : [Files -> Contents], extra : BOOLEAN]
  /\ pc \in [All -> Ended \cup {"look", "verify", "create", "copy", "check", "move", "fail", "delete",
                                "read", "walk", "reread"}]
  /\ todo \in [All -> SUBSET Files]
  /\ manifest \in [Files -> Contents]
  /\ crashes \in 0..MaxCrashes /\ damage \in 0..MaxDamage

\* A replacement is any directory whose manifest somebody wrote for it; a file the
\* manifest does not inventory may lie beside (extra).
Init ==
  /\ runtime = <<>>
  /\ temporary = [p \in Processes |-> <<>>]
  /\ local \in [files : {[f \in Files |-> Good]}, manifest : [Files -> {Good, "changed"}],
                extra : BOOLEAN]
  /\ pc = [p \in All |-> IF p \in External THEN "read" ELSE "look"]
  /\ todo = [p \in All |-> Files]
  /\ manifest = [f \in Files |-> Good]
  /\ crashes = 0 /\ damage = 0
  /\ found = [p \in Processes |-> <<>>]

Goto(p, to) ==
  /\ pc' = [pc EXCEPT ![p] = to]
  /\ todo' = [todo EXCEPT ![p] = Files]
  /\ found' = IF to = "verify" THEN [found EXCEPT ![p] = runtime'] ELSE found
Done(p, f, to) ==
  /\ pc' = IF todo[p] = {f} THEN [pc EXCEPT ![p] = to] ELSE pc
  /\ todo' = [todo EXCEPT ![p] = IF @ = {f} THEN Files ELSE @ \ {f}]
  /\ UNCHANGED found
bundled == <<runtime, temporary>>
others == <<local, manifest, crashes, damage>>

-----------------------------------------------------------------------------
(* resolveBundled() *)

\* Files.exists(runtimeDirectory)
Look(p) ==
  /\ pc[p] = "look"
  /\ UNCHANGED <<bundled, others>>
  /\ Goto(p, IF runtime # <<>> THEN "verify" ELSE "create")

\* verifyExtracted(): the first file that is not what the manifest says refuses the
\* directory, which is left as it is.
Verify(p) ==
  /\ pc[p] = "verify"
  /\ UNCHANGED <<bundled, others>>
  /\ \E f \in todo[p] :
       IF runtime # <<>> /\ runtime[f] = Good THEN Done(p, f, "resolved")
                                              ELSE Goto(p, "failed")

\* The temporary directory has a random name.
Create(p) ==
  /\ pc[p] = "create"
  /\ UNCHANGED <<runtime, others>>
  /\ \/ temporary' = [temporary EXCEPT ![p] = [f \in Files |-> "missing"]] /\ Goto(p, "copy")
     \/ UNCHANGED temporary /\ Goto(p, "delete")

\* A mutant of Copy: what was written is not looked at.
CopyBlindly(p) ==
  /\ pc[p] = "copy"
  /\ UNCHANGED <<runtime, others>>
  /\ \E f \in todo[p], c \in {Good, "changed"} :
       /\ temporary' = [temporary EXCEPT ![p][f] = c]
       /\ Done(p, f, "move")

\* Each resource is copied and verified.  The disk may be full, or write something else.
Copy(p) ==
  /\ pc[p] = "copy"
  /\ UNCHANGED <<runtime, others>>
  /\ \E f \in todo[p], c \in {Good, "changed"} :
       /\ temporary' = [temporary EXCEPT ![p][f] = c]
       /\ IF c = Good THEN Done(p, f, "move") ELSE Goto(p, "fail")

CopyFails(p) ==
  /\ pc[p] = "copy"
  /\ UNCHANGED <<bundled, others>>
  /\ Goto(p, "delete")

\* A mutant of Move: an existing directory is replaced.
MoveOver(p) ==
  /\ pc[p] = "move"
  /\ runtime' = temporary[p]
  /\ temporary' = [temporary EXCEPT ![p] = <<>>]
  /\ Goto(p, "verify")
  /\ UNCHANGED others

\* Files.move(): a rename never takes the place of a directory that is not empty.
Move(p) ==
  /\ pc[p] = "move"
  /\ IF runtime = <<>>
     THEN /\ runtime' = temporary[p]
          /\ temporary' = [temporary EXCEPT ![p] = <<>>]
          /\ Goto(p, "verify")
     ELSE UNCHANGED bundled /\ Goto(p, "delete")
  /\ UNCHANGED others

\* The handlers delete the temporary tree; after an IOException a directory another
\* process has made meanwhile will do.  A failed deletion is ignored.
DeleteTemporary(p) ==
  /\ pc[p] \in {"delete", "fail"}
  /\ UNCHANGED <<runtime, others>>
  /\ temporary' \in {temporary, [temporary EXCEPT ![p] = <<>>]}
  /\ Goto(p, IF pc[p] = "delete" /\ runtime # <<>> THEN "verify" ELSE "failed")

-----------------------------------------------------------------------------
(* resolveExternalDirectory() *)

ReadManifest(p) ==
  /\ pc[p] = "read"
  /\ UNCHANGED <<bundled, local, crashes, damage>>
  /\ manifest' = local.manifest
  /\ Goto(p, "check")

VerifyLocal(p) ==
  /\ pc[p] = "check"
  /\ UNCHANGED <<bundled, others>>
  /\ \E f \in todo[p] : IF local.files[f] = manifest[f] THEN Done(p, f, "walk") ELSE Goto(p, "failed")

Walk(p) ==
  /\ pc[p] = "walk"
  /\ UNCHANGED <<bundled, others>>
  /\ Goto(p, IF local.extra THEN "failed" ELSE "reread")

ReadAgain(p) ==
  /\ pc[p] = "reread"
  /\ UNCHANGED <<bundled, others>>
  /\ Goto(p, IF local.manifest = manifest THEN "resolved" ELSE "failed")

-----------------------------------------------------------------------------
(* The surroundings *)

Kill(p) ==
  /\ pc[p] \notin Ended /\ crashes < MaxCrashes
  /\ crashes' = crashes + 1
  /\ pc' = [pc EXCEPT ![p] = "killed"]
  /\ UNCHANGED <<bundled, local, todo, manifest, damage, found>>

\* Somebody changes or removes a file of a directory.
Damage ==
  /\ damage < MaxDamage /\ damage' = damage + 1
  /\ \/ /\ runtime # <<>> /\ UNCHANGED local
        /\ \E f \in Files, c \in {"changed", "missing"} : runtime' = [runtime EXCEPT ![f] = c]
     \/ /\ UNCHANGED runtime
        /\ local' \in {[local EXCEPT !.manifest[f] = "changed"] : f \in Files} \cup
                      {[local EXCEPT !.files[f] = "changed"] : f \in Files}
  /\ UNCHANGED <<temporary, pc, todo, manifest, crashes, found>>

Next ==
  \/ \E p \in Processes : \/ Look(p) \/ Verify(p) \/ Create(p) \/ Copy(p) \/ CopyFails(p)
                          \/ Move(p) \/ DeleteTemporary(p)
  \/ \E p \in External : ReadManifest(p) \/ VerifyLocal(p) \/ Walk(p) \/ ReadAgain(p)
  \/ \E p \in All : Kill(p)
  \/ Damage

Spec == Init /\ [][Next]_vars

-----------------------------------------------------------------------------
(* Properties *)

\* A process resolves a runtime only if every file was what the manifest says when it
\* began to verify, whoever extracted the directory, was killed on the way, came
\* second, or damaged it; and nothing unfinished is ever where the next process looks.
OnlyVerifiedResolved ==
  /\ \A p \in Processes : pc[p] = "resolved" => \A f \in Files : found[p][f] = Good
  /\ damage = 0 /\ runtime # <<>> => \A f \in Files : runtime[f] = Good
  /\ damage = 0 => \A p \in External : pc[p] = "resolved" =>
                     local.files = local.manifest /\ ~local.extra

\* A runtime that is in place is neither overwritten nor removed, whatever its state:
\* another process may have loaded it.
NeverOverwritten == [][runtime # <<>> => runtime' = runtime \/ damage' # damage]_vars
=============================================================================
