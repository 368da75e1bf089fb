-------------------------- MODULE NdkSourcePackage --------------------------
(***************************************************************************)
(* scripts/package_android_ndk_source.py: the packager lists two Git       *)
(* checkouts, hashes every listed file, and writes the files, read again,  *)
(* into an archive that a rename publishes.  The checkouts and the policy  *)
(* may change meanwhile.                                                   *)
(*                                                                         *)
(* A path is a sequence that starts with its source, a blob is its content,*)
(* and a commit and its tree are one revision.                             *)
(***************************************************************************)
EXTENDS Naturals, Sequences, FiniteSets, Functions

CONSTANTS
  Packagers, Verifiers,
  SourceIds,      \* SOURCE_IDS, a sequence
  Tree,           \* the files of a revision: path -> blob
  Policies,       \* the contents the policy file may have
  None,           \* no file
  Link,           \* a Git entry that is not a regular file
  Blobs,          \* what an edit may put in the place of a file
  MaxEdits, MaxMoves, MaxCrashes   \* bounds on edits, checkouts and killed runs

VARIABLES
  policy,         \* the policy file
  head, work,     \* the commit of each checkout, and the files in them
  pc,
  pol,            \* the policy each process has parsed
  entries,        \* the blobs ls-tree has listed for it, by path
  done,           \* the files it has dealt with in its current loop
  value,          \* the bytes it has read and not yet archived
  image,          \* the archive each packager has written so far, and the number of
                  \* changes there had been when it began
  partial, output,   \* whose archive the two names lead to
  edits, moves, crashes

world == <<policy, head, work, edits, moves>>
own == <<pol, entries, done, value, image>>
vars == <<policy, head, work, pc, pol, entries, done, value, image, partial, output,
          edits, moves, crashes>>

Processes == Packagers \cup Verifiers
Ended == {"done", "failed", "killed"}
Paths == UNION {DOMAIN Tree[r] : r \in DOMAIN Tree}

\* What a clean checkout has at a path.
Committed(q) == IF q \in DOMAIN Tree[head[q[1]]] THEN Tree[head[q[1]]][q] ELSE None

Init ==
  /\ policy \in Policies
  /\ head = policy.revision
  /\ work = [q \in Paths |-> Committed(q)]
  /\ pc = [p \in Processes |-> "new"]
  /\ pol = [p \in Processes |-> None] /\ entries = [p \in Processes |-> <<>>]
  /\ done = [p \in Processes |-> {}] /\ value = [p \in Processes |-> None]
  /\ image = [p \in Processes |-> <<>>]
  /\ partial = None /\ output = None
  /\ edits = 0 /\ moves = 0 /\ crashes = 0

Goto(p, at, ok, to) == pc[p] = at /\ pc' = [pc EXCEPT ![p] = IF ok THEN to ELSE "failed"]

\* is_relative_to
Below(q, prefix) == Len(prefix) <= Len(q) /\ SubSeq(q, 1, Len(prefix)) = prefix
Covered(q, prefixes) == \E prefix \in prefixes : Below(q, prefix)

\* load_policy: what is required, and what the archive map names, is selected.
PolicyOK(c) ==
  /\ \A s \in Range(SourceIds) : \E q \in c.required : q[1] = s
  /\ c.mapped # {}
  /\ \A q \in c.required \cup c.mapped : Covered(q, c.selected)

\* rev-parse and status --untracked-files=no
Identified(s, c) ==
  /\ head[s] = c.revision[s]
  /\ \A q \in DOMAIN Tree[head[s]] : work[q] = Tree[head[s]][q]

\* A mutant of ListedOK: a selected path need not hold a file.
ListedAnything(s, c, listed) == Link \notin Range(listed)

\* The checks on a listing: regular files, for every selected and required path.
ListedOK(s, c, listed) ==
  /\ Link \notin Range(listed)
  /\ \A prefix \in c.selected \cup c.required :
       prefix[1] = s => \E q \in DOMAIN listed : Below(q, prefix)

\* ls-tree asks for HEAD again.
Listed(s, c) == [q \in {q \in DOMAIN Tree[head[s]] : Covered(q, c.selected)} |-> Tree[head[s]][q]]

\* A map over another one.
Over(top, map) == [n \in DOMAIN top \cup DOMAIN map |-> IF n \in DOMAIN top THEN top[n] ELSE map[n]]

NextSource(p) == SourceIds[Cardinality(done[p]) + 1]
LastSource(p) == Cardinality(done[p]) + 1 = Len(SourceIds)

-----------------------------------------------------------------------------
(* package() *)

LoadPolicy(p) ==
  /\ Goto(p, "policy", PolicyOK(policy), "identify")
  /\ pol' = [pol EXCEPT ![p] = policy]
  /\ UNCHANGED <<world, entries, done, value, image, partial, output, crashes>>

Start(p) ==
  /\ Goto(p, "new", output = None, "policy")
  /\ image' = [image EXCEPT ![p] = [manifest |-> None, files |-> <<>>, began |-> edits + moves]]
  /\ UNCHANGED <<world, pol, entries, done, value, partial, output, crashes>>

Identify(p) ==
  /\ pc[p] = "identify"
  /\ Goto(p, "identify", Identified(NextSource(p), pol[p]), "list")
  /\ UNCHANGED <<world, own, partial, output, crashes>>

\* One checkout is listed; after the last one the process goes on to another step.
ListCheckout(p, ok, to) ==
  /\ pc[p] = "list"
  /\ LET s == NextSource(p)
         listed == Listed(s, pol[p]) IN
     /\ Goto(p, "list", ok /\ ListedOK(s, pol[p], listed), IF LastSource(p) THEN to ELSE "identify")
     /\ entries' = [entries EXCEPT ![p] = Over(listed, @)]
     /\ done' = [done EXCEPT ![p] = IF LastSource(p) THEN {} ELSE @ \cup {s}]
  /\ UNCHANGED <<world, pol, value, image, partial, output, crashes>>

\* A listed file must be there.
List(p) ==
  LET present == \A q \in DOMAIN Listed(NextSource(p), pol[p]) : work[q] # None IN
  ListCheckout(p, present, "record")

NextFile(p) == CHOOSE q \in DOMAIN entries[p] \ done[p] : TRUE
LastFile(p) == DOMAIN entries[p] = done[p] \cup {NextFile(p)}
Advance(p) == done' = [done EXCEPT ![p] = IF LastFile(p) THEN {} ELSE @ \cup {NextFile(p)}]

\* source_record: the bytes of a file are those of its blob.
Record(p) ==
  /\ pc[p] = "record"
  /\ Goto(p, "record", work[NextFile(p)] = entries[p][NextFile(p)],
          IF LastFile(p) THEN "manifest" ELSE "record")
  /\ Advance(p)
  /\ UNCHANGED <<world, pol, entries, value, image, partial, output, crashes>>

\* The manifest: what the policy said, and its digest, taken now.
Manifest(c, listed) == [policy |-> c, digest |-> policy, files |-> listed]

MakeManifest(p) ==
  /\ Goto(p, "manifest", partial = None, "open")
  /\ image' = [image EXCEPT ![p].manifest = Manifest(pol[p], entries[p])]
  /\ UNCHANGED <<world, pol, entries, done, value, partial, output, crashes>>

\* Mode "xb"; the handler unlinks what is there, whoever has made it.
OpenPartial(p) ==
  /\ Goto(p, "open", partial = None, "read")
  /\ partial' = IF partial = None THEN p ELSE None
  /\ UNCHANGED <<world, own, output, crashes>>

Discard(ok) == partial' = IF ok THEN partial ELSE None

\* The bytes that go into the archive are read, and then those that are
\* compared with the record.
ReadFile(p) ==
  /\ pc[p] = "read"
  /\ LET ok == work[NextFile(p)] # None IN
     /\ Goto(p, "read", ok, "add")
     /\ value' = [value EXCEPT ![p] = work[NextFile(p)]]
     /\ Discard(ok)
  /\ UNCHANGED <<world, pol, entries, done, image, output, crashes>>

AddFile(p) ==
  /\ pc[p] = "add"
  /\ LET q == NextFile(p)
         ok == work[q] = entries[p][q] IN
     /\ Goto(p, "add", ok, IF LastFile(p) THEN "rename" ELSE "read")
     /\ image' = [image EXCEPT ![p].files = IF ok THEN Over([n \in {q} |-> value[p]], @) ELSE @]
     /\ Discard(ok)
     /\ Advance(p)
  /\ UNCHANGED <<world, pol, entries, value, output, crashes>>

Rename(p) ==
  /\ Goto(p, "rename", partial # None, "done")
  /\ output' = IF partial # None THEN partial ELSE output
  /\ partial' = None
  /\ UNCHANGED <<world, own, crashes>>

Package(p) ==
  \/ Start(p) \/ LoadPolicy(p) \/ Identify(p) \/ List(p) \/ Record(p) \/ MakeManifest(p)
  \/ OpenPartial(p) \/ ReadFile(p) \/ AddFile(p) \/ Rename(p)

-----------------------------------------------------------------------------
(* The environment *)

\* A file of a checkout, or the policy, is edited; an edit may also undo one.
Edit ==
  /\ edits < MaxEdits /\ edits' = edits + 1
  /\ \/ \E q \in Paths : \E b \in (Blobs \cup {None, Committed(q)}) \ {work[q]} :
          work' = [work EXCEPT ![q] = b] /\ UNCHANGED policy
     \/ policy' \in Policies \ {policy} /\ UNCHANGED work
  /\ UNCHANGED <<head, moves, pc, own, partial, output, crashes>>

\* git checkout of another revision.
Move ==
  /\ moves < MaxMoves /\ moves' = moves + 1
  /\ \E s \in Range(SourceIds) : \E r \in DOMAIN Tree \ {head[s]} :
       /\ \A q \in DOMAIN Tree[r] : q[1] = s
       /\ head' = [head EXCEPT ![s] = r]
       /\ work' = [q \in Paths |-> IF q[1] # s THEN work[q]
                                   ELSE IF q \in DOMAIN Tree[r] THEN Tree[r][q] ELSE None]
  /\ UNCHANGED <<policy, edits, pc, own, partial, output, crashes>>

Kill(p) ==
  /\ pc[p] \notin Ended \cup {"new"} /\ crashes < MaxCrashes
  /\ pc' = [pc EXCEPT ![p] = "killed"] /\ crashes' = crashes + 1
  /\ UNCHANGED <<world, own, partial, output>>

-----------------------------------------------------------------------------
(* What is published *)

Published == output # None
Archive == image[output]

\* What docs/ANDROID.md says: bytes that do not hash to the recorded Git blob
\* are rejected, so every member of a published archive is its blob.  The packager
\* reads each file twice and does not keep this; the verifier refuses the archive.
PublishedBytesAreRecorded == Published => Archive.files = Archive.manifest.files

\* What docs/ANDROID.md says: a different commit is rejected, so every member is
\* a file of the revision the policy pins.  The packager resolves HEAD twice and
\* does not keep this; the verifier refuses the archive.
PublishedIsPinned ==
  Published => \A q \in DOMAIN Archive.manifest.files :
    LET r == Archive.manifest.policy.revision[q[1]] IN
    q \in DOMAIN Tree[r] /\ Archive.manifest.files[q] = Tree[r][q]
=============================================================================
