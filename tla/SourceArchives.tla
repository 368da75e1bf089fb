--------------------------- MODULE SourceArchives ---------------------------
(***************************************************************************)
(* What the scripts that make and verify the corresponding source of the   *)
(* desktop share: inputs that may change between two reads, and archives   *)
(* that are written member by member, straight to their place.             *)
(*                                                                         *)
(* A file is its content, and the digest of a content is the content.  A   *)
(* source tree is one member of an archive.                                *)
(***************************************************************************)
EXTENDS Naturals, Sequences, FiniteSets, Functions

CONSTANTS
  Packagers, Verifiers,
  Outputs,        \* the archives that are made: "windows", "desktop", "release"
  Platforms,      \* the binary component policies, "windows" among them
  PolicySets,     \* what the policy files of the working tree may hold
  Candidates,     \* what the source candidate of the Windows build may hold
  Directories,    \* the directories of contrib sources
  Contribs,       \* what they may hold: name -> bytes
  Retained,       \* archives that may be put in the place of one
  Version,        \* the version and commit a process is told of
  MaxEdits, MaxCrashes   \* bounds on changed inputs and killed runs

VARIABLES
  policies, candidate, supplement,   \* the inputs
  archive,   \* for each output its state and its members; by whom it was made
  pc,
  read,      \* what each process has read and relies on, by name
  edits, crashes,
  began      \* the changes there had been when a process began

inputs == <<policies, candidate, supplement, edits>>
vars == <<policies, candidate, supplement, archive, pc, read, edits, crashes, began>>

\* A set in some order.  SequencesExt has it as SetToSeq; each instance of this
\* module would have its other operators too, and a proof about one all of them.
InSomeOrder(S) == CHOOSE f \in [1 .. Cardinality(S) -> S] : IsInjective(f)

Processes == Packagers \cup Verifiers
Ended == {"done", "failed", "killed"}

\* An archive is being written or was left so by a kill (torn), ends early but
\* can be read (short), or is whole.
Readable(a) == archive[a].state \in {"short", "whole"}
Files(a) == archive[a].files

\* A verifier is started when no packager is still writing.
Settled(a) == archive[a].state # "none" /\ \A p \in Packagers : pc[p] # "write"

\* The archive a verifier accepted, and whether nothing has changed since its
\* packager began.
Accepted(v) == read[v]["archive"]
Quiet(a) == a.state = "whole" /\ a.by \in Packagers /\ edits = began[a.by]

\* A map with one entry more, or another one.
With(map, name, value) == [n \in DOMAIN map \cup {name} |-> IF n = name THEN value ELSE map[n]]

Init ==
  /\ policies \in PolicySets /\ candidate \in Candidates
  /\ supplement \in [Directories -> Contribs]
  /\ archive = [a \in Outputs |-> [state |-> "none", files |-> <<>>, by |-> "nobody"]]
  /\ pc = [p \in Processes |-> "new"] /\ read = [p \in Processes |-> <<>>]
  /\ edits = 0 /\ crashes = 0 /\ began = [p \in Processes |-> 0]

Goto(p, at, ok, to) == pc[p] = at /\ pc' = [pc EXCEPT ![p] = IF ok THEN to ELSE "failed"]

\* A step that reads inputs and learns a named fact.
Reads(p, at, ok, to, name, value) ==
  /\ Goto(p, at, ok, to)
  /\ read' = IF ok THEN [read EXCEPT ![p] = With(@, name, value)] ELSE read
  /\ UNCHANGED <<inputs, archive, crashes, began>>

\* The first such step of a process.
Begins(p, ok, to, name, value) ==
  /\ Goto(p, "new", ok, to)
  /\ read' = IF ok THEN [read EXCEPT ![p] = With(<<>>, name, value)] ELSE read
  /\ began' = [began EXCEPT ![p] = edits]
  /\ UNCHANGED <<inputs, archive, crashes>>

\* The archives that the components of some policies come from.
SourcesOf(components) == {components[c].source : c \in DOMAIN components}

\* Mode "xb" makes the file and refuses one that is there.
Create(p, a) ==
  /\ Goto(p, "create", archive[a].state = "none", "write")
  /\ archive' = IF archive[a].state = "none"
                THEN [archive EXCEPT ![a].state = "torn", ![a].by = p] ELSE archive
  /\ UNCHANGED <<inputs, read, crashes, began>>

\* The next member of an archive, if there is a source for its content.  A run that fails here
\* closes the file, which can then be read up to its last member; nothing
\* removes it.
AddMember(p, a, order, contents) ==
  LET m == order[Cardinality(DOMAIN Files(a)) + 1]
      last == Cardinality(DOMAIN Files(a)) + 1 = Len(order) IN
  /\ pc[p] = "write"
  /\ \E ok \in BOOLEAN :
       /\ ok => m \in DOMAIN contents
       /\ Goto(p, "write", ok, IF last THEN "done" ELSE "write")
       /\ archive' = IF ok
                     THEN [archive EXCEPT ![a].files = With(@, m, contents[m]),
                                          ![a].state = IF last THEN "whole" ELSE "torn"]
                     ELSE [archive EXCEPT ![a].state = "short"]
  /\ UNCHANGED <<inputs, read, crashes, began>>

\* An input changes, or an archive nobody writes is replaced by another one.
Edit ==
  /\ edits < MaxEdits /\ edits' = edits + 1
  /\ \/ policies' \in PolicySets \ {policies} /\ UNCHANGED <<candidate, supplement, archive>>
     \/ candidate' \in Candidates \ {candidate} /\ UNCHANGED <<policies, supplement, archive>>
     \/ \E d \in Directories : \E c \in Contribs \ {supplement[d]} :
          supplement' = [supplement EXCEPT ![d] = c] /\ UNCHANGED <<policies, candidate, archive>>
     \/ \E a \in Outputs : \E files \in Retained \ {Files(a)} :
          /\ Readable(a)
          /\ archive' = [archive EXCEPT ![a] = [state |-> "whole", files |-> files, by |-> "nobody"]]
          /\ UNCHANGED <<policies, candidate, supplement>>
  /\ UNCHANGED <<pc, read, crashes, began>>

Kill(p) ==
  /\ pc[p] \notin Ended \cup {"new"} /\ crashes < MaxCrashes
  /\ pc' = [pc EXCEPT ![p] = "killed"] /\ crashes' = crashes + 1
  /\ UNCHANGED <<inputs, archive, read, began>>
=============================================================================
