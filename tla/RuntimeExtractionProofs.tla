----------------------- MODULE RuntimeExtractionProofs -----------------------
(***************************************************************************)
(* Proofs about RuntimeExtraction for any number of processes, files,      *)
(* kills and changes: what is resolved was verified, and what is in place  *)
(* is neither overwritten nor removed.                                     *)
(***************************************************************************)
EXTENDS RuntimeExtraction, TLAPS

\* A process does one of the two things, and the manifest inventories something.
ExtractionAssumption == Processes \cap External = {} /\ Files # {}

Directories == [Files -> Contents]
Types ==
  /\ runtime \in Directories \cup {<<>>}
  /\ temporary \in [Processes -> Directories \cup {<<>>}]
  /\ found \in [Processes -> Directories \cup {<<>>}]
  /\ local \in [files : Directories, manifest : Directories, extra : BOOLEAN]
  /\ pc = [q \in All |-> pc[q]] /\ todo \in [All -> SUBSET Files]
  /\ manifest \in Directories /\ damage \in Nat

\* What a process has copied or verified up to now.
ProcessKnows(p) ==
  /\ pc[p] = "copy" => temporary[p] \in Directories /\ \A f \in Files \ todo[p] : temporary[p][f] = Good
  /\ pc[p] = "move" => temporary[p] = [f \in Files |-> Good]
  /\ pc[p] = "verify" =>
       /\ runtime # <<>>
       /\ \A f \in Files : (runtime[f] = Good \/ f \notin todo[p]) => found[p][f] = Good
  /\ pc[p] = "resolved" => \A f \in Files : found[p][f] = Good
ExternalKnows(p) == damage = 0 =>
  /\ pc[p] \in {"check", "walk", "reread", "resolved"} => manifest = local.manifest
  /\ pc[p] = "check" => \A f \in Files \ todo[p] : local.files[f] = manifest[f]
  /\ pc[p] \in {"walk", "reread", "resolved"} => local.files = manifest
  /\ pc[p] \in {"reread", "resolved"} => ~local.extra
WholeInPlace == damage = 0 /\ runtime # <<>> => \A f \in Files : runtime[f] = Good

IInv ==
  /\ ExtractionAssumption /\ Types /\ WholeInPlace
  /\ \A p \in Processes : ProcessKnows(p)
  /\ \A p \in External : ExternalKnows(p)

\* A directory with the inventoried files is not the absence of one.
LEMMA SomethingIsThere ==
  ASSUME ExtractionAssumption, NEW d \in Directories
  PROVE  d # <<>>
<1>1. DOMAIN d = Files /\ Files # {}
  BY DEF Directories, ExtractionAssumption
<1>2. DOMAIN <<>> = {}
  OBVIOUS
<1> QED
  BY <1>1, <1>2

\* Where a process goes, and that nobody else moves.
LEMMA GotoMoves ==
  ASSUME Types, NEW p \in All, NEW to, Goto(p, to), runtime' \in Directories \cup {<<>>},
         to = "verify" => p \in Processes
  PROVE  /\ pc' = [q \in All |-> pc'[q]] /\ todo' \in [All -> SUBSET Files]
         /\ found' \in [Processes -> Directories \cup {<<>>}]
         /\ pc'[p] = to /\ todo'[p] = Files
         /\ p \in Processes => found'[p] = IF to = "verify" THEN runtime' ELSE found[p]
         /\ \A q \in All \ {p} : pc'[q] = pc[q] /\ todo'[q] = todo[q]
         /\ \A q \in Processes \ {p} : found'[q] = found[q]
BY DEF Types, Goto

\* Which file a process is done with, and where it goes after the last one.
LEMMA DoneMoves ==
  ASSUME Types, NEW p \in All, NEW to, NEW f \in todo[p], Done(p, f, to)
  PROVE  /\ pc' = [q \in All |-> pc'[q]] /\ todo' \in [All -> SUBSET Files] /\ found' = found
         /\ \/ pc'[p] = to /\ todo[p] = {f}
            \/ pc'[p] = pc[p] /\ todo'[p] = todo[p] \ {f}
         /\ \A q \in All \ {p} : pc'[q] = pc[q] /\ todo'[q] = todo[q]
BY DEF Types, Done

\* A process that does nothing knows what it knew: a runtime that is there stays.
LEMMA OthersKnow ==
  ASSUME IInv, NEW q \in Processes, pc'[q] = pc[q], todo'[q] = todo[q],
         temporary'[q] = temporary[q], found'[q] = found[q],
         runtime = <<>> \/ runtime' = runtime
  PROVE  ProcessKnows(q)'
BY DEF IInv, ProcessKnows

\* What a step of one bundled process has to show.
LEMMA ProcessStep ==
  ASSUME IInv, NEW p \in Processes, UNCHANGED others,
         runtime' \in Directories \cup {<<>>}, runtime = <<>> \/ runtime' = runtime,
         temporary' \in [Processes -> Directories \cup {<<>>}],
         found' \in [Processes -> Directories \cup {<<>>}],
         pc' = [q \in All |-> pc'[q]], todo' \in [All -> SUBSET Files],
         \A q \in All \ {p} : pc'[q] = pc[q] /\ todo'[q] = todo[q],
         \A q \in Processes \ {p} : found'[q] = found[q],
         \A q \in Processes \ {p} : temporary'[q] = temporary[q],
         WholeInPlace', ProcessKnows(p)'
  PROVE  IInv'
<1>1. Types'
  BY DEF IInv, Types, others
<1>2. \A q \in Processes : ProcessKnows(q)'
  <2> SUFFICES ASSUME NEW q \in Processes, q # p
               PROVE  ProcessKnows(q)'
    OBVIOUS
  <2>1. q \in All \ {p}
    BY DEF All
  <2> QED
    BY <2>1, OthersKnow
<1>3. \A q \in External : ExternalKnows(q)'
  <2> SUFFICES ASSUME NEW q \in External
               PROVE  ExternalKnows(q)'
    OBVIOUS
  <2>1. q \in All \ {p}
    BY DEF All, IInv, ExtractionAssumption
  <2> QED
    BY <2>1 DEF IInv, ExternalKnows, others
<1> QED
  BY <1>1, <1>2, <1>3 DEF IInv, ExtractionAssumption

\* What a step of a process that was given a directory has to show.
LEMMA ExternalStep ==
  ASSUME IInv, NEW p \in External, UNCHANGED <<bundled, local, damage>>, found' = found,
         pc' = [q \in All |-> pc'[q]], todo' \in [All -> SUBSET Files],
         manifest' \in {manifest, local.manifest},
         \A q \in All \ {p} : pc'[q] = pc[q] /\ todo'[q] = todo[q],
         ExternalKnows(p)'
  PROVE  IInv'
<1>1. Types'
  BY DEF IInv, Types, bundled
<1>2. \A q \in Processes : ProcessKnows(q)'
  <2> SUFFICES ASSUME NEW q \in Processes
               PROVE  ProcessKnows(q)'
    OBVIOUS
  <2>1. q \in All \ {p}
    BY DEF All, IInv, ExtractionAssumption
  <2> QED
    BY <2>1, OthersKnow DEF bundled
<1>3. \A q \in External : ExternalKnows(q)'
  <2> SUFFICES ASSUME NEW q \in External, q # p
               PROVE  ExternalKnows(q)'
    OBVIOUS
  <2>1. q \in All \ {p}
    BY DEF All
  <2> QED
    BY <2>1 DEF IInv, ExternalKnows
<1>4. WholeInPlace'
  BY DEF IInv, WholeInPlace, bundled
<1> QED
  BY <1>1, <1>2, <1>3, <1>4 DEF IInv, ExtractionAssumption

\* The steps of resolveBundled().
LEMMA BundledSteps ==
  ASSUME IInv, NEW p \in Processes,
         Look(p) \/ Verify(p) \/ Create(p) \/ Copy(p) \/ CopyFails(p) \/ Move(p) \/ DeleteTemporary(p)
  PROVE  IInv' /\ (runtime # <<>> => runtime' = runtime)
<1>1. /\ p \in All /\ Types /\ ProcessKnows(p) /\ WholeInPlace /\ ExtractionAssumption
      /\ runtime \in Directories \cup {<<>>}
      /\ temporary \in [Processes -> Directories \cup {<<>>}]
  BY DEF IInv, Types, All
<1>2. CASE Look(p)
  <2> DEFINE to == IF runtime # <<>> THEN "verify" ELSE "create"
  <2>1. pc[p] = "look" /\ UNCHANGED <<bundled, others>> /\ Goto(p, to)
    BY <1>2 DEF Look
  <2>2. UNCHANGED <<runtime, temporary>> /\ WholeInPlace'
    BY <1>1, <2>1 DEF bundled, others, WholeInPlace
  <2> HIDE DEF to
  <2>3. /\ pc' = [q \in All |-> pc'[q]] /\ todo' \in [All -> SUBSET Files]
        /\ found' \in [Processes -> Directories \cup {<<>>}]
        /\ pc'[p] = to /\ todo'[p] = Files
        /\ found'[p] = IF to = "verify" THEN runtime' ELSE found[p]
        /\ \A q \in All \ {p} : pc'[q] = pc[q] /\ todo'[q] = todo[q]
        /\ \A q \in Processes \ {p} : found'[q] = found[q]
    BY <1>1, <2>1, <2>2, GotoMoves
  <2>4. ProcessKnows(p)'
    BY <2>2, <2>3 DEF ProcessKnows, to
  <2> QED
    BY <1>1, <2>1, <2>2, <2>3, <2>4, ProcessStep
<1>3. CASE Verify(p)
  <2>1. pc[p] = "verify" /\ UNCHANGED <<bundled, others>>
    BY <1>3 DEF Verify
  <2>2. UNCHANGED <<runtime, temporary>> /\ WholeInPlace'
    BY <1>1, <2>1 DEF bundled, others, WholeInPlace
  <2>3. PICK f \in todo[p] : IF runtime # <<>> /\ runtime[f] = Good THEN Done(p, f, "resolved")
                                                                    ELSE Goto(p, "failed")
    BY <1>3 DEF Verify
  <2>4. f \in Files
    BY <1>1 DEF Types
  <2>5. CASE runtime[f] = Good /\ Done(p, f, "resolved")
    <3>1. /\ pc' = [q \in All |-> pc'[q]] /\ todo' \in [All -> SUBSET Files] /\ found' = found
          /\ \/ pc'[p] = "resolved" /\ todo[p] = {f}
             \/ pc'[p] = pc[p] /\ todo'[p] = todo[p] \ {f}
          /\ \A q \in All \ {p} : pc'[q] = pc[q] /\ todo'[q] = todo[q]
      BY <1>1, <2>5, DoneMoves
    <3>2. found[p][f] = Good
      BY <1>1, <2>1, <2>4, <2>5 DEF ProcessKnows
    <3>3. ProcessKnows(p)'
      BY <1>1, <2>1, <2>2, <3>1, <3>2 DEF ProcessKnows
    <3>4. found' \in [Processes -> Directories \cup {<<>>}]
      BY <1>1, <3>1 DEF Types
    <3> QED
      BY <1>1, <2>1, <2>2, <3>1, <3>3, <3>4, ProcessStep
  <2>6. CASE Goto(p, "failed")
    <3>1. /\ pc' = [q \in All |-> pc'[q]] /\ todo' \in [All -> SUBSET Files]
          /\ found' \in [Processes -> Directories \cup {<<>>}]
          /\ pc'[p] = "failed"
          /\ \A q \in All \ {p} : pc'[q] = pc[q] /\ todo'[q] = todo[q]
          /\ \A q \in Processes \ {p} : found'[q] = found[q]
      BY <1>1, <2>2, <2>6, GotoMoves
    <3>2. ProcessKnows(p)'
      BY <3>1 DEF ProcessKnows
    <3> QED
      BY <1>1, <2>1, <2>2, <3>1, <3>2, ProcessStep
  <2> QED
    BY <2>3, <2>5, <2>6
<1>4. CASE Create(p) \/ CopyFails(p)
  <2>1. PICK to \in {"copy", "delete"} :
          /\ Goto(p, to)
          /\ UNCHANGED <<runtime, others>>
          /\ \/ temporary' = temporary /\ to = "delete"
             \/ temporary' = [temporary EXCEPT ![p] = [f \in Files |-> "missing"]]
    BY <1>4 DEF Create, CopyFails, bundled
  <2>2. [f \in Files |-> "missing"] \in Directories
    BY DEF Directories, Contents
  <2>3. /\ temporary' \in [Processes -> Directories \cup {<<>>}]
        /\ \A q \in Processes \ {p} : temporary'[q] = temporary[q]
        /\ to = "copy" => temporary'[p] \in Directories
    BY <1>1, <2>1, <2>2
  <2>4. /\ pc' = [q \in All |-> pc'[q]] /\ todo' \in [All -> SUBSET Files]
        /\ found' \in [Processes -> Directories \cup {<<>>}]
        /\ pc'[p] = to /\ todo'[p] = Files
        /\ \A q \in All \ {p} : pc'[q] = pc[q] /\ todo'[q] = todo[q]
        /\ \A q \in Processes \ {p} : found'[q] = found[q]
    BY <1>1, <2>1, GotoMoves
  <2>5. ProcessKnows(p)' /\ WholeInPlace'
    BY <1>1, <2>1, <2>3, <2>4 DEF ProcessKnows, WholeInPlace, others, Directories
  <2> QED
    BY <1>1, <2>1, <2>3, <2>4, <2>5, ProcessStep
<1>5. CASE Copy(p)
  <2>1. pc[p] = "copy" /\ UNCHANGED <<runtime, others>>
    BY <1>5 DEF Copy
  <2>2. PICK f \in todo[p], c \in {Good, "changed"} :
          /\ temporary' = [temporary EXCEPT ![p][f] = c]
          /\ IF c = Good THEN Done(p, f, "move") ELSE Goto(p, "fail")
    BY <1>5 DEF Copy
  <2>3. f \in Files /\ temporary[p] \in Directories /\ c \in Contents
    BY <1>1, <2>1 DEF Types, ProcessKnows, Contents
  <2>4. /\ temporary' \in [Processes -> Directories \cup {<<>>}]
        /\ \A q \in Processes \ {p} : temporary'[q] = temporary[q]
        /\ temporary'[p] = [temporary[p] EXCEPT ![f] = c]
        /\ temporary'[p] \in Directories
    BY <1>1, <2>2, <2>3 DEF Directories
  <2>5. WholeInPlace'
    BY <1>1, <2>1 DEF WholeInPlace, others
  <2>6. CASE c = Good /\ Done(p, f, "move")
    <3>1. /\ pc' = [q \in All |-> pc'[q]] /\ todo' \in [All -> SUBSET Files] /\ found' = found
          /\ \/ pc'[p] = "move" /\ todo[p] = {f}
             \/ pc'[p] = pc[p] /\ todo'[p] = todo[p] \ {f}
          /\ \A q \in All \ {p} : pc'[q] = pc[q] /\ todo'[q] = todo[q]
      BY <1>1, <2>6, DoneMoves
    <3>2. \A g \in Files : g \notin todo[p] \/ g = f => temporary'[p][g] = Good
      BY <1>1, <2>1, <2>3, <2>4, <2>6 DEF ProcessKnows, Directories
    <3>3. pc'[p] = "move" /\ todo[p] = {f} => temporary'[p] = [g \in Files |-> Good]
      BY <2>4, <3>2 DEF Directories
    <3>4. ProcessKnows(p)'
      BY <2>1, <2>4, <3>1, <3>2, <3>3 DEF ProcessKnows
    <3>5. found' \in [Processes -> Directories \cup {<<>>}]
      BY <1>1, <3>1 DEF Types
    <3> QED
      BY <1>1, <2>1, <2>4, <2>5, <3>1, <3>4, <3>5, ProcessStep
  <2>7. CASE Goto(p, "fail")
    <3>1. /\ pc' = [q \in All |-> pc'[q]] /\ todo' \in [All -> SUBSET Files]
          /\ found' \in [Processes -> Directories \cup {<<>>}]
          /\ pc'[p] = "fail"
          /\ \A q \in All \ {p} : pc'[q] = pc[q] /\ todo'[q] = todo[q]
          /\ \A q \in Processes \ {p} : found'[q] = found[q]
      BY <1>1, <2>1, <2>7, GotoMoves
    <3>2. ProcessKnows(p)'
      BY <3>1 DEF ProcessKnows
    <3> QED
      BY <1>1, <2>1, <2>4, <2>5, <3>1, <3>2, ProcessStep
  <2> QED
    BY <2>2, <2>6, <2>7
<1>6. CASE Move(p) \/ DeleteTemporary(p)
  <2>1. PICK to \in {"verify", "delete", "failed"} :
          /\ Goto(p, to)
          /\ UNCHANGED others
          /\ temporary' \in {temporary, [temporary EXCEPT ![p] = <<>>]}
          /\ \/ runtime' = runtime /\ (to = "verify" => runtime # <<>>)
             \/ pc[p] = "move" /\ runtime = <<>> /\ runtime' = temporary[p]
    BY <1>6 DEF Move, DeleteTemporary, bundled
  <2>2. [f \in Files |-> Good] \in Directories /\ [f \in Files |-> Good] # <<>>
    <3>1. [f \in Files |-> Good] \in Directories
      BY DEF Directories, Contents
    <3> QED
      BY <1>1, <3>1, SomethingIsThere
  <2>3. /\ runtime' \in Directories \cup {<<>>} /\ WholeInPlace'
        /\ runtime = <<>> \/ runtime' = runtime
        /\ to = "verify" => runtime' # <<>>
    BY <1>1, <2>1, <2>2 DEF ProcessKnows, WholeInPlace, others
  <2>4. /\ temporary' \in [Processes -> Directories \cup {<<>>}]
        /\ \A q \in Processes \ {p} : temporary'[q] = temporary[q]
    BY <1>1, <2>1
  <2>5. /\ pc' = [q \in All |-> pc'[q]] /\ todo' \in [All -> SUBSET Files]
        /\ found' \in [Processes -> Directories \cup {<<>>}]
        /\ pc'[p] = to /\ todo'[p] = Files
        /\ found'[p] = IF to = "verify" THEN runtime' ELSE found[p]
        /\ \A q \in All \ {p} : pc'[q] = pc[q] /\ todo'[q] = todo[q]
        /\ \A q \in Processes \ {p} : found'[q] = found[q]
    BY <1>1, <2>1, <2>3, GotoMoves
  <2>6. ProcessKnows(p)'
    BY <2>3, <2>5 DEF ProcessKnows
  <2> QED
    BY <1>1, <2>1, <2>3, <2>4, <2>5, <2>6, ProcessStep
<1> QED
  BY <1>2, <1>3, <1>4, <1>5, <1>6

\* The steps of resolveExternalDirectory().
LEMMA ExternalSteps ==
  ASSUME IInv, NEW p \in External, ReadManifest(p) \/ VerifyLocal(p) \/ Walk(p) \/ ReadAgain(p)
  PROVE  IInv' /\ runtime' = runtime
<1>1. /\ p \in All /\ Types /\ ExternalKnows(p) /\ runtime \in Directories \cup {<<>>}
      /\ p \notin Processes /\ manifest \in Directories
      /\ local \in [files : Directories, manifest : Directories, extra : BOOLEAN]
  BY DEF IInv, Types, All, ExtractionAssumption
<1>2. CASE \E to \in {"check", "failed", "reread", "resolved"} :
             /\ Goto(p, to) /\ UNCHANGED <<bundled, local, damage>>
             /\ manifest' \in {manifest, local.manifest}
             /\ to = "check" => manifest' = local.manifest
             /\ to = "reread" => pc[p] = "walk" /\ ~local.extra
             /\ to = "resolved" => pc[p] = "reread" /\ local.manifest = manifest
  <2>1. PICK to \in {"check", "failed", "reread", "resolved"} :
             /\ Goto(p, to) /\ UNCHANGED <<bundled, local, damage>>
             /\ manifest' \in {manifest, local.manifest}
             /\ to = "check" => manifest' = local.manifest
             /\ to = "reread" => pc[p] = "walk" /\ ~local.extra
             /\ to = "resolved" => pc[p] = "reread" /\ local.manifest = manifest
    BY <1>2
  <2>2. runtime' = runtime /\ local' = local /\ damage' = damage /\ found' = found
    BY <2>1 DEF bundled, Goto
  <2>3. /\ pc' = [q \in All |-> pc'[q]] /\ todo' \in [All -> SUBSET Files]
        /\ pc'[p] = to /\ todo'[p] = Files
        /\ \A q \in All \ {p} : pc'[q] = pc[q] /\ todo'[q] = todo[q]
    BY <1>1, <2>1, <2>2, GotoMoves
  <2>4. ExternalKnows(p)'
    BY <1>1, <2>1, <2>2, <2>3 DEF ExternalKnows
  <2> QED
    BY <2>1, <2>2, <2>3, <2>4, ExternalStep
<1>3. CASE VerifyLocal(p) /\ \E f \in todo[p] : local.files[f] = manifest[f] /\ Done(p, f, "walk")
  <2>1. PICK f \in todo[p] : local.files[f] = manifest[f] /\ Done(p, f, "walk")
    BY <1>3
  <2>2. pc[p] = "check" /\ UNCHANGED <<bundled, local, damage, manifest>>
    BY <1>3 DEF VerifyLocal, others
  <2>3. /\ pc' = [q \in All |-> pc'[q]] /\ todo' \in [All -> SUBSET Files] /\ found' = found
        /\ \/ pc'[p] = "walk" /\ todo[p] = {f}
           \/ pc'[p] = pc[p] /\ todo'[p] = todo[p] \ {f}
        /\ \A q \in All \ {p} : pc'[q] = pc[q] /\ todo'[q] = todo[q]
    BY <1>1, <2>1, DoneMoves
  <2>4. damage = 0 =>
          \A g \in Files : g \notin todo[p] \/ g = f => local.files[g] = manifest[g]
    BY <1>1, <2>1, <2>2 DEF ExternalKnows
  <2>5. damage = 0 /\ todo[p] = {f} => local.files = manifest
    BY <1>1, <2>4 DEF Directories
  <2>6. ExternalKnows(p)'
    BY <1>1, <2>2, <2>3, <2>4, <2>5 DEF ExternalKnows
  <2> QED
    BY <2>2, <2>3, <2>6, ExternalStep DEF bundled
<1>4. VerifyLocal(p) =>
        \/ \E f \in todo[p] : local.files[f] = manifest[f] /\ Done(p, f, "walk")
        \/ Goto(p, "failed") /\ UNCHANGED <<bundled, others>>
  BY DEF VerifyLocal
<1> QED
  BY <1>2, <1>3, <1>4 DEF ReadManifest, Walk, ReadAgain, others, bundled

\* A killed process knows nothing, and what others know is not touched.
LEMMA KillStep ==
  ASSUME IInv, NEW p \in All, Kill(p)
  PROVE  IInv' /\ runtime' = runtime
<1>1. UNCHANGED <<runtime, temporary, local, todo, manifest, damage, found>>
      /\ pc' = [pc EXCEPT ![p] = "killed"]
  BY DEF Kill, bundled
<1>2. /\ pc = [q \in All |-> pc[q]] /\ pc' = [q \in All |-> pc'[q]] /\ pc'[p] = "killed"
      /\ \A q \in All \ {p} : pc'[q] = pc[q]
  BY <1>1 DEF IInv, Types
<1>3. Types' /\ WholeInPlace' /\ ExtractionAssumption'
  BY <1>1, <1>2 DEF IInv, Types, WholeInPlace, ExtractionAssumption
<1>4. \A q \in Processes : ProcessKnows(q)'
  <2> SUFFICES ASSUME NEW q \in Processes
               PROVE  ProcessKnows(q)'
    OBVIOUS
  <2>1. CASE q = p
    BY <1>2, <2>1 DEF ProcessKnows
  <2>2. CASE q # p
    BY <1>1, <1>2, <2>2, OthersKnow DEF All
  <2> QED
    BY <2>1, <2>2
<1>5. \A q \in External : ExternalKnows(q)'
  <2> SUFFICES ASSUME NEW q \in External
               PROVE  ExternalKnows(q)'
    OBVIOUS
  <2>1. CASE q = p
    BY <1>2, <2>1 DEF ExternalKnows
  <2>2. CASE q # p
    BY <1>1, <1>2, <2>2 DEF IInv, ExternalKnows, All
  <2> QED
    BY <2>1, <2>2
<1> QED
  BY <1>1, <1>3, <1>4, <1>5 DEF IInv

\* A damaged file is not good, so what is still good was good before.
LEMMA DamageStep ==
  ASSUME IInv, Damage
  PROVE  IInv' /\ damage' # damage
<1>1. UNCHANGED <<temporary, pc, todo, manifest, found>> /\ damage' = damage + 1
  BY DEF Damage
<1>2. damage \in Nat /\ damage' # 0 /\ damage' # damage /\ damage' \in Nat
  BY <1>1 DEF IInv, Types
<1>3. /\ runtime' \in Directories \cup {<<>>} /\ (runtime # <<>> => runtime' # <<>>)
      /\ \A f \in Files : runtime # <<>> /\ runtime'[f] = Good => runtime[f] = Good
  <2>1. CASE runtime' = runtime
    BY <2>1 DEF IInv, Types
  <2>2. CASE runtime # <<>> /\ \E f \in Files, c \in {"changed", "missing"} :
                                  runtime' = [runtime EXCEPT ![f] = c]
    <3>1. PICK f \in Files, c \in {"changed", "missing"} : runtime' = [runtime EXCEPT ![f] = c]
      BY <2>2
    <3>2. runtime \in Directories /\ c \in Contents /\ c # Good
      BY <2>2 DEF IInv, Types, Contents, Good
    <3>3. runtime' \in Directories
      BY <3>1, <3>2 DEF Directories
    <3>4. runtime' # <<>>
      BY <3>3, SomethingIsThere DEF IInv
    <3> QED
      BY <3>1, <3>2, <3>3, <3>4 DEF Directories
  <2> QED
    BY <2>1, <2>2 DEF Damage
<1>4. local' \in [files : Directories, manifest : Directories, extra : BOOLEAN]
  BY DEF Damage, IInv, Types, Directories, Contents
<1>5. Types' /\ ExtractionAssumption' /\ WholeInPlace'
  BY <1>1, <1>2, <1>3, <1>4 DEF IInv, Types, ExtractionAssumption, WholeInPlace
<1>6. \A q \in Processes : ProcessKnows(q)'
  BY <1>1, <1>3 DEF IInv, ProcessKnows
<1>7. \A q \in External : ExternalKnows(q)'
  BY <1>2 DEF ExternalKnows
<1> QED
  BY <1>2, <1>5, <1>6, <1>7 DEF IInv

\* Before anybody has looked.
LEMMA InitKnows == ExtractionAssumption /\ Init => IInv
<1> SUFFICES ASSUME ExtractionAssumption, Init
             PROVE  IInv
  OBVIOUS
<1>1. /\ [f \in Files |-> Good] \in Directories /\ [Files -> {Good, "changed"}] \subseteq Directories
  BY DEF Directories, Contents
<1>2. local \in [files : Directories, manifest : Directories, extra : BOOLEAN]
  BY <1>1 DEF Init
<1>3. Types
  BY <1>1, <1>2 DEF Init, Types
<1>4. \A p \in All : pc[p] \in {"read", "look"}
  BY DEF Init
<1>5. (\A p \in Processes : ProcessKnows(p)) /\ (\A p \in External : ExternalKnows(p))
  BY <1>4 DEF ProcessKnows, ExternalKnows, All
<1> QED
  BY <1>3, <1>5 DEF IInv, WholeInPlace, Init

\* Every step of every process, kill and change keeps the invariant.
LEMMA NextKnows ==
  ASSUME IInv, [Next]_vars
  PROVE  IInv' /\ [runtime # <<>> => runtime' = runtime \/ damage' # damage]_vars
<1>1. CASE \E p \in Processes : \/ Look(p) \/ Verify(p) \/ Create(p) \/ Copy(p) \/ CopyFails(p)
                                \/ Move(p) \/ DeleteTemporary(p)
  BY <1>1, BundledSteps
<1>2. CASE \E p \in External : ReadManifest(p) \/ VerifyLocal(p) \/ Walk(p) \/ ReadAgain(p)
  BY <1>2, ExternalSteps
<1>3. CASE \E p \in All : Kill(p)
  BY <1>3, KillStep
<1>4. CASE Damage
  BY <1>4, DamageStep
<1>5. CASE UNCHANGED vars
  BY SMTT(60), <1>5 DEF vars, IInv, ExtractionAssumption, Types, WholeInPlace, ProcessKnows,
                    ExternalKnows
<1> QED
  BY <1>1, <1>2, <1>3, <1>4, <1>5 DEF Next

\* Under the invariant what has been resolved was verified.
LEMMA InvIsVerified == IInv => OnlyVerifiedResolved
  BY DEF IInv, OnlyVerifiedResolved, ProcessKnows, ExternalKnows, WholeInPlace

\* Whoever resolves a runtime has verified every file of it, without damage the one in
\* place is whole, and nobody overwrites or removes it (VlcDesktopRuntime).
THEOREM ResolvedIsVerified ==
  ExtractionAssumption /\ Spec => []OnlyVerifiedResolved /\ NeverOverwritten
  BY NextKnows, InvIsVerified, InitKnows, PTL DEF Spec, NeverOverwritten
=============================================================================
