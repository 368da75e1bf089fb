------------------------ MODULE ArchivePrefetchProofs ------------------------
(***************************************************************************)
(* Proofs about ArchivePrefetch for any set of jobs, any number of mirrors *)
(* and any number of jobs killed: the shared archive changes only into the *)
(* content the manifest binds, success means it is there, and a job leaves *)
(* no temporary file unless it is killed.                                  *)
(***************************************************************************)
EXTENDS ArchivePrefetch, TLAPS

\* A job that has looked at the directory found no archive there: what is there
\* by now was put there by another job, checked.
Fetching == {"mkstemp", "try", "bundle", "verify", "replace", "cleanup"}
FetchedIntoNothing ==
  \A j \in Jobs : pc[j] \in Fetching => destination = Absent \/ Binds(destination)

\* What a job is about to move into the directory has been checked.
CheckedBeforeReplace == \A j \in Jobs : pc[j] = "replace" => Binds(temporary[j])

IInv == /\ TypeOK
        /\ FetchedIntoNothing
        /\ CheckedBeforeReplace
        /\ SuccessMeansPinned
        /\ NoTemporaryLeft

\* The manifest binds the archive to one content at most.
LEMMA BoundOnce == ASSUME NEW a, NEW b, Binds(a), Binds(b) PROVE a = b
<1>1. PICK i \in DOMAIN manifest :
        {k \in DOMAIN manifest : manifest[k].archive} = {i} /\ manifest[i].digest = a
  BY DEF Binds
<1>2. PICK k \in DOMAIN manifest :
        {n \in DOMAIN manifest : manifest[n].archive} = {k} /\ manifest[k].digest = b
  BY DEF Binds
<1> QED
  BY <1>1, <1>2

\* What the manifest binds depends on the manifest alone.
LEMMA BindsStable == ASSUME UNCHANGED manifest, NEW a PROVE Binds(a)' <=> Binds(a)
BY DEF Binds

\* Every step keeps the invariant: nothing but Replace touches the archive, and
\* the job that replaces it has checked what it puts there.
LEMMA InvStep == IInv /\ [Next]_vars => IInv'
<1> SUFFICES ASSUME IInv, [Next]_vars PROVE IInv'
  OBVIOUS
<1> USE PrefetchAssumption DEF IInv, TypeOK, FetchedIntoNothing, CheckedBeforeReplace,
        SuccessMeansPinned, NoTemporaryLeft, Fetching, Goto, Places, Ended, Receive, Expected
<1>1. UNCHANGED manifest
  BY DEF Next, Step, vars, Start, Look, MakeTemporary, TryMirror, GiveUpMirrors,
         FromBundle, Verify, Replace, Cleanup, Kill
<1>2. \A a : Binds(a)' <=> Binds(a)
  BY <1>1, BindsStable
<1>3. ASSUME NEW j \in Jobs, Start(j) PROVE IInv'
  BY <1>2, <1>3 DEF Start
<1>4. ASSUME NEW j \in Jobs, Look(j) PROVE IInv'
  BY <1>2, <1>4 DEF Look
<1>5. ASSUME NEW j \in Jobs, MakeTemporary(j) PROVE IInv'
  BY <1>2, <1>5 DEF MakeTemporary
<1>6. ASSUME NEW j \in Jobs, TryMirror(j) PROVE IInv'
  BY <1>2, <1>6 DEF TryMirror
<1>7. ASSUME NEW j \in Jobs, GiveUpMirrors(j) PROVE IInv'
  BY <1>2, <1>7 DEF GiveUpMirrors
<1>8. ASSUME NEW j \in Jobs, FromBundle(j) PROVE IInv'
  BY <1>2, <1>8 DEF FromBundle
<1>9. ASSUME NEW j \in Jobs, Verify(j) PROVE IInv'
  BY <1>2, <1>9 DEF Verify
<1>10. ASSUME NEW j \in Jobs, Cleanup(j) PROVE IInv'
  BY <1>2, <1>10 DEF Cleanup
<1>11. ASSUME NEW j \in Jobs, Kill(j) PROVE IInv'
  BY <1>2, <1>11 DEF Kill
<1>12. ASSUME NEW j \in Jobs, Replace(j) PROVE IInv'
  <2>1. Binds(temporary[j]) /\ destination' = temporary[j]
    BY <1>12 DEF Replace
  <2>2. temporary[j] \in Contents
    BY <2>1 DEF Binds, Manifests, Line
  <2>3. Binds(destination)'
    BY <2>1, <1>2 DEF Replace
  <2> QED
    BY <1>2, <1>12, <2>1, <2>2, <2>3 DEF Replace
<1>13. CASE UNCHANGED vars
  BY <1>2, <1>13 DEF vars
<1> QED
  BY <1>3, <1>4, <1>5, <1>6, <1>7, <1>8, <1>9, <1>10, <1>11, <1>12, <1>13 DEF Next, Step

\* The inductive invariant: a job that is fetching found no archive there, and
\* checks what it has fetched before it moves it into the directory.
THEOREM Prefetching == Spec => []IInv
<1>1. Init => IInv
  BY PrefetchAssumption DEF Init, IInv, TypeOK, FetchedIntoNothing, CheckedBeforeReplace,
     SuccessMeansPinned, NoTemporaryLeft, Fetching, Places, Ended
<1> QED
  BY <1>1, InvStep, PTL DEF Spec

\* A job that reports success leaves the pinned archive to the build.
THEOREM SuccessIsPinned == Spec => []SuccessMeansPinned
<1>1. IInv => SuccessMeansPinned
  BY DEF IInv
<1> QED
  BY <1>1, Prefetching, PTL

\* A temporary file survives only the job that still uses it, or a kill.
THEOREM TemporaryRemoved == Spec => []NoTemporaryLeft
<1>1. IInv => NoTemporaryLeft
  BY DEF IInv
<1> QED
  BY <1>1, Prefetching, PTL

\* Whatever the mirrors send and whoever is killed, the shared archive changes
\* only from absent into the pinned content.
THEOREM OnlyVerified == Spec => OnlyVerifiedContent
<1>1. IInv /\ [Next]_vars =>
        [destination' # destination => destination = Absent /\ Binds(destination')]_destination
  <2> SUFFICES ASSUME IInv, Next, destination' # destination
               PROVE  destination = Absent /\ Binds(destination')
    BY DEF vars
  <2>1. PICK j \in Jobs : Replace(j)
    BY DEF Next, Step, Start, Look, MakeTemporary, TryMirror, GiveUpMirrors,
           FromBundle, Verify, Cleanup, Kill
  <2>2. Binds(temporary[j]) /\ destination' = temporary[j] /\ UNCHANGED manifest
    BY <2>1 DEF Replace, Goto, IInv, CheckedBeforeReplace
  <2>3. destination = Absent \/ Binds(destination)
    BY <2>1 DEF Replace, Goto, IInv, FetchedIntoNothing, Fetching
  <2> QED
    BY <2>2, <2>3, BoundOnce
<1> QED
  BY <1>1, Prefetching, PTL DEF Spec, OnlyVerifiedContent
=============================================================================
