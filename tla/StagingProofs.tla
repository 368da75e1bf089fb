---------------------------- MODULE StagingProofs ----------------------------
(***************************************************************************)
(* Proofs about the scripts that stage a runtime and package it.           *)
(***************************************************************************)
EXTENDS MCStaging, Integers, FiniteSetTheorems, WellFoundedInduction, TLAPS

-----------------------------------------------------------------------------
(* Sequences of files *)

\* A set of natural numbers that is not empty has a least element: of the initial
\* segments 1 .. k one has no other one of them inside it.
LEMMA LeastNumber ==
  ASSUME NEW S \in SUBSET Nat, S # {}
  PROVE  \E m \in S : \A k \in S : m <= k
<1> DEFINE T == {1 .. k : k \in S}
<1>1. T \subseteq FiniteSubsetsOf(Nat)
  <2> SUFFICES ASSUME NEW k \in S
               PROVE  1 .. k \in SUBSET Nat /\ IsFiniteSet(1 .. k)
    BY DEF FiniteSubsetsOf
  <2> QED
    BY FS_Interval
<1>2. T # {}
  OBVIOUS
<1>3. PICK x \in T : \A y \in T : ~(<<y, x>> \in StrictSubsetOrdering(Nat))
  BY <1>1, <1>2, FS_StrictSubsetOrderingWellFounded, WFMin
<1>4. PICK m \in S : x = 1 .. m
  OBVIOUS
<1>5. ASSUME NEW k \in S, k < m
      PROVE  FALSE
  <2>1. <<1 .. k, 1 .. m>> \notin StrictSubsetOrdering(Nat)
    BY <1>3, <1>4
  <2>2. 1 .. k \in SUBSET Nat /\ 1 .. m \in SUBSET Nat /\ 1 .. k \subseteq 1 .. m
    BY <1>5
  <2>3. m \in 1 .. m /\ m \notin 1 .. k
    BY <1>5
  <2> QED
    BY <2>1, <2>2, <2>3 DEF StrictSubsetOrdering
<1> QED
  BY <1>5

\* The next file is the first one of the sequence that is not in the set.
LEMMA NextIsNext ==
  ASSUME NEW S, NEW seq \in Seq(S), NEW set, ~(Linux!Range(seq) \subseteq set)
  PROVE  /\ Linux!NextOf(seq, set) \in Linux!Range(seq)
         /\ Linux!NextOf(seq, set) \notin set
<1> DEFINE missing == {i \in DOMAIN seq : seq[i] \notin set}
           First(i) == seq[i] \notin set /\ \A j \in 1 .. i - 1 : seq[j] \in set
<1>1. missing \in SUBSET Nat /\ missing # {}
  BY DEF Linux!Range
<1>2. PICK m \in missing : \A k \in missing : m <= k
  BY <1>1, LeastNumber
<1>3. First(m)
  BY <1>2
<1>4. PICK i \in DOMAIN seq : /\ i = CHOOSE k \in DOMAIN seq : First(k)
                              /\ First(i)
  BY <1>3
<1> QED
  BY <1>4 DEF Linux!NextOf, Linux!Range

\* A finite set in any order is the set.
LEMMA SequenceOfSet ==
  ASSUME NEW S, IsFiniteSet(S)
  PROVE  Linux!SetToSeq(S) \in Seq(S) /\ Linux!Range(Linux!SetToSeq(S)) = S
<1>1. Cardinality(S) \in Nat /\ ExistsBijection(1 .. Cardinality(S), S)
  BY FS_CardinalityType
<1>2. PICK b \in Bijection(1 .. Cardinality(S), S) : TRUE
  BY <1>1 DEF ExistsBijection
<1>3. Linux!Cardinality(S) = Cardinality(S)
  BY Zenon DEF Linux!Cardinality, Cardinality
<1>4. b \in [1 .. Linux!Cardinality(S) -> S] /\ Linux!IsInjective(b)
  BY <1>2, <1>3 DEF Bijection, Injection, IsInjective, Linux!IsInjective
<1> DEFINE f == Linux!SetToSeq(S)
<1>5. f \in [1 .. Linux!Cardinality(S) -> S] /\ Linux!IsInjective(f)
  BY <1>4 DEF Linux!SetToSeq
<1>6. f \in Injection(1 .. Cardinality(S), S)
  BY <1>3, <1>5 DEF Injection, IsInjective, Linux!IsInjective
<1>7. IsFiniteSet(1 .. Cardinality(S)) /\ Cardinality(1 .. Cardinality(S)) = Cardinality(S)
  BY <1>1, FS_Interval
<1>8. f \in Surjection(1 .. Cardinality(S), S)
  BY <1>6, <1>7, FS_Injection
<1>9. Linux!Range(f) = S
  BY <1>8 DEF Surjection, Linux!Range
<1> QED
  BY <1>1, <1>3, <1>5, <1>9

\* What two sequences hold, one after the other.
LEMMA RangeOfBoth ==
  ASSUME NEW S, NEW s \in Seq(S), NEW t \in Seq(S)
  PROVE  s \o t \in Seq(S) /\ Linux!Range(s \o t) = Linux!Range(s) \cup Linux!Range(t)
<1>1. /\ s \o t \in Seq(S)
      /\ Len(s \o t) = Len(s) + Len(t)
      /\ \A i \in 1 .. Len(s) + Len(t) : (s \o t)[i] = IF i <= Len(s) THEN s[i] ELSE t[i - Len(s)]
  OBVIOUS
<1>2. Linux!Range(s \o t) \subseteq Linux!Range(s) \cup Linux!Range(t)
  BY <1>1 DEF Linux!Range
<1>3. Linux!Range(s) \subseteq Linux!Range(s \o t)
  BY <1>1 DEF Linux!Range
<1>4. ASSUME NEW i \in DOMAIN t
      PROVE  t[i] \in Linux!Range(s \o t)
  <2>1. i + Len(s) \in DOMAIN (s \o t) /\ (s \o t)[i + Len(s)] = t[i]
    BY <1>1
  <2> QED
    BY <2>1 DEF Linux!Range
<1> QED
  BY <1>1, <1>2, <1>3, <1>4 DEF Linux!Range

-----------------------------------------------------------------------------
(* What a policy selects *)

Main == {"libvlc", "core", "bridge"}
Selection(p) == Main \cup DOMAIN p.support \cup p.modules

\* A selected file is neither the cache nor what a tool leaves behind.
LEMMA SelectionApart ==
  ASSUME NEW p \in LinuxPolicies \cup MacPolicies \cup WindowsPolicies \cup IosPolicies
  PROVE  Selection(p) \cap (Strays \cup {"plugins.dat"}) = {}
BY StagingAssumption DEF Selection, Main

\* The order in which files are staged has each file that the policy selects.
LEMMA LinuxOrder ==
  ASSUME policy \in LinuxPolicies \cup MacPolicies \cup WindowsPolicies \cup IosPolicies
  PROVE  Linux!Order \in Seq(Selection(policy)) /\ Linux!Range(Linux!Order) = Selection(policy)
<1> DEFINE support == Linux!SetToSeq(DOMAIN policy.support)
           modules == Linux!SetToSeq(policy.modules)
<1>1. support \in Seq(Selection(policy)) /\ Linux!Range(support) = DOMAIN policy.support
  <2>1. support \in Seq(DOMAIN policy.support) /\ Linux!Range(support) = DOMAIN policy.support
    BY StagingAssumption, SequenceOfSet
  <2> QED
    BY <2>1 DEF Selection
<1>2. modules \in Seq(Selection(policy)) /\ Linux!Range(modules) = policy.modules
  <2>1. modules \in Seq(policy.modules) /\ Linux!Range(modules) = policy.modules
    BY StagingAssumption, SequenceOfSet
  <2> QED
    BY <2>1 DEF Selection
<1>3. Linux!Fixed \in Seq(Selection(policy)) /\ Linux!Range(Linux!Fixed) = Main
  BY DEF Linux!Fixed, Linux!Range, Selection, Main
<1> HIDE DEF support, modules
<1>4. /\ Linux!Fixed \o support \in Seq(Selection(policy))
      /\ Linux!Range(Linux!Fixed \o support) = Main \cup DOMAIN policy.support
  BY <1>1, <1>3, RangeOfBoth
<1> DEFINE first == Linux!Fixed \o support
<1> HIDE DEF first
<1>5. /\ first \in Seq(Selection(policy))
      /\ Linux!Range(first) = Main \cup DOMAIN policy.support
  BY <1>4 DEF first
<1>6. /\ first \o modules \in Seq(Selection(policy))
      /\ Linux!Range(first \o modules) = Linux!Range(first) \cup Linux!Range(modules)
  BY <1>2, <1>5, RangeOfBoth
<1>7. Linux!Range(first \o modules) = Selection(policy)
  BY <1>2, <1>5, <1>6 DEF Selection
<1> QED
  BY <1>6, <1>7 DEF Linux!Order, first, support, modules

\* The next file to stage is a selected one that is not yet there.
LEMMA LinuxNext ==
  ASSUME policy \in LinuxPolicies \cup MacPolicies \cup WindowsPolicies \cup IosPolicies,
         NEW set, ~(Selection(policy) \subseteq set)
  PROVE  /\ Linux!NextOf(Linux!Order, set) \in Selection(policy)
         /\ Linux!NextOf(Linux!Order, set) \notin set
         /\ Linux!Finishes(Linux!Order, set, Linux!NextOf(Linux!Order, set)) <=>
              Selection(policy) \subseteq set \cup {Linux!NextOf(Linux!Order, set)}
<1>1. Linux!Order \in Seq(Selection(policy)) /\ Linux!Range(Linux!Order) = Selection(policy)
  BY LinuxOrder
<1> QED
  BY <1>1, NextIsNext DEF Linux!Finishes

\* What an audit says of a file, for the policy it was made with.
LinuxSound(p, f, b) ==
  /\ b.name = f
  /\ b.path = (IF f \in p.modules THEN "../../../bin" ELSE ".")
  /\ \A i \in DOMAIN b.needs :
       b.needs[i] = "core" \/ b.needs[i] \in DOMAIN p.support \/ b.needs[i] \in p.system

\* What the Linux audit accepts is sound: the run path of the file's role, and no
\* dependency but the core, a support library or a library of the system.
LEMMA LinuxAudit ==
  ASSUME policy \in LinuxPolicies, NEW f \in Selection(policy), NEW b, Linux!AuditElf(f, b)
  PROVE  LinuxSound(policy, f, b)
<1>1. Linux!RoleOf(f) = "PLUGIN" <=> f \in policy.modules
  BY StagingAssumption DEF Linux!RoleOf, Selection, Main
<1> QED
  BY <1>1 DEF Linux!AuditElf, LinuxSound, Linux!RunPath, Linux!Range, Linux!Required

-----------------------------------------------------------------------------
(* Runs that follow each other *)

Active(r) == pc[r] \notin {"new", "done", "failed", "killed"}

\* What the runs S keep of their own; a run that has not begun keeps nothing.
Shape(S) ==
  /\ pc = [r \in S |-> pc[r]] /\ listed = [r \in S |-> listed[r]]
  /\ audited = [r \in S |-> audited[r]] /\ staged = [f \in DOMAIN staged |-> staged[f]]
  /\ \A r \in S : pc[r] = "new" => listed[r] = <<>> /\ audited[r] = {}

\* One run is underway, and while it is there is no whole report.
Turns(S) ==
  /\ \A r, q \in S : Active(r) /\ Active(q) => r = q
  /\ \A r \in S : Active(r) => report.state # "whole"

Current == staged["plugins.dat"] = [f \in DOMAIN staged \cap policy.modules |-> staged[f]]

Exact(p) ==
  /\ DOMAIN p.moduleComponents \subseteq p.modules
  /\ p.core \cup UNION {p.moduleComponents[m] : m \in DOMAIN p.moduleComponents} = p.components

-----------------------------------------------------------------------------
(* Linux *)

\* What a run of the Linux script knows at each place: the policy was accepted,
\* what it has listed is staged, what it has audited is sound, the cache it has
\* made is current, and what it has hashed last is everything that is staged.
LinuxWork(r) ==
  Active(r) =>
    /\ Exact(policy)
    /\ DOMAIN listed[r] \subseteq DOMAIN staged
    /\ pc[r] = "copy" <=> ~(Selection(policy) \subseteq DOMAIN listed[r])
    /\ pc[r] \in {"copy", "count"} => audited[r] = {}
    /\ pc[r] \in {"copy", "count", "audit"} <=> ~(Selection(policy) \subseteq audited[r])
    /\ \A f \in Selection(policy) \cap audited[r] : LinuxSound(policy, f, staged[f])
    /\ pc[r] \in {"inventory", "hash", "report", "write"} => Current
    /\ pc[r] \in {"hash", "report", "write"} => DOMAIN staged = DOMAIN listed[r]
    /\ pc[r] \in {"report", "write"} => listed[r] = staged

\* What a whole report says is so.
LinuxReport ==
  report.state = "whole" =>
    /\ \E r \in SingleRuns : pc[r] = "done"
    /\ report.files = staged /\ report.components = policy.components /\ Exact(policy)
    /\ \A f \in Selection(policy) : f \in DOMAIN staged /\ LinuxSound(policy, f, staged[f])
    /\ Current

LinuxSafe ==
  /\ policy \in LinuxPolicies
  /\ Shape(SingleRuns) /\ Turns(SingleRuns)
  /\ \A r \in SingleRuns : LinuxWork(r)
  /\ LinuxReport

\* Before the first Linux run nothing is known, and nothing has to be.
LEMMA LinuxInit == Linux!Init => LinuxSafe
BY DEF Linux!Init, LinuxSafe, Shape, Turns, LinuxWork, LinuxReport, Active

\* A step of the audit: one more file is rewritten, or not, and audited, or not.
LEMMA LinuxAuditStep ==
  ASSUME policy \in LinuxPolicies, NEW r \in SingleRuns, Linux!RelocateAndAudit(r),
         ~(Selection(policy) \subseteq audited[r])
  PROVE  \E f \in Selection(policy) \ audited[r] : \E content :
           /\ staged' = staged \/ staged' = [staged EXCEPT ![f] = content]
           /\ pc[r] = "audit"
           /\ \/ /\ audited' = [audited EXCEPT ![r] = @ \cup {f}]
                 /\ staged' = [staged EXCEPT ![f] = content] /\ LinuxSound(policy, f, content)
                 /\ pc' = [pc EXCEPT ![r] = IF Selection(policy) \subseteq audited[r] \cup {f}
                                          THEN "baseline" ELSE "audit"]
              \/ audited' = [audited EXCEPT ![r] = @] /\ pc' = [pc EXCEPT ![r] = "failed"]
           /\ UNCHANGED <<policy, listed, report>>
<1> DEFINE relocated == [f \in Linux!Range(Linux!Order) |-> Linux!RelocateElf(f, staged[f])]
           sound == {f \in Linux!Range(Linux!Order) : Linux!AuditElf(f, relocated[f])}
           f == Linux!NextOf(Linux!Order, audited[r])
<1>1. /\ f \in Selection(policy) \ audited[r]
      /\ Linux!Finishes(Linux!Order, audited[r], f) <=> Selection(policy) \subseteq audited[r] \cup {f}
  BY LinuxNext
<1>2. f \in sound => LinuxSound(policy, f, relocated[f])
  BY <1>1, LinuxAudit
<1>3. Linux!AuditNext(r, relocated, sound, "baseline")
  BY DEF Linux!RelocateAndAudit
<1> HIDE DEF relocated, sound
<1>4. PICK tool \in BOOLEAN, wrote \in BOOLEAN :
        /\ staged' = IF tool \/ wrote THEN [staged EXCEPT ![f] = relocated[f]] ELSE staged
        /\ pc[r] = "audit"
        /\ pc' = [pc EXCEPT ![r] = IF tool /\ f \in sound
                                 THEN IF Linux!Finishes(Linux!Order, audited[r], f)
                                      THEN "baseline" ELSE "audit"
                                 ELSE "failed"]
        /\ audited' = [audited EXCEPT ![r] = IF tool /\ f \in sound THEN @ \cup {f} ELSE @]
        /\ UNCHANGED <<Linux!inputs, listed, report, crashes>>
  BY <1>3, Zenon DEF Linux!AuditNext, Linux!Goto
<1> HIDE DEF f
<1> f \in Selection(policy) \ audited[r]
  BY <1>1
<1> WITNESS f \in Selection(policy) \ audited[r]
<1> WITNESS relocated[f]
<1> QED
  BY <1>1, <1>2, <1>4 DEF Linux!inputs

\* The step of a run leaves the others as they were, which is at rest.
LEMMA LinuxTurns ==
  ASSUME LinuxSafe, NEW r \in SingleRuns, Linux!Step(r)
  PROVE  /\ policy' = policy
         /\ Shape(SingleRuns)' /\ Turns(SingleRuns)'
         /\ \A q \in SingleRuns \ {r} : ~Active(q)'
         /\ ~Linux!Start(r) => Active(r)
         /\ report' = report \/ report'.state = "cut" \/ Linux!FillReport(r)
<1> USE DEF LinuxSafe, Shape, Turns, Active, Linux!Goto, Linux!inputs
<1>1. CASE Linux!Start(r)
  BY <1>1 DEF Linux!Start, Linux!Alone, Linux!Ended
<1>2. CASE Linux!StageFile(r)
  BY <1>2 DEF Linux!StageFile, Linux!CopyNext, Linux!Copy, Linux!With
<1>3. CASE Linux!CountRaw(r)
  BY <1>3 DEF Linux!CountRaw
<1>4. CASE Linux!RelocateAndAudit(r)
  <2>1. ~(Selection(policy) \subseteq audited[r])
    BY <1>4 DEF Linux!RelocateAndAudit, Linux!AuditNext, LinuxWork
  <2>2. UNCHANGED <<policy, listed, report>> /\ ~Linux!Start(r)
    BY <1>4 DEF Linux!RelocateAndAudit, Linux!AuditNext, Linux!Start
  <2>3. Active(r) /\ staged' = [f \in DOMAIN staged' |-> staged'[f]]
    BY <1>4, <2>1, LinuxAuditStep
  <2> QED
    BY SMTT(60), <1>4, <2>1, <2>2, <2>3, LinuxAuditStep
<1>5. CASE Linux!CheckBaseline(r)
  BY <1>5 DEF Linux!CheckBaseline
<1>6. CASE Linux!MakeCache(r)
  BY ZenonT(60), <1>6 DEF Linux!MakeCache, Linux!GenerateCache, Linux!With, Linux!Over
<1>7. CASE Linux!CheckInventory(r)
  BY <1>7 DEF Linux!CheckInventory
<1>8. CASE Linux!HashAgain(r)
  BY <1>8 DEF Linux!HashAgain, Linux!Rehash
<1>9. CASE Linux!CreateReport(r)
  BY <1>9 DEF Linux!CreateReport, Linux!OpenReport
<1>10. CASE Linux!FillReport(r)
  BY <1>10 DEF Linux!FillReport, Linux!WriteReport
<1> QED
  BY <1>1, <1>2, <1>3, <1>4, <1>5, <1>6, <1>7, <1>8, <1>9, <1>10 DEF Linux!Step

\* A step of the copy: one more file is staged and listed, or the run fails.
LEMMA LinuxCopyStep ==
  ASSUME policy \in LinuxPolicies, NEW r \in SingleRuns, Linux!StageFile(r),
         ~(Selection(policy) \subseteq DOMAIN listed[r])
  PROVE  /\ pc[r] = "copy"
         /\ UNCHANGED <<policy, audited, report>>
         /\ \/ pc' = [pc EXCEPT ![r] = "failed"] /\ UNCHANGED <<staged, listed>>
            \/ \E f \in Selection(policy) \ DOMAIN listed[r] :
                 /\ staged' = Linux!With(staged, f, install[f])
                 /\ listed' = [listed EXCEPT ![r] = Linux!With(@, f, install[f])]
                 /\ pc' = [pc EXCEPT ![r] =
                            IF Selection(policy) \subseteq DOMAIN listed[r] \cup {f} THEN "count" ELSE "copy"]
<1> DEFINE f == Linux!NextOf(Linux!Order, DOMAIN listed[r])
<1>1. /\ f \in Selection(policy) \ DOMAIN listed[r]
      /\ Linux!Finishes(Linux!Order, DOMAIN listed[r], f) <=>
           Selection(policy) \subseteq DOMAIN listed[r] \cup {f}
  BY LinuxNext
<1>2. /\ pc[r] = "copy"
      /\ UNCHANGED <<Linux!inputs, audited, report, crashes>>
      /\ pc' = [pc EXCEPT ![r] = IF f \in Linux!Present
                               THEN IF Linux!Finishes(Linux!Order, DOMAIN listed[r], f)
                                    THEN "count" ELSE "copy"
                               ELSE "failed"]
      /\ IF f \in Linux!Present THEN Linux!Copy(r, f) ELSE UNCHANGED <<staged, listed>>
  BY Zenon DEF Linux!StageFile, Linux!CopyNext, Linux!Goto
<1> HIDE DEF f
<1> QED
  BY <1>1, <1>2 DEF Linux!Copy, Linux!inputs

\* When it is made, the cache is current: it and the other files that a tool leaves
\* are no plugins.
LEMMA LinuxCacheIsMade ==
  ASSUME policy \in LinuxPolicies, NEW stray \in SUBSET Strays,
         staged' = Linux!With(Linux!Over([s \in stray |-> s], staged), Linux!Cache, Linux!CacheOf(staged)),
         policy' = policy
  PROVE  Current'
<1>1. policy.modules \cap (Strays \cup {"plugins.dat"}) = {}
  BY StagingAssumption
<1>2. staged'["plugins.dat"] = [f \in DOMAIN staged \cap policy.modules |-> staged[f]]
  BY DEF Linux!With, Linux!Cache, Linux!CacheOf, Linux!Plugins
<1>3. DOMAIN staged' \cap policy.modules = DOMAIN staged \cap policy.modules
  BY <1>1 DEF Linux!With, Linux!Over, Linux!Cache
<1>4. \A f \in DOMAIN staged \cap policy.modules : staged'[f] = staged[f]
  BY <1>1 DEF Linux!With, Linux!Over, Linux!Cache
<1> QED
  BY <1>2, <1>3, <1>4 DEF Current

\* What a run knows stays true as it goes on.
LEMMA LinuxWorks ==
  ASSUME LinuxSafe, NEW r \in SingleRuns, Linux!Step(r)
  PROVE  LinuxWork(r)'
<1> USE DEF LinuxSafe, Linux!Goto
<1> USE DEF Shape, Active, LinuxWork, Linux!inputs
<1>1. CASE Linux!Start(r)
  BY SMTT(60), <1>1 DEF Linux!Start, Linux!LoadPolicy, Exact, Selection, Main
<1>2. CASE Linux!StageFile(r)
  <2>1. ~(Selection(policy) \subseteq DOMAIN listed[r])
    BY <1>2 DEF Linux!StageFile, Linux!CopyNext
  <2>2. CASE pc' = [pc EXCEPT ![r] = "failed"]
    BY <2>2
  <2>3. CASE \E f \in Selection(policy) \ DOMAIN listed[r] :
                 /\ staged' = Linux!With(staged, f, install[f])
                 /\ listed' = [listed EXCEPT ![r] = Linux!With(@, f, install[f])]
                 /\ pc' = [pc EXCEPT ![r] =
                            IF Selection(policy) \subseteq DOMAIN listed[r] \cup {f} THEN "count" ELSE "copy"]
    <3>1. PICK f \in Selection(policy) \ DOMAIN listed[r] :
                 /\ staged' = Linux!With(staged, f, install[f])
                 /\ listed' = [listed EXCEPT ![r] = Linux!With(@, f, install[f])]
                 /\ pc' = [pc EXCEPT ![r] =
                            IF Selection(policy) \subseteq DOMAIN listed[r] \cup {f} THEN "count" ELSE "copy"]
      BY <2>3
    <3>2. DOMAIN listed'[r] = DOMAIN listed[r] \cup {f} /\ DOMAIN staged' = DOMAIN staged \cup {f}
      BY <3>1 DEF Linux!With
    <3>3. pc[r] = "copy" /\ audited[r] = {} /\ audited'[r] = {} /\ policy' = policy
      BY <1>2, <2>1, LinuxCopyStep
    <3>4. Exact(policy) /\ DOMAIN listed[r] \subseteq DOMAIN staged
      BY <3>3
    <3>5. pc'[r] \in {"copy", "count"}
          /\ (pc'[r] = "copy" <=> ~(Selection(policy) \subseteq DOMAIN listed[r] \cup {f}))
      BY <3>1
    <3>6. Exact(policy)'
      BY <3>3, <3>4 DEF Exact
    <3>7. ~(Selection(policy)' \subseteq audited'[r]) /\ Selection(policy)' = Selection(policy)
      BY <3>3 DEF Selection, Main
    <3> QED
      BY <3>2, <3>3, <3>4, <3>5, <3>6, <3>7
  <2> QED
    BY <1>2, <2>1, <2>2, <2>3, LinuxCopyStep
<1>3. CASE Linux!CountRaw(r)
  BY <1>3 DEF Linux!CountRaw
<1>4. CASE Linux!RelocateAndAudit(r)
  <2>1. ~(Selection(policy) \subseteq audited[r])
    BY <1>4 DEF Linux!RelocateAndAudit, Linux!AuditNext
  <2> QED
    BY <1>4, <2>1, LinuxAuditStep
<1>5. CASE Linux!CheckBaseline(r)
  BY <1>5 DEF Linux!CheckBaseline
<1>6. CASE Linux!MakeCache(r)
  <2>1. PICK ok \in BOOLEAN, stray \in SUBSET Strays :
          /\ Linux!Goto(r, "cache", ok, "inventory")
          /\ ok => staged' = Linux!With(Linux!Over([s \in stray |-> s], staged),
                                       Linux!Cache, Linux!CacheOf(staged))
          /\ ok => listed' = [listed EXCEPT ![r] = Linux!With(@, Linux!Cache, Linux!CacheOf(staged))]
          /\ UNCHANGED <<Linux!inputs, audited, report, crashes>>
    BY <1>6 DEF Linux!MakeCache, Linux!GenerateCache
  <2>2. CASE ~ok
    BY <2>1, <2>2
  <2>3. CASE ok
    <3>1. Current'
      BY <2>1, <2>3, LinuxCacheIsMade
    <3>2. /\ DOMAIN staged' = stray \cup DOMAIN staged \cup {"plugins.dat"}
          /\ DOMAIN listed'[r] = DOMAIN listed[r] \cup {"plugins.dat"}
          /\ pc[r] = "cache" /\ pc'[r] = "inventory" /\ policy' = policy /\ audited' = audited
      BY <2>1, <2>3 DEF Linux!With, Linux!Over, Linux!Cache
    <3>3. \A f \in Selection(policy) \cap DOMAIN staged : staged'[f] = staged[f]
      <4>1. Selection(policy) \cap (Strays \cup {"plugins.dat"}) = {}
        BY SelectionApart
      <4> QED
        BY ZenonT(60), <2>1, <2>3, <4>1 DEF Linux!With, Linux!Over, Linux!Cache
    <3>4. Selection(policy) \subseteq DOMAIN staged
      BY <3>2
    <3>5. Selection(policy)' = Selection(policy) /\ Exact(policy)'
      BY <3>2 DEF Selection, Main, Exact
    <3>6. \A f \in Selection(policy) \cap audited[r] : LinuxSound(policy', f, staged'[f])
      BY <3>2, <3>3, <3>4
    <3> QED
      BY <3>1, <3>2, <3>4, <3>5, <3>6
  <2> QED
    BY <2>2, <2>3
<1>7. CASE Linux!CheckInventory(r)
  BY ZenonT(60), <1>7 DEF Linux!CheckInventory, Current
<1>8. CASE Linux!HashAgain(r)
  BY ZenonT(60), <1>8 DEF Linux!HashAgain, Linux!Rehash, Current
<1>9. CASE Linux!CreateReport(r)
  BY ZenonT(60), <1>9 DEF Linux!CreateReport, Linux!OpenReport, Current
<1>10. CASE Linux!FillReport(r)
  BY <1>10 DEF Linux!FillReport, Linux!WriteReport, Current
<1> QED
  BY <1>1, <1>2, <1>3, <1>4, <1>5, <1>6, <1>7, <1>8, <1>9, <1>10 DEF Linux!Step

\* A whole report is made by a run that knows all of it, and nothing is changed after.
LEMMA LinuxReports ==
  ASSUME LinuxSafe, NEW r \in SingleRuns, Linux!Step(r)
  PROVE  LinuxReport'
<1> USE DEF LinuxSafe, Linux!Goto, Linux!inputs
<1>1. CASE Linux!Start(r)
  BY <1>1 DEF Linux!Start, LinuxReport, Shape, Exact, Selection, Main, Current
<1>2. CASE Linux!FillReport(r)
  <2>1. /\ pc[r] = "write" /\ pc' = [pc EXCEPT ![r] = "done"]
        /\ report'.files = listed[r] /\ report'.components = policy.components
        /\ UNCHANGED <<policy, staged, listed, audited>>
    BY <1>2 DEF Linux!FillReport, Linux!WriteReport, Linux!Report
  <2>2. LinuxWork(r) /\ Active(r)
    BY <2>1 DEF Active
  <2>3. /\ Exact(policy) /\ listed[r] = staged /\ Current
        /\ Selection(policy) \subseteq audited[r] /\ Selection(policy) \subseteq DOMAIN staged
        /\ \A f \in Selection(policy) : LinuxSound(policy, f, staged[f])
    BY <2>1, <2>2 DEF LinuxWork
  <2>4. pc'[r] = "done"
    BY <2>1 DEF Shape
  <2> QED
    BY <2>1, <2>3, <2>4 DEF LinuxReport, Current
<1>3. CASE ~Linux!Start(r) /\ ~Linux!FillReport(r)
  <2>1. Active(r)
    BY <1>3, LinuxTurns
  <2>2. report.state # "whole"
    BY <2>1 DEF Turns
  <2> QED
    BY <1>3, <2>2, LinuxTurns DEF LinuxReport
<1> QED
  BY <1>1, <1>2, <1>3

\* Every step keeps the invariant.
LEMMA LinuxNextSafe ==
  ASSUME LinuxSafe, Linux!Next
  PROVE  LinuxSafe'
<1>1. CASE \E r \in SingleRuns : Linux!Step(r)
  <2> PICK r \in SingleRuns : Linux!Step(r)
    BY <1>1
  <2>1. \A q \in SingleRuns \ {r} : LinuxWork(q)'
    BY LinuxTurns DEF LinuxWork
  <2> QED
    BY <2>1, LinuxTurns, LinuxWorks, LinuxReports DEF LinuxSafe
<1>2. CASE \E r \in SingleRuns : Linux!Kill(r)
  <2> PICK r \in SingleRuns : Linux!Kill(r)
    BY <1>2
  <2>1. /\ UNCHANGED <<policy, staged, listed, audited, report>>
        /\ pc' = [pc EXCEPT ![r] = "killed"] /\ Active(r)
    BY DEF Linux!Kill, Linux!inputs, Active, Linux!Ended
  <2>2. Shape(SingleRuns)' /\ Turns(SingleRuns)'
    BY <2>1 DEF LinuxSafe, Shape, Turns, Active
  <2>3. \A q \in SingleRuns : Active(q)' => q # r /\ Active(q) /\ pc'[q] = pc[q]
    BY <2>1 DEF LinuxSafe, Shape, Active
  <2>4. \A q \in SingleRuns : LinuxWork(q)'
    BY <2>1, <2>3 DEF LinuxSafe, Turns, LinuxWork
  <2>5. LinuxReport'
    BY <2>1 DEF LinuxSafe, Turns, LinuxReport
  <2> QED
    BY <2>1, <2>2, <2>4, <2>5 DEF LinuxSafe
<1>3. CASE Linux!Revise
  <2>1. /\ policy' \in LinuxPolicies /\ report.state # "whole"
        /\ UNCHANGED <<staged, listed, audited, report, pc>>
        /\ \A r \in SingleRuns : ~Active(r)
    BY <1>3 DEF Linux!Revise, Active, Linux!Ended
  <2> QED
    BY <2>1 DEF LinuxSafe, Shape, Turns, LinuxWork, LinuxReport, Active
<1> QED
  BY <1>1, <1>2, <1>3 DEF Linux!Next

\* What that means for the properties of the script.
LEMMA LinuxProperties ==
  ASSUME LinuxSafe
  PROVE  /\ Linux!ReportedRuntimeLoads /\ Linux!ReportIsTrue /\ Linux!ComponentsAreExact
         /\ Linux!ReportNeedsSuccess /\ Linux!CacheIsCurrent
<1> SUFFICES ASSUME report.state = "whole"
             PROVE  /\ policy.system \subseteq SystemLibraries =>
                         \A f \in Linux!Range(Linux!Order) : f \in DOMAIN staged /\ Linux!Loads(f)
                    /\ report.files = staged
                    /\ report.components =
                         UNION {Linux!ComponentsOf(f) : f \in Linux!Range(Linux!Order)}
                    /\ \E r \in SingleRuns : pc[r] = "done"
                    /\ staged[Linux!Cache] = Linux!CacheOf(staged)
  BY DEF Linux!ReportedRuntimeLoads, Linux!ReportIsTrue, Linux!ComponentsAreExact,
         Linux!ReportNeedsSuccess, Linux!CacheIsCurrent, Linux!Reported
<1>1. /\ \E r \in SingleRuns : pc[r] = "done"
      /\ report.files = staged /\ report.components = policy.components /\ Exact(policy)
      /\ \A f \in Selection(policy) : f \in DOMAIN staged /\ LinuxSound(policy, f, staged[f])
      /\ Current
  BY DEF LinuxSafe, LinuxReport
<1>2. Linux!Range(Linux!Order) = Selection(policy)
  BY LinuxOrder DEF LinuxSafe
<1>3. ASSUME NEW f \in Selection(policy), policy.system \subseteq SystemLibraries
      PROVE  Linux!Loads(f)
  <2>1. ASSUME NEW i \in DOMAIN staged[f].needs
        PROVE  \/ /\ staged[f].needs[i] \in DOMAIN staged /\ Linux!InBin(staged[f].needs[i])
                  /\ staged[staged[f].needs[i]].name = staged[f].needs[i]
               \/ staged[f].needs[i] \in SystemLibraries
    <3>1. CASE staged[f].needs[i] \in policy.system
      BY <1>3, <3>1
    <3>2. CASE staged[f].needs[i] \in {"core"} \cup DOMAIN policy.support
      <4>1. staged[f].needs[i] \in Selection(policy)
        BY <3>2 DEF Selection, Main
      <4>2. /\ staged[f].needs[i] \in DOMAIN staged
            /\ staged[staged[f].needs[i]].name = staged[f].needs[i]
        BY <1>1, <4>1 DEF LinuxSound
      <4> QED
        BY <3>2, <4>2 DEF Linux!InBin
    <3> QED
      BY <1>1, <3>1, <3>2 DEF LinuxSound
  <2>2. staged[f].path = (IF f \in Linux!Plugins THEN "../../../bin" ELSE ".")
    BY <1>1 DEF LinuxSound, Linux!Plugins
  <2> QED
    BY <2>1, <2>2 DEF Linux!Loads, Linux!Range
<1>4. policy.components = UNION {Linux!ComponentsOf(f) : f \in Selection(policy)}
  <2>1. Linux!ComponentsOf("core") = policy.core /\ "core" \in Selection(policy)
    BY DEF Linux!ComponentsOf, Selection, Main
  <2>2. \A m \in DOMAIN policy.moduleComponents :
          m \in Selection(policy) /\ Linux!ComponentsOf(m) = policy.moduleComponents[m]
    BY <1>1, StagingAssumption DEF Linux!ComponentsOf, Selection, Exact, LinuxSafe
  <2>3. \A f \in Selection(policy) :
          \/ Linux!ComponentsOf(f) = policy.core
          \/ \E m \in DOMAIN policy.moduleComponents : Linux!ComponentsOf(f) = policy.moduleComponents[m]
          \/ Linux!ComponentsOf(f) = {}
    BY DEF Linux!ComponentsOf
  <2> QED
    BY <1>1, <2>1, <2>2, <2>3 DEF Exact
<1>5. staged[Linux!Cache] = Linux!CacheOf(staged)
  BY <1>1 DEF Current, Linux!Cache, Linux!CacheOf, Linux!Plugins
<1> QED
  BY <1>1, <1>2, <1>3, <1>4, <1>5
-----------------------------------------------------------------------------
(* macOS *)

\* The order of the files is the one of Linux.
LEMMA MacOrder ==
  ASSUME policy \in MacPolicies
  PROVE  Mac!Order \in Seq(Selection(policy)) /\ Mac!Range(Mac!Order) = Selection(policy)
<1>1. Mac!Order = Linux!Order
  BY DEF Mac!Order, Linux!Order, Mac!Fixed, Linux!Fixed, Mac!SetToSeq, Linux!SetToSeq,
         Mac!IsInjective, Linux!IsInjective, Mac!Cardinality, Linux!Cardinality
<1>2. Mac!Range(Mac!Order) = Linux!Range(Linux!Order)
  BY <1>1 DEF Mac!Range, Linux!Range
<1> QED
  BY <1>1, <1>2, LinuxOrder

\* The next file of the macOS order is one that is selected and not yet done, and
\* it finishes the round exactly when it is the last such file.
LEMMA MacNext ==
  ASSUME policy \in MacPolicies, NEW set, ~(Selection(policy) \subseteq set)
  PROVE  /\ Mac!NextOf(Mac!Order, set) \in Selection(policy)
         /\ Mac!NextOf(Mac!Order, set) \notin set
         /\ Mac!Finishes(Mac!Order, set, Mac!NextOf(Mac!Order, set)) <=>
              Selection(policy) \subseteq set \cup {Mac!NextOf(Mac!Order, set)}
<1>1. Mac!Order \in Seq(Selection(policy)) /\ Mac!Range(Mac!Order) = Selection(policy)
  BY MacOrder
<1>2. Mac!Range(Mac!Order) = Linux!Range(Mac!Order)
  BY DEF Mac!Range, Linux!Range
<1>3. Mac!NextOf(Mac!Order, set) = Linux!NextOf(Mac!Order, set)
  BY DEF Mac!NextOf, Linux!NextOf
<1> QED
  BY <1>1, <1>2, <1>3, NextIsNext DEF Mac!Finishes

\* What an audit says of a file: each name it needs is its own, of the system, or
\* the core as seen from where the file is.
MacSound(p, f, b) ==
  /\ b.name = f
  /\ \A i \in DOMAIN b.needs :
       \/ b.needs[i] = f \/ b.needs[i] \in SystemNames
       \/ b.needs[i] = "@loader_path/core" /\ f = "libvlc"
       \/ b.needs[i] = "@loader_path/../../../bin/core" /\ f \in p.modules

\* What the macOS audit accepts is sound.
LEMMA MacAudit ==
  ASSUME policy \in MacPolicies, NEW f \in Selection(policy), NEW b, Mac!AuditMacho(f, b)
  PROVE  MacSound(policy, f, b)
<1>1. /\ Mac!RoleOf(f) = "PLUGIN" <=> f \in policy.modules
      /\ Mac!RoleOf(f) = "LIBVLC" <=> f = "libvlc"
      /\ Mac!RoleOf(f) \in {"LIBVLC", "CORE", "BRIDGE", "SUPPORT", "PLUGIN"}
  BY StagingAssumption DEF Mac!RoleOf, Selection, Main
<1>2. \/ Mac!CoreName(f) = "none"
      \/ f = "libvlc" /\ Mac!CoreName(f) = "@loader_path/core"
      \/ f \in policy.modules /\ Mac!CoreName(f) = "@loader_path/../../../bin/core"
  BY <1>1 DEF Mac!CoreName
<1> QED
  BY <1>2 DEF Mac!AuditMacho, MacSound, Mac!Private

\* What a run of the macOS script knows at each place: what it has listed is what
\* is staged, but for what tools leave; what it has audited is sound; the cache it
\* has made is current; and the last digests are those of the files.
MacWork(r) ==
  Active(r) =>
    /\ DOMAIN staged \ Strays = DOMAIN listed[r]
    /\ pc[r] = "copy" <=> ~(Selection(policy) \subseteq DOMAIN listed[r])
    /\ pc[r] \in {"copy", "count"} => audited[r] = {}
    /\ pc[r] \in {"copy", "count", "audit"} <=> ~(Selection(policy) \subseteq audited[r])
    /\ \A f \in Selection(policy) \cap audited[r] : MacSound(policy, f, staged[f])
    /\ pc[r] \in {"hash", "report", "write"} => Current
    /\ pc[r] \in {"report", "write"} => \A f \in DOMAIN listed[r] : listed[r][f] = staged[f]

\* What a whole report says is so.
MacReport ==
  report.state = "whole" =>
    /\ DOMAIN staged \ Strays = DOMAIN report.files
    /\ \A f \in DOMAIN report.files : report.files[f] = staged[f]
    /\ \A f \in Selection(policy) : f \in DOMAIN staged /\ MacSound(policy, f, staged[f])
    /\ Current

MacSafe ==
  /\ policy \in MacPolicies
  /\ Shape(Runs) /\ Turns(Runs)
  /\ \A r \in Runs : MacWork(r)
  /\ MacReport

\* Before the first macOS run nothing is known.
LEMMA MacInit == Mac!Init => MacSafe
BY DEF Mac!Init, MacSafe, Shape, Turns, MacWork, MacReport, Active

\* A step of the audit: one more file is rewritten, or not, and audited, or not.
LEMMA MacAuditStep ==
  ASSUME policy \in MacPolicies, NEW r \in Runs, Mac!RelocateAndAudit(r),
         ~(Selection(policy) \subseteq audited[r])
  PROVE  \E f \in Selection(policy) \ audited[r] : \E content :
           /\ staged' = staged \/ staged' = [staged EXCEPT ![f] = content]
           /\ pc[r] = "audit"
           /\ \/ /\ audited' = [audited EXCEPT ![r] = @ \cup {f}]
                 /\ staged' = [staged EXCEPT ![f] = content] /\ MacSound(policy, f, content)
                 /\ pc' = [pc EXCEPT ![r] = IF Selection(policy) \subseteq audited[r] \cup {f}
                                          THEN "cache" ELSE "audit"]
              \/ audited' = [audited EXCEPT ![r] = @] /\ pc' = [pc EXCEPT ![r] = "failed"]
           /\ UNCHANGED <<policy, listed, report>>
<1> DEFINE relocated == [f \in Mac!Range(Mac!Order) |-> Mac!RelocateMacho(f, staged[f])]
           sound == {f \in Mac!Range(Mac!Order) : Mac!AuditMacho(f, relocated[f])}
           f == Mac!NextOf(Mac!Order, audited[r])
<1>1. /\ f \in Selection(policy) \ audited[r]
      /\ Mac!Finishes(Mac!Order, audited[r], f) <=> Selection(policy) \subseteq audited[r] \cup {f}
  BY MacNext
<1>2. f \in sound => MacSound(policy, f, relocated[f])
  BY <1>1, MacAudit
<1>3. Mac!AuditNext(r, relocated, sound, "cache")
  BY DEF Mac!RelocateAndAudit
<1> HIDE DEF relocated, sound
<1>4. PICK tool \in BOOLEAN, wrote \in BOOLEAN :
        /\ staged' = IF tool \/ wrote THEN [staged EXCEPT ![f] = relocated[f]] ELSE staged
        /\ pc[r] = "audit"
        /\ pc' = [pc EXCEPT ![r] = IF tool /\ f \in sound
                                 THEN IF Mac!Finishes(Mac!Order, audited[r], f)
                                      THEN "cache" ELSE "audit"
                                 ELSE "failed"]
        /\ audited' = [audited EXCEPT ![r] = IF tool /\ f \in sound THEN @ \cup {f} ELSE @]
        /\ UNCHANGED <<Mac!inputs, listed, report, crashes>>
  BY <1>3, Zenon DEF Mac!AuditNext, Mac!Goto
<1> HIDE DEF f
<1> f \in Selection(policy) \ audited[r]
  BY <1>1
<1> WITNESS f \in Selection(policy) \ audited[r]
<1> WITNESS relocated[f]
<1> QED
  BY <1>1, <1>2, <1>4 DEF Mac!inputs

\* The step of a run leaves the others as they were, which is at rest.
LEMMA MacTurns ==
  ASSUME MacSafe, NEW r \in Runs, Mac!Step(r)
  PROVE  /\ policy' = policy
         /\ Shape(Runs)' /\ Turns(Runs)'
         /\ \A q \in Runs \ {r} : ~Active(q)'
         /\ ~Mac!Start(r) => Active(r)
         /\ report' = report \/ report'.state = "cut" \/ Mac!FillReport(r)
<1> USE DEF MacSafe, Shape, Turns, Active, Mac!Goto, Mac!inputs
<1>1. CASE Mac!Start(r)
  BY <1>1 DEF Mac!Start, Mac!Alone, Mac!Ended
<1>2. CASE Mac!StageFile(r)
  BY <1>2 DEF Mac!StageFile, Mac!CopyNext, Mac!Copy, Mac!With
<1>3. CASE Mac!CountRaw(r)
  BY <1>3 DEF Mac!CountRaw
<1>4. CASE Mac!RelocateAndAudit(r)
  <2>1. ~(Selection(policy) \subseteq audited[r])
    BY <1>4 DEF Mac!RelocateAndAudit, Mac!AuditNext, MacWork
  <2>2. UNCHANGED <<policy, listed, report>> /\ ~Mac!Start(r)
    BY <1>4 DEF Mac!RelocateAndAudit, Mac!AuditNext, Mac!Start
  <2>3. Active(r) /\ staged' = [f \in DOMAIN staged' |-> staged'[f]]
    BY <1>4, <2>1, MacAuditStep
  <2> QED
    BY ZenonT(60), <1>4, <2>1, <2>2, <2>3, MacAuditStep
<1>5. CASE Mac!MakeCache(r)
  BY ZenonT(60), <1>5 DEF Mac!MakeCache, Mac!GenerateCache, Mac!With, Mac!Over
<1>6. CASE Mac!HashAgain(r)
  BY <1>6 DEF Mac!HashAgain, Mac!Rehash
<1>7. CASE Mac!CreateReport(r)
  BY <1>7 DEF Mac!CreateReport, Mac!OpenReport
<1>8. CASE Mac!FillReport(r)
  BY <1>8 DEF Mac!FillReport, Mac!WriteReport
<1> QED
  BY <1>1, <1>2, <1>3, <1>4, <1>5, <1>6, <1>7, <1>8 DEF Mac!Step

\* A step of the copy: one more file is staged and listed, or the run fails.
LEMMA MacCopyStep ==
  ASSUME policy \in MacPolicies, NEW r \in Runs, Mac!StageFile(r),
         ~(Selection(policy) \subseteq DOMAIN listed[r])
  PROVE  /\ pc[r] = "copy"
         /\ UNCHANGED <<policy, audited, report>>
         /\ \/ pc' = [pc EXCEPT ![r] = "failed"] /\ UNCHANGED <<staged, listed>>
            \/ \E f \in Selection(policy) \ DOMAIN listed[r] :
                 /\ staged' = Mac!With(staged, f, install[f])
                 /\ listed' = [listed EXCEPT ![r] = Mac!With(@, f, install[f])]
                 /\ pc' = [pc EXCEPT ![r] =
                            IF Selection(policy) \subseteq DOMAIN listed[r] \cup {f} THEN "count" ELSE "copy"]
<1> DEFINE f == Mac!NextOf(Mac!Order, DOMAIN listed[r])
<1>1. /\ f \in Selection(policy) \ DOMAIN listed[r]
      /\ Mac!Finishes(Mac!Order, DOMAIN listed[r], f) <=>
           Selection(policy) \subseteq DOMAIN listed[r] \cup {f}
  BY MacNext
<1>2. /\ pc[r] = "copy"
      /\ UNCHANGED <<Mac!inputs, audited, report, crashes>>
      /\ pc' = [pc EXCEPT ![r] = IF f \in Mac!Present
                               THEN IF Mac!Finishes(Mac!Order, DOMAIN listed[r], f)
                                    THEN "count" ELSE "copy"
                               ELSE "failed"]
      /\ IF f \in Mac!Present THEN Mac!Copy(r, f) ELSE UNCHANGED <<staged, listed>>
  BY Zenon DEF Mac!StageFile, Mac!CopyNext, Mac!Goto
<1> HIDE DEF f
<1> QED
  BY <1>1, <1>2 DEF Mac!Copy, Mac!inputs

\* When it is made, the cache is current: it and the other files that a tool leaves
\* are no plugins.
LEMMA MacCacheIsMade ==
  ASSUME policy \in MacPolicies, NEW stray \in SUBSET Strays,
         staged' = Mac!With(Mac!Over([s \in stray |-> s], staged), Mac!Cache, Mac!CacheOf(staged)),
         policy' = policy
  PROVE  Current'
<1>1. policy.modules \cap (Strays \cup {"plugins.dat"}) = {}
  BY StagingAssumption
<1>2. staged'["plugins.dat"] = [f \in DOMAIN staged \cap policy.modules |-> staged[f]]
  BY DEF Mac!With, Mac!Cache, Mac!CacheOf, Mac!Plugins
<1>3. DOMAIN staged' \cap policy.modules = DOMAIN staged \cap policy.modules
  BY <1>1 DEF Mac!With, Mac!Over, Mac!Cache
<1>4. \A f \in DOMAIN staged \cap policy.modules : staged'[f] = staged[f]
  BY <1>1 DEF Mac!With, Mac!Over, Mac!Cache
<1> QED
  BY <1>2, <1>3, <1>4 DEF Current

\* What a run knows stays true as it goes on.
LEMMA MacWorks ==
  ASSUME MacSafe, NEW r \in Runs, Mac!Step(r)
  PROVE  MacWork(r)'
<1> USE DEF MacSafe, Mac!Goto
<1> USE DEF Shape, Active, MacWork, Mac!inputs
<1>1. CASE Mac!Start(r)
  BY SMTT(60), <1>1 DEF Mac!Start, Mac!LoadPolicy, Selection, Main
<1>2. CASE Mac!StageFile(r)
  <2>1. ~(Selection(policy) \subseteq DOMAIN listed[r])
    BY <1>2 DEF Mac!StageFile, Mac!CopyNext
  <2>2. CASE pc' = [pc EXCEPT ![r] = "failed"]
    BY <2>2
  <2>3. CASE \E f \in Selection(policy) \ DOMAIN listed[r] :
                 /\ staged' = Mac!With(staged, f, install[f])
                 /\ listed' = [listed EXCEPT ![r] = Mac!With(@, f, install[f])]
                 /\ pc' = [pc EXCEPT ![r] =
                            IF Selection(policy) \subseteq DOMAIN listed[r] \cup {f} THEN "count" ELSE "copy"]
    <3>1. PICK f \in Selection(policy) \ DOMAIN listed[r] :
                 /\ staged' = Mac!With(staged, f, install[f])
                 /\ listed' = [listed EXCEPT ![r] = Mac!With(@, f, install[f])]
                 /\ pc' = [pc EXCEPT ![r] =
                            IF Selection(policy) \subseteq DOMAIN listed[r] \cup {f} THEN "count" ELSE "copy"]
      BY <2>3
    <3>2. DOMAIN listed'[r] = DOMAIN listed[r] \cup {f} /\ DOMAIN staged' = DOMAIN staged \cup {f}
      BY <3>1 DEF Mac!With
    <3>3. pc[r] = "copy" /\ audited[r] = {} /\ audited'[r] = {} /\ policy' = policy
      BY <1>2, <2>1, MacCopyStep
    <3>4. DOMAIN staged \ Strays = DOMAIN listed[r] /\ f \notin Strays
      BY <3>3, SelectionApart
    <3>5. pc'[r] \in {"copy", "count"}
          /\ (pc'[r] = "copy" <=> ~(Selection(policy) \subseteq DOMAIN listed[r] \cup {f}))
      BY <3>1
    <3>6. ~(Selection(policy)' \subseteq audited'[r]) /\ Selection(policy)' = Selection(policy)
      BY <3>3 DEF Selection, Main
    <3> QED
      BY <3>2, <3>3, <3>4, <3>5, <3>6
  <2> QED
    BY <1>2, <2>1, <2>2, <2>3, MacCopyStep
<1>3. CASE Mac!CountRaw(r)
  BY <1>3 DEF Mac!CountRaw
<1>4. CASE Mac!RelocateAndAudit(r)
  <2>1. ~(Selection(policy) \subseteq audited[r])
    BY <1>4 DEF Mac!RelocateAndAudit, Mac!AuditNext
  <2> QED
    BY <1>4, <2>1, MacAuditStep
<1>5. CASE Mac!MakeCache(r)
  <2>1. PICK ok \in BOOLEAN, stray \in SUBSET Strays :
          /\ Mac!Goto(r, "cache", ok, "hash")
          /\ ok => staged' = Mac!With(Mac!Over([s \in stray |-> s], staged),
                                       Mac!Cache, Mac!CacheOf(staged))
          /\ ok => listed' = [listed EXCEPT ![r] = Mac!With(@, Mac!Cache, Mac!CacheOf(staged))]
          /\ UNCHANGED <<Mac!inputs, audited, report, crashes>>
    BY <1>5 DEF Mac!MakeCache, Mac!GenerateCache
  <2>2. CASE ~ok
    BY <2>1, <2>2
  <2>3. CASE ok
    <3>1. Current'
      BY <2>1, <2>3, MacCacheIsMade
    <3>2. /\ DOMAIN staged' = stray \cup DOMAIN staged \cup {"plugins.dat"}
          /\ DOMAIN listed'[r] = DOMAIN listed[r] \cup {"plugins.dat"}
          /\ pc[r] = "cache" /\ pc'[r] = "hash" /\ policy' = policy /\ audited' = audited
      BY <2>1, <2>3 DEF Mac!With, Mac!Over, Mac!Cache
    <3>3. \A f \in Selection(policy) \cap DOMAIN staged : staged'[f] = staged[f]
      <4>1. Selection(policy) \cap (Strays \cup {"plugins.dat"}) = {}
        BY SelectionApart
      <4> QED
        BY ZenonT(60), <2>1, <2>3, <4>1 DEF Mac!With, Mac!Over, Mac!Cache
    <3>4. Selection(policy) \subseteq DOMAIN staged
      BY <3>2
    <3>5. Selection(policy)' = Selection(policy)
          /\ DOMAIN staged' \ Strays = DOMAIN listed'[r]
      BY <3>2, StagingAssumption DEF Selection, Main
    <3>6. \A f \in Selection(policy) \cap audited[r] : MacSound(policy', f, staged'[f])
      BY <3>2, <3>3, <3>4
    <3> QED
      BY <3>1, <3>2, <3>4, <3>5, <3>6
  <2> QED
    BY <2>2, <2>3
<1>6. CASE Mac!HashAgain(r)
  <2>1. /\ pc[r] = "hash" /\ UNCHANGED <<policy, staged, audited>>
        /\ \/ pc'[r] = "failed"
           \/ /\ pc'[r] = "report" /\ DOMAIN listed'[r] = DOMAIN listed[r]
              /\ \A f \in DOMAIN listed[r] : listed'[r][f] = staged[f]
    BY <1>6 DEF Mac!HashAgain, Mac!Rehash
  <2>2. Current' = Current
    BY <2>1 DEF Current
  <2> QED
    BY <2>1, <2>2
<1>7. CASE Mac!CreateReport(r)
  <2>1. /\ pc[r] = "report" /\ pc'[r] = "write" /\ UNCHANGED <<policy, staged, listed, audited>>
    BY <1>7 DEF Mac!CreateReport, Mac!OpenReport
  <2>2. Current' = Current
    BY <2>1 DEF Current
  <2> QED
    BY <2>1, <2>2
<1>8. CASE Mac!FillReport(r)
  BY <1>8 DEF Mac!FillReport, Mac!WriteReport, Current
<1> QED
  BY <1>1, <1>2, <1>3, <1>4, <1>5, <1>6, <1>7, <1>8 DEF Mac!Step

\* A whole report is made by a run that knows all of it, and nothing is changed after.
LEMMA MacReports ==
  ASSUME MacSafe, NEW r \in Runs, Mac!Step(r)
  PROVE  MacReport'
<1> USE DEF MacSafe, Mac!Goto, Mac!inputs
<1>1. CASE Mac!Start(r)
  BY <1>1 DEF Mac!Start, MacReport, Shape, Selection, Main, Current
<1>2. CASE Mac!FillReport(r)
  <2>1. /\ pc[r] = "write" /\ pc' = [pc EXCEPT ![r] = "done"]
        /\ report'.files = listed[r]
        /\ UNCHANGED <<policy, staged, listed, audited>>
    BY <1>2 DEF Mac!FillReport, Mac!WriteReport, Mac!Report
  <2>2. MacWork(r) /\ Active(r)
    BY <2>1 DEF Active
  <2>3. /\ DOMAIN staged \ Strays = DOMAIN listed[r] /\ Current
        /\ \A f \in DOMAIN listed[r] : listed[r][f] = staged[f]
        /\ Selection(policy) \subseteq audited[r] /\ Selection(policy) \subseteq DOMAIN staged
        /\ \A f \in Selection(policy) : MacSound(policy, f, staged[f])
    BY <2>1, <2>2 DEF MacWork
  <2>4. pc'[r] = "done"
    BY <2>1 DEF Shape
  <2> QED
    BY <2>1, <2>3, <2>4 DEF MacReport, Current
<1>3. CASE ~Mac!Start(r) /\ ~Mac!FillReport(r)
  <2>1. Active(r)
    BY <1>3, MacTurns
  <2>2. report.state # "whole"
    BY <2>1 DEF Turns
  <2> QED
    BY <1>3, <2>2, MacTurns DEF MacReport
<1> QED
  BY <1>1, <1>2, <1>3

\* Every step keeps the invariant.
LEMMA MacNextSafe ==
  ASSUME MacSafe, Mac!Next
  PROVE  MacSafe'
<1>1. CASE \E r \in Runs : Mac!Step(r)
  <2> PICK r \in Runs : Mac!Step(r)
    BY <1>1
  <2>1. \A q \in Runs \ {r} : MacWork(q)'
    BY MacTurns DEF MacWork
  <2> QED
    BY <2>1, MacTurns, MacWorks, MacReports DEF MacSafe
<1>2. CASE \E r \in Runs : Mac!Kill(r)
  <2> PICK r \in Runs : Mac!Kill(r)
    BY <1>2
  <2>1. /\ UNCHANGED <<policy, staged, listed, audited, report>>
        /\ pc' = [pc EXCEPT ![r] = "killed"] /\ Active(r)
    BY DEF Mac!Kill, Mac!inputs, Active, Mac!Ended
  <2>2. Shape(Runs)' /\ Turns(Runs)'
    BY <2>1 DEF MacSafe, Shape, Turns, Active
  <2>3. \A q \in Runs : Active(q)' => q # r /\ Active(q) /\ pc'[q] = pc[q]
    BY <2>1 DEF MacSafe, Shape, Active
  <2>4. \A q \in Runs : MacWork(q)'
    BY <2>1, <2>3 DEF MacSafe, Turns, MacWork
  <2>5. MacReport'
    BY <2>1 DEF MacSafe, Turns, MacReport
  <2> QED
    BY <2>1, <2>2, <2>4, <2>5 DEF MacSafe
<1>3. CASE Mac!Revise
  <2>1. /\ policy' \in MacPolicies /\ report.state # "whole"
        /\ UNCHANGED <<staged, listed, audited, report, pc>>
        /\ \A r \in Runs : ~Active(r)
    BY <1>3 DEF Mac!Revise, Active, Mac!Ended
  <2> QED
    BY <2>1 DEF MacSafe, Shape, Turns, MacWork, MacReport, Active
<1> QED
  BY <1>1, <1>2, <1>3 DEF Mac!Next

\* What that means for the properties of the script.
LEMMA MacProperties ==
  ASSUME MacSafe
  PROVE  Mac!ReportedRuntimeLoads /\ Mac!ReportIsTrue /\ Mac!NoLeftovers /\ Mac!CacheIsCurrent
<1> SUFFICES ASSUME report.state = "whole"
             PROVE  /\ \A f \in Mac!Range(Mac!Order) :
                         /\ f \in DOMAIN staged
                         /\ \A n \in Mac!Range(staged[f].needs) : Mac!Resolves(f, n)
                    /\ \A f \in DOMAIN report.files : report.files[f] = staged[f]
                    /\ DOMAIN staged \ Strays = DOMAIN report.files
                    /\ staged[Mac!Cache] = Mac!CacheOf(staged)
  BY DEF Mac!ReportedRuntimeLoads, Mac!ReportIsTrue, Mac!NoLeftovers, Mac!CacheIsCurrent,
         Mac!Reported
<1>1. /\ DOMAIN staged \ Strays = DOMAIN report.files
      /\ \A f \in DOMAIN report.files : report.files[f] = staged[f]
      /\ \A f \in Selection(policy) : f \in DOMAIN staged /\ MacSound(policy, f, staged[f])
      /\ Current
  BY DEF MacSafe, MacReport
<1>2. Mac!Range(Mac!Order) = Selection(policy)
  BY MacOrder DEF MacSafe
<1>3. ASSUME NEW f \in Selection(policy), NEW i \in DOMAIN staged[f].needs
      PROVE  Mac!Resolves(f, staged[f].needs[i])
  <2>1. "core" \in DOMAIN staged /\ Mac!Fixed[1] = "libvlc" /\ 1 \in DOMAIN Mac!Fixed
    BY <1>1 DEF Selection, Main, Mac!Fixed
  <2>2. MacSound(policy, f, staged[f])
    BY <1>1
  <2> QED
    BY <2>1, <2>2 DEF MacSound, Mac!Resolves, Mac!Plugins, Mac!Range
<1>4. staged[Mac!Cache] = Mac!CacheOf(staged)
  BY <1>1 DEF Current, Mac!Cache, Mac!CacheOf, Mac!Plugins
<1> QED
  BY <1>1, <1>2, <1>3, <1>4 DEF Mac!Range
-----------------------------------------------------------------------------
(* Windows *)

\* The order of the files is the one of Linux.
LEMMA WindowsOrder ==
  ASSUME policy \in WindowsPolicies
  PROVE  Windows!Order \in Seq(Selection(policy)) /\ Windows!Range(Windows!Order) = Selection(policy)
<1>1. Windows!Order = Linux!Order
  BY DEF Windows!Order, Linux!Order, Windows!Fixed, Linux!Fixed, Windows!SetToSeq, Linux!SetToSeq,
         Windows!IsInjective, Linux!IsInjective, Windows!Cardinality, Linux!Cardinality
<1>2. Windows!Range(Windows!Order) = Linux!Range(Linux!Order)
  BY <1>1 DEF Windows!Range, Linux!Range
<1> QED
  BY <1>1, <1>2, LinuxOrder

\* The next file of the Windows order is one that is selected and not yet done.
LEMMA WindowsNext ==
  ASSUME policy \in WindowsPolicies, NEW set, ~(Selection(policy) \subseteq set)
  PROVE  /\ Windows!NextOf(Windows!Order, set) \in Selection(policy)
         /\ Windows!NextOf(Windows!Order, set) \notin set
         /\ Windows!Finishes(Windows!Order, set, Windows!NextOf(Windows!Order, set)) <=>
              Selection(policy) \subseteq set \cup {Windows!NextOf(Windows!Order, set)}
<1>1. Windows!Order \in Seq(Selection(policy)) /\ Windows!Range(Windows!Order) = Selection(policy)
  BY WindowsOrder
<1>2. Windows!Range(Windows!Order) = Linux!Range(Windows!Order)
  BY DEF Windows!Range, Linux!Range
<1>3. Windows!NextOf(Windows!Order, set) = Linux!NextOf(Windows!Order, set)
  BY DEF Windows!NextOf, Linux!NextOf
<1> QED
  BY <1>1, <1>2, <1>3, NextIsNext DEF Windows!Finishes

\* What a run of the Windows script knows at each place: it has listed exactly what
\* is staged, which are files that the policy selects.
WindowsWork(r) ==
  Active(r) =>
    /\ listed[r] = staged /\ DOMAIN staged \subseteq Selection(policy)
    /\ pc[r] = "copy" <=> ~(Selection(policy) \subseteq DOMAIN staged)

\* What a whole report says is so.
WindowsReport ==
  report.state = "whole" =>
    /\ report.files = staged /\ DOMAIN staged = Selection(policy)
    /\ report.candidate \/ (policy.status = "approved" /\ policy.binaryStatus = "approved")

WindowsSafe ==
  /\ policy \in WindowsPolicies
  /\ Shape(Runs) /\ Turns(Runs)
  /\ \A r \in Runs : WindowsWork(r)
  /\ WindowsReport

\* Before the first Windows run nothing is known.
LEMMA WindowsInit == Windows!WinInit => WindowsSafe
BY DEF Windows!WinInit, Windows!Init, WindowsSafe, Shape, Turns, WindowsWork, WindowsReport, Active

\* A step of the copy: one more file is staged and listed, or the run fails.
LEMMA WindowsCopyStep ==
  ASSUME policy \in WindowsPolicies, NEW r \in Runs, Windows!StageFile(r),
         ~(Selection(policy) \subseteq DOMAIN listed[r])
  PROVE  /\ pc[r] = "copy"
         /\ UNCHANGED <<policy, audited, report>>
         /\ \/ pc' = [pc EXCEPT ![r] = "failed"] /\ UNCHANGED <<staged, listed>>
            \/ \E f \in Selection(policy) \ DOMAIN listed[r] :
                 /\ staged' = Windows!With(staged, f, install[f])
                 /\ listed' = [listed EXCEPT ![r] = Windows!With(@, f, install[f])]
                 /\ pc' = [pc EXCEPT ![r] =
                            IF Selection(policy) \subseteq DOMAIN listed[r] \cup {f} THEN "count" ELSE "copy"]
<1> DEFINE f == Windows!NextOf(Windows!Order, DOMAIN listed[r])
           available == {g \in Windows!Range(Windows!Order) : Windows!Required(g)}
<1>1. /\ f \in Selection(policy) \ DOMAIN listed[r]
      /\ Windows!Finishes(Windows!Order, DOMAIN listed[r], f) <=>
           Selection(policy) \subseteq DOMAIN listed[r] \cup {f}
  BY WindowsNext
<1> HIDE DEF f, available
<1>2. /\ pc[r] = "copy"
      /\ UNCHANGED <<Windows!inputs, audited, report, crashes>>
      /\ pc' = [pc EXCEPT ![r] = IF f \in available
                               THEN IF Windows!Finishes(Windows!Order, DOMAIN listed[r], f)
                                    THEN "count" ELSE "copy"
                               ELSE "failed"]
      /\ IF f \in available THEN Windows!Copy(r, f) ELSE UNCHANGED <<staged, listed>>
  BY Zenon DEF f, available, Windows!StageFile, Windows!CopyNext, Windows!Goto
<1> QED
  BY <1>1, <1>2 DEF Windows!Copy, Windows!inputs

\* The step of a run leaves the others as they were, which is at rest.
LEMMA WindowsTurns ==
  ASSUME WindowsSafe, NEW r \in Runs, Windows!Step(r)
  PROVE  /\ policy' = policy
         /\ Shape(Runs)' /\ Turns(Runs)'
         /\ \A q \in Runs \ {r} : ~Active(q)'
         /\ ~Windows!Start(r) => Active(r)
         /\ report' = report \/ report'.state = "cut" \/ Windows!FillReport(r)
<1> USE DEF WindowsSafe, Shape, Turns, Active, Windows!Goto, Windows!inputs
<1>1. CASE Windows!Start(r)
  BY <1>1 DEF Windows!Start, Windows!Alone, Windows!Ended
<1>2. CASE Windows!StageFile(r)
  BY <1>2 DEF Windows!StageFile, Windows!CopyNext, Windows!Copy, Windows!With
<1>3. CASE Windows!CountRaw(r)
  BY <1>3 DEF Windows!CountRaw
<1>4. CASE Windows!CreateReport(r)
  BY <1>4 DEF Windows!CreateReport, Windows!OpenReport
<1>5. CASE Windows!FillReport(r)
  BY <1>5 DEF Windows!FillReport, Windows!WriteReport
<1> QED
  BY <1>1, <1>2, <1>3, <1>4, <1>5 DEF Windows!Step

\* What a run knows stays true as it goes on.
LEMMA WindowsWorks ==
  ASSUME WindowsSafe, NEW r \in Runs, Windows!Step(r)
  PROVE  WindowsWork(r)'
<1> USE DEF WindowsSafe, Windows!Goto
<1> USE DEF Shape, Active, WindowsWork, Windows!inputs
<1>1. CASE Windows!Start(r)
  BY <1>1 DEF Windows!Start, Selection, Main
<1>2. CASE Windows!StageFile(r)
  <2>1. pc[r] = "copy" /\ ~(Selection(policy) \subseteq DOMAIN listed[r]) /\ listed[r] = staged
    BY <1>2 DEF Windows!StageFile, Windows!CopyNext
  <2>2. CASE pc' = [pc EXCEPT ![r] = "failed"]
    BY <2>2
  <2>3. CASE \E f \in Selection(policy) \ DOMAIN listed[r] :
                 /\ staged' = Windows!With(staged, f, install[f])
                 /\ listed' = [listed EXCEPT ![r] = Windows!With(@, f, install[f])]
                 /\ pc' = [pc EXCEPT ![r] =
                            IF Selection(policy) \subseteq DOMAIN listed[r] \cup {f} THEN "count" ELSE "copy"]
    <3>1. PICK f \in Selection(policy) \ DOMAIN listed[r] :
                 /\ staged' = Windows!With(staged, f, install[f])
                 /\ listed' = [listed EXCEPT ![r] = Windows!With(@, f, install[f])]
                 /\ pc' = [pc EXCEPT ![r] =
                            IF Selection(policy) \subseteq DOMAIN listed[r] \cup {f} THEN "count" ELSE "copy"]
      BY <2>3
    <3>2. listed'[r] = staged' /\ DOMAIN staged' = DOMAIN staged \cup {f}
      BY <2>1, <3>1 DEF Windows!With
    <3>3. Selection(policy)' = Selection(policy)
      BY <1>2, <2>1, WindowsCopyStep DEF Selection, Main
    <3>4. /\ pc'[r] \in {"copy", "count"}
          /\ pc'[r] = "copy" <=> ~(Selection(policy) \subseteq DOMAIN staged \cup {f})
      BY <2>1, <3>1
    <3> QED
      BY <2>1, <3>1, <3>2, <3>3, <3>4
  <2> QED
    BY <1>2, <2>1, <2>2, <2>3, WindowsCopyStep
<1>3. CASE Windows!CountRaw(r)
  BY <1>3 DEF Windows!CountRaw, Selection, Main
<1>4. CASE Windows!CreateReport(r)
  BY <1>4 DEF Windows!CreateReport, Windows!OpenReport, Selection, Main
<1>5. CASE Windows!FillReport(r)
  BY <1>5 DEF Windows!FillReport, Windows!WriteReport, Selection, Main
<1> QED
  BY <1>1, <1>2, <1>3, <1>4, <1>5 DEF Windows!Step

\* A whole report is made by a run that has listed all of it.
LEMMA WindowsReports ==
  ASSUME WindowsSafe, NEW r \in Runs, Windows!Step(r)
  PROVE  WindowsReport'
<1> USE DEF WindowsSafe, Windows!Goto, Windows!inputs
<1>1. CASE Windows!Start(r)
  BY <1>1 DEF Windows!Start, WindowsReport, Selection, Main
<1>2. CASE Windows!FillReport(r)
  <2>1. /\ pc[r] = "write" /\ report'.files = listed[r]
        /\ report'.candidate = ~(policy.status = "approved" /\ policy.binaryStatus = "approved")
        /\ UNCHANGED <<policy, staged>>
    BY <1>2 DEF Windows!FillReport, Windows!WriteReport, Windows!Report
  <2>2. listed[r] = staged /\ DOMAIN staged = Selection(policy)
    BY <2>1 DEF WindowsWork, Active
  <2> QED
    BY <2>1, <2>2 DEF WindowsReport, Selection, Main
<1>3. CASE ~Windows!Start(r) /\ ~Windows!FillReport(r)
  <2>1. report.state # "whole"
    BY <1>3, WindowsTurns DEF Turns
  <2> QED
    BY <1>3, <2>1, WindowsTurns DEF WindowsReport
<1> QED
  BY <1>1, <1>2, <1>3

\* Every step keeps the invariant, another build of the install tree too.
LEMMA WindowsNextSafe ==
  ASSUME WindowsSafe, Windows!Next
  PROVE  WindowsSafe'
<1>1. CASE \E r \in Runs : Windows!Step(r)
  <2> PICK r \in Runs : Windows!Step(r)
    BY <1>1
  <2>1. \A q \in Runs \ {r} : WindowsWork(q)'
    BY WindowsTurns DEF WindowsWork
  <2> QED
    BY <2>1, WindowsTurns, WindowsWorks, WindowsReports DEF WindowsSafe
<1>2. CASE \E r \in Runs : Windows!Kill(r)
  <2> PICK r \in Runs : Windows!Kill(r)
    BY <1>2
  <2>1. /\ UNCHANGED <<policy, staged, listed, audited, report>>
        /\ pc' = [pc EXCEPT ![r] = "killed"] /\ Active(r)
    BY DEF Windows!Kill, Windows!inputs, Active, Windows!Ended
  <2>2. Shape(Runs)' /\ Turns(Runs)'
    BY <2>1 DEF WindowsSafe, Shape, Turns, Active
  <2>3. \A q \in Runs : Active(q)' => q # r /\ Active(q) /\ pc'[q] = pc[q]
    BY <2>1 DEF WindowsSafe, Shape, Active
  <2>4. \A q \in Runs : WindowsWork(q)'
    BY <2>1, <2>3 DEF WindowsSafe, WindowsWork, Selection, Main
  <2>5. WindowsReport'
    BY <2>1 DEF WindowsSafe, WindowsReport, Selection, Main
  <2> QED
    BY <2>1, <2>2, <2>4, <2>5 DEF WindowsSafe
<1>3. CASE Windows!Revise
  <2>1. /\ policy' \in WindowsPolicies /\ report.state # "whole"
        /\ UNCHANGED <<staged, listed, audited, report, pc>>
        /\ \A r \in Runs : ~Active(r)
    BY <1>3 DEF Windows!Revise, Active, Windows!Ended
  <2> QED
    BY <2>1 DEF WindowsSafe, Shape, Turns, WindowsWork, WindowsReport, Active
<1>4. CASE Windows!Install
  <2>1. UNCHANGED <<policy, staged, listed, audited, report, pc>>
    BY <1>4 DEF Windows!Install
  <2> QED
    BY <2>1 DEF WindowsSafe, Shape, Turns, WindowsWork, WindowsReport, Active, Selection, Main
<1> QED
  BY <1>1, <1>2, <1>3, <1>4 DEF Windows!Next

\* What that means for the properties of the script.
LEMMA WindowsProperties ==
  ASSUME WindowsSafe
  PROVE  Windows!ReportIsTrue /\ Windows!ReportIsClosed
<1>1. Windows!Range(Windows!Order) = Selection(policy)
  BY WindowsOrder DEF WindowsSafe
<1> QED
  BY <1>1 DEF WindowsSafe, WindowsReport, Windows!ReportIsTrue, Windows!ReportIsClosed, Windows!Reported
-----------------------------------------------------------------------------
(* iOS: runs that follow each other are a case of runs that overlap *)

\* A step of iOS runs that follow each other is a step of overlapping runs, taken
\* by the run that is underway or when none is.
LEMMA IosStepIsOverlap ==
  ASSUME NEW r \in Runs, Ios!Step(r)
  PROVE  IosOverlap!Step(r) /\ (Active(r) \/ \A q \in Runs \ {r} : ~Active(q))
<1>1. Ios!Start(r) => IosOverlap!Start(r)
  BY DEF Ios!Start, IosOverlap!Start, Ios!Goto, IosOverlap!Goto, Ios!LoadPolicy,
         IosOverlap!LoadPolicy, Ios!Reviewed, IosOverlap!Reviewed, Ios!Range,
         IosOverlap!Range, Ios!Fixed, IosOverlap!Fixed, Ios!Cardinality,
         IosOverlap!Cardinality, Ios!inputs, IosOverlap!inputs
<1>2. Ios!MakeTemporary(r) => IosOverlap!MakeTemporary(r)
  BY DEF Ios!MakeTemporary, IosOverlap!MakeTemporary, Ios!Goto, IosOverlap!Goto,
         Ios!Directory, IosOverlap!Directory, Ios!inputs, IosOverlap!inputs
<1>3. Ios!StageFramework(r) => IosOverlap!StageFramework(r)
  BY ZenonT(60) DEF Ios!StageFramework, IosOverlap!StageFramework, Ios!Try, IosOverlap!Try,
         Ios!NextOf, IosOverlap!NextOf, Ios!Finishes, IosOverlap!Finishes, Ios!Range,
         IosOverlap!Range, Ios!Frameworks, IosOverlap!Frameworks, Ios!SetToSeq,
         IosOverlap!SetToSeq, Ios!IsInjective, IosOverlap!IsInjective, Ios!Cardinality,
         IosOverlap!Cardinality, Ios!RoleOf, IosOverlap!RoleOf, Ios!NeedsCore,
         IosOverlap!NeedsCore, Ios!RelocateMacho, IosOverlap!RelocateMacho,
         Ios!Internal, IosOverlap!Internal, Ios!NonSelf, IosOverlap!NonSelf,
         Ios!AuditMacho, IosOverlap!AuditMacho, Ios!With, IosOverlap!With, Ios!inputs,
         IosOverlap!inputs
<1>4. Ios!CreateReport(r) => IosOverlap!CreateReport(r)
  BY DEF Ios!CreateReport, IosOverlap!CreateReport, Ios!Try, IosOverlap!Try, Ios!inputs,
         IosOverlap!inputs
<1>5. Ios!FillReport(r) => IosOverlap!FillReport(r)
  BY DEF Ios!FillReport, IosOverlap!FillReport, Ios!Try, IosOverlap!Try, Ios!Report,
         IosOverlap!Report, Ios!inputs, IosOverlap!inputs
<1>6. Ios!Publish(r) => IosOverlap!Publish(r)
  BY DEF Ios!Publish, IosOverlap!Publish, Ios!Try, IosOverlap!Try, Ios!NoDirectory,
         IosOverlap!NoDirectory, Ios!inputs, IosOverlap!inputs
<1>7. Ios!RemoveTemporary(r) => IosOverlap!RemoveTemporary(r)
  BY DEF Ios!RemoveTemporary, IosOverlap!RemoveTemporary, Ios!Goto, IosOverlap!Goto,
         Ios!NoDirectory, IosOverlap!NoDirectory, Ios!inputs, IosOverlap!inputs
<1>8. Ios!RemoveReport(r) => IosOverlap!RemoveReport(r)
  BY DEF Ios!RemoveReport, IosOverlap!RemoveReport, Ios!Goto, IosOverlap!Goto,
         Ios!inputs, IosOverlap!inputs
<1>9. Ios!Start(r) => \A q \in Runs \ {r} : ~Active(q)
  BY DEF Ios!Start, Ios!Alone, Ios!Ended, Active
<1>10. ~Ios!Start(r) => Active(r)
  BY DEF Ios!Step, Ios!MakeTemporary, Ios!StageFramework, Ios!CreateReport, Ios!FillReport,
         Ios!Publish, Ios!RemoveTemporary, Ios!RemoveReport, Ios!Goto, Ios!Try, Active
<1> QED
  BY <1>1, <1>2, <1>3, <1>4, <1>5, <1>6, <1>7, <1>8, <1>9, <1>10 DEF Ios!Step, IosOverlap!Step

\* What a policy selects is bundled in frameworks.
Bundle(p) == Main \cup p.modules

\* The next framework is one of the bundle that is not yet done.
LEMMA IosNext ==
  ASSUME policy \in IosPolicies, NEW set, ~(Bundle(policy) \subseteq set)
  PROVE  /\ IosOverlap!NextOf(IosOverlap!Frameworks, set) \in Bundle(policy)
         /\ IosOverlap!NextOf(IosOverlap!Frameworks, set) \notin set
         /\ IosOverlap!Finishes(IosOverlap!Frameworks, set,
                                IosOverlap!NextOf(IosOverlap!Frameworks, set)) <=>
              Bundle(policy) \subseteq set \cup {IosOverlap!NextOf(IosOverlap!Frameworks, set)}
<1> DEFINE fixed == <<"bridge", "libvlc", "core">>
           modules == Linux!SetToSeq(policy.modules)
           all == IosOverlap!Frameworks
<1>1. all = fixed \o modules
  BY DEF IosOverlap!Frameworks, IosOverlap!SetToSeq, Linux!SetToSeq,
         IosOverlap!IsInjective, Linux!IsInjective, IosOverlap!Cardinality, Linux!Cardinality
<1>2. modules \in Seq(Bundle(policy)) /\ Linux!Range(modules) = policy.modules
  <2>1. modules \in Seq(policy.modules) /\ Linux!Range(modules) = policy.modules
    BY StagingAssumption, SequenceOfSet
  <2> QED
    BY <2>1 DEF Bundle
<1>3. fixed \in Seq(Bundle(policy)) /\ Linux!Range(fixed) = Main
  BY DEF Linux!Range, Bundle, Main
<1> HIDE DEF fixed, modules, all
<1>4. /\ all \in Seq(Bundle(policy))
      /\ Linux!Range(all) = Linux!Range(fixed) \cup Linux!Range(modules)
  BY <1>1, <1>2, <1>3, RangeOfBoth
<1>5. Linux!Range(all) = Bundle(policy)
  BY <1>2, <1>3, <1>4 DEF Bundle
<1>6. IosOverlap!NextOf(all, set) = Linux!NextOf(all, set)
  BY DEF IosOverlap!NextOf, Linux!NextOf
<1>7. IosOverlap!Range(all) = Linux!Range(all)
  BY DEF IosOverlap!Range, Linux!Range
<1>8. IosOverlap!NextOf(all, set) \in Bundle(policy) /\ IosOverlap!NextOf(all, set) \notin set
  BY <1>4, <1>5, <1>6, NextIsNext
<1> QED
  BY <1>5, <1>7, <1>8 DEF IosOverlap!Finishes, all

\* What an audit says of a framework: each name it needs is its own, the core, or
\* one of the system.
IosSound(f, b) == \A i \in DOMAIN b.needs : b.needs[i] \in {f, "core"} \cup SystemNames

\* What the iOS audit accepts is sound.
LEMMA IosAudit ==
  ASSUME NEW f, NEW b, IosOverlap!AuditMacho(f, b)
  PROVE  IosSound(f, b)
BY DEF IosOverlap!AuditMacho, IosOverlap!NonSelf, IosOverlap!Internal, IosOverlap!Range, IosSound

\* A set of frameworks that can be published.
Whole(files) ==
  /\ Main \subseteq DOMAIN files
  /\ IosOverlap!Cardinality(DOMAIN files \ Main) = SelectedPlugins
  /\ \A f \in DOMAIN files : IosSound(f, files[f])

\* What a run knows at each place: its temporary directory holds what it has
\* listed, each framework of it sound, and once all are there they are whole.
IosWork(r) ==
  /\ pc[r] \in {"mkdtemp", "copy"} => IosOverlap!Cardinality(policy.modules) = SelectedPlugins
  /\ pc[r] = "mkdtemp" => listed[r] = <<>>
  /\ pc[r] = "copy" => DOMAIN listed[r] \subseteq Bundle(policy) /\ ~(Bundle(policy) \subseteq DOMAIN listed[r])
  /\ pc[r] \in {"copy", "report", "write", "publish"} =>
       /\ temporary[r] = [state |-> "made", files |-> listed[r]]
       /\ \A f \in DOMAIN listed[r] : IosSound(f, listed[r][f])
  /\ pc[r] \in {"report", "write", "publish"} => Whole(listed[r])

\* What is published is whole, and one run has published it.
IosOutput ==
  /\ staged # <<>> => Whole(staged)
  /\ \A r \in Runs : pc[r] = "done" => staged # <<>>
  /\ \A r, q \in Runs : pc[r] = "done" /\ pc[q] = "done" => r = q

IosSafe ==
  /\ policy \in IosPolicies /\ crashes \in Nat
  /\ pc = [r \in Runs |-> pc[r]] /\ listed = [r \in Runs |-> listed[r]]
  /\ temporary = [r \in Runs |-> temporary[r]]
  /\ \A r \in Runs : pc[r] = "new" => listed[r] = <<>>
  /\ \A r \in Runs : IosWork(r)
  /\ IosOutput

\* Before the first iOS run there is no output, and no run has a framework.
LEMMA IosStarts == Ios!IosInit => IosSafe
BY DEF Ios!IosInit, Ios!Init, IosSafe, IosWork, IosOutput

\* A framework is staged in the temporary directory and listed, or the run fails.
LEMMA IosCopyStep ==
  ASSUME policy \in IosPolicies, NEW r \in Runs, IosOverlap!StageFramework(r),
         ~(Bundle(policy) \subseteq DOMAIN listed[r])
  PROVE  /\ pc[r] = "copy"
         /\ UNCHANGED <<policy, staged, report, crashes>>
         /\ \/ pc' = [pc EXCEPT ![r] = "handler"] /\ UNCHANGED <<temporary, listed>>
            \/ \E f \in Bundle(policy) \ DOMAIN listed[r] : \E b :
                 /\ IosSound(f, b)
                 /\ temporary' = [temporary EXCEPT ![r].files = IosOverlap!With(@, f, b)]
                 /\ listed' = [listed EXCEPT ![r] = IosOverlap!With(@, f, b)]
                 /\ pc' = [pc EXCEPT ![r] =
                            IF Bundle(policy) \subseteq DOMAIN listed[r] \cup {f} THEN "report" ELSE "copy"]
<1> DEFINE f == IosOverlap!NextOf(IosOverlap!Frameworks, DOMAIN listed[r])
           b == IosOverlap!RelocateMacho(f, install[f])
<1>1. /\ f \in Bundle(policy) \ DOMAIN listed[r]
      /\ IosOverlap!Finishes(IosOverlap!Frameworks, DOMAIN listed[r], f) <=>
           Bundle(policy) \subseteq DOMAIN listed[r] \cup {f}
  BY IosNext
<1>2. IosOverlap!AuditMacho(f, b) => IosSound(f, b)
  BY IosAudit
<1> HIDE DEF f, b
<1>3. PICK ok \in BOOLEAN :
        /\ pc[r] = "copy"
        /\ ok => IosOverlap!AuditMacho(f, b)
        /\ UNCHANGED <<IosOverlap!inputs, staged, audited, report, crashes>>
        /\ pc' = [pc EXCEPT ![r] =
                    IF ok THEN IF IosOverlap!Finishes(IosOverlap!Frameworks, DOMAIN listed[r], f)
                               THEN "report" ELSE "copy"
                    ELSE "handler"]
        /\ IF ok THEN /\ temporary' = [temporary EXCEPT ![r].files = IosOverlap!With(@, f, b)]
                      /\ listed' = [listed EXCEPT ![r] = IosOverlap!With(@, f, b)]
           ELSE UNCHANGED <<temporary, listed>>
  <2>1. PICK tool \in BOOLEAN :
          LET ok == f \in DOMAIN install /\ tool /\ IosOverlap!AuditMacho(f, b) IN
          /\ IosOverlap!Try(r, "copy", ok,
                            IF IosOverlap!Finishes(IosOverlap!Frameworks, DOMAIN listed[r], f)
                            THEN "report" ELSE "copy")
          /\ IF ok THEN /\ temporary' = [temporary EXCEPT ![r].files = IosOverlap!With(@, f, b)]
                        /\ listed' = [listed EXCEPT ![r] = IosOverlap!With(@, f, b)]
             ELSE UNCHANGED <<temporary, listed>>
    BY Zenon DEF IosOverlap!StageFramework, f, b
  <2>2. /\ pc[r] = "copy"
        /\ UNCHANGED <<IosOverlap!inputs, staged, audited, report, crashes>>
    BY Zenon DEF IosOverlap!StageFramework
  <2> DEFINE ok == f \in DOMAIN install /\ tool /\ IosOverlap!AuditMacho(f, b)
  <2> ok \in BOOLEAN
    OBVIOUS
  <2> WITNESS ok \in BOOLEAN
  <2> QED
    BY <2>1, <2>2, Zenon DEF IosOverlap!Try
<1> QED
  BY <1>1, <1>2, <1>3 DEF IosOverlap!inputs

\* Only a run itself changes what it knows.
LEMMA IosOthers ==
  ASSUME IosSafe, NEW r \in Runs, NEW q \in Runs \ {r}, policy' = policy,
         pc'[q] = pc[q], listed'[q] = listed[q], temporary'[q] = temporary[q]
  PROVE  IosWork(q)'
BY ZenonT(60) DEF IosSafe, IosWork, Bundle, Main, Whole, IosSound

\* The step of a run keeps what it knows, and of what is published only Publish
\* changes anything, when nothing is.
LEMMA IosStepSafe ==
  ASSUME IosSafe, NEW r \in Runs, IosOverlap!Step(r)
  PROVE  IosSafe' /\ policy' = policy
<1> USE DEF IosOverlap!Goto, IosOverlap!Try, IosOverlap!inputs
<1>1. CASE IosOverlap!StageFramework(r)
  <2>1. pc[r] = "copy" /\ ~(Bundle(policy) \subseteq DOMAIN listed[r])
    BY <1>1 DEF IosOverlap!StageFramework, IosSafe, IosWork
  <2>2. /\ DOMAIN listed[r] \subseteq Bundle(policy)
        /\ temporary[r] = [state |-> "made", files |-> listed[r]]
        /\ \A f \in DOMAIN listed[r] : IosSound(f, listed[r][f])
        /\ IosOverlap!Cardinality(policy.modules) = SelectedPlugins
    BY <2>1 DEF IosSafe, IosWork
  <2>3. UNCHANGED <<policy, staged, report, crashes>>
    BY <1>1, <2>1, IosCopyStep DEF IosSafe
  <2>4. CASE pc' = [pc EXCEPT ![r] = "handler"] /\ UNCHANGED <<temporary, listed>>
    <3>1. IosWork(r)'
      BY <2>4 DEF IosSafe, IosWork
    <3>2. \A q \in Runs \ {r} : IosWork(q)'
      BY <2>3, <2>4, IosOthers DEF IosSafe
    <3>3. IosOutput'
      BY <2>3, <2>4 DEF IosSafe, IosOutput, Whole
    <3> QED
      BY <2>3, <2>4, <3>1, <3>2, <3>3 DEF IosSafe
  <2>5. ASSUME NEW f \in Bundle(policy) \ DOMAIN listed[r], NEW b, IosSound(f, b),
               temporary' = [temporary EXCEPT ![r].files = IosOverlap!With(@, f, b)],
               listed' = [listed EXCEPT ![r] = IosOverlap!With(@, f, b)],
               pc' = [pc EXCEPT ![r] =
                        IF Bundle(policy) \subseteq DOMAIN listed[r] \cup {f} THEN "report" ELSE "copy"]
        PROVE  IosSafe'
    <3>1. /\ DOMAIN listed'[r] = DOMAIN listed[r] \cup {f}
          /\ \A g \in DOMAIN listed'[r] : IosSound(g, listed'[r][g])
      BY <2>2, <2>5 DEF IosSafe, IosOverlap!With
    <3>2. temporary'[r] = [state |-> "made", files |-> listed'[r]]
      BY <2>2, <2>5 DEF IosSafe
    <3>3. ASSUME Bundle(policy) \subseteq DOMAIN listed[r] \cup {f}
          PROVE  IosWork(r)'
      <4>1. DOMAIN listed'[r] = Bundle(policy) /\ pc'[r] = "report"
        BY <2>2, <2>5, <3>1, <3>3 DEF IosSafe
      <4>2. Bundle(policy) \ Main = policy.modules
        BY StagingAssumption DEF Bundle, Main, IosSafe
      <4>3. Whole(listed'[r])
        BY <2>2, <3>1, <4>1, <4>2 DEF Whole, Bundle
      <4>4. IosWork(r)'
        BY <2>3, <3>1, <3>2, <4>1, <4>3 DEF IosWork, Whole, IosSound
      <4> QED
        BY <4>4
    <3>4. ASSUME ~(Bundle(policy) \subseteq DOMAIN listed[r] \cup {f})
          PROVE  IosWork(r)'
      <4>1. pc'[r] = "copy"
        BY <2>5, <3>4 DEF IosSafe
      <4>2. Bundle(policy)' = Bundle(policy) /\ policy' = policy
        BY <2>3 DEF Bundle, Main
      <4>3. DOMAIN listed'[r] \subseteq Bundle(policy) /\ ~(Bundle(policy) \subseteq DOMAIN listed'[r])
        BY <2>2, <3>1, <3>4
      <4> QED
        BY <2>2, <3>1, <3>2, <4>1, <4>2, <4>3 DEF IosWork
    <3>5. IosWork(r)'
      BY <3>3, <3>4
    <3>6. \A q \in Runs \ {r} : IosWork(q)'
      BY <2>3, <2>5, IosOthers DEF IosSafe
    <3>7. IosOutput'
      BY <2>1, <2>3, <2>5 DEF IosSafe, IosOutput, Whole
    <3> QED
      BY <2>1, <2>3, <2>5, <3>5, <3>6, <3>7 DEF IosSafe
  <2> QED
    BY <1>1, <2>1, <2>3, <2>4, <2>5, IosCopyStep DEF IosSafe
<1>2. CASE IosOverlap!Start(r)
  <2>1. /\ UNCHANGED <<policy, staged, listed, temporary, crashes>> /\ pc[r] = "new"
        /\ \/ pc' = [pc EXCEPT ![r] = "failed"]
           \/ pc' = [pc EXCEPT ![r] = "mkdtemp"] /\ IosOverlap!Cardinality(policy.modules) = SelectedPlugins
    BY <1>2 DEF IosOverlap!Start, IosOverlap!LoadPolicy
  <2>2. IosWork(r)'
    BY <2>1 DEF IosSafe, IosWork
  <2>3. \A q \in Runs \ {r} : IosWork(q)'
    BY <2>1, IosOthers DEF IosSafe
  <2>4. IosOutput'
    BY <2>1 DEF IosSafe, IosOutput, Whole
  <2> QED
    BY <2>1, <2>2, <2>3, <2>4 DEF IosSafe
<1>3. CASE IosOverlap!MakeTemporary(r)
  <2>1. /\ UNCHANGED <<policy, staged, listed, crashes>> /\ pc[r] = "mkdtemp"
        /\ pc' = [pc EXCEPT ![r] = "copy"]
        /\ temporary' = [temporary EXCEPT ![r] = [state |-> "made", files |-> <<>>]]
    BY <1>3 DEF IosOverlap!MakeTemporary, IosOverlap!Directory
  <2>2. IosWork(r)'
    BY <2>1 DEF IosSafe, IosWork, Bundle, Main
  <2>3. \A q \in Runs \ {r} : IosWork(q)'
    BY <2>1, IosOthers DEF IosSafe
  <2>4. IosOutput'
    BY <2>1 DEF IosSafe, IosOutput, Whole
  <2> QED
    BY <2>1, <2>2, <2>3, <2>4 DEF IosSafe
<1>4. CASE IosOverlap!CreateReport(r) \/ IosOverlap!FillReport(r)
  <2>1. /\ UNCHANGED <<policy, staged, listed, temporary, crashes>> /\ pc[r] \in {"report", "write"}
        /\ \E to \in {"write", "publish", "handler"} : pc' = [pc EXCEPT ![r] = to]
    BY <1>4 DEF IosOverlap!CreateReport, IosOverlap!FillReport
  <2>2. IosWork(r)'
    BY <2>1 DEF IosSafe, IosWork, Whole, IosSound
  <2>3. \A q \in Runs \ {r} : IosWork(q)'
    BY <2>1, IosOthers DEF IosSafe
  <2>4. IosOutput'
    BY <2>1 DEF IosSafe, IosOutput, Whole
  <2> QED
    BY <2>1, <2>2, <2>3, <2>4 DEF IosSafe
<1>5. CASE IosOverlap!Publish(r)
  <2>1. /\ UNCHANGED <<policy, listed, crashes>> /\ pc[r] = "publish"
        /\ pc' = [pc EXCEPT ![r] = IF staged = <<>> THEN "done" ELSE "handler"]
        /\ IF staged = <<>>
           THEN staged' = temporary[r].files /\ temporary' = [temporary EXCEPT ![r] = IosOverlap!NoDirectory]
           ELSE UNCHANGED <<staged, temporary>>
    BY <1>5 DEF IosOverlap!Publish
  <2>2. Whole(listed[r]) /\ temporary[r].files = listed[r] /\ listed[r] # <<>>
    <3>1. Whole(listed[r]) /\ temporary[r] = [state |-> "made", files |-> listed[r]]
      BY <2>1 DEF IosSafe, IosWork
    <3>2. "core" \in DOMAIN listed[r]
      BY <3>1 DEF Whole, Main
    <3> QED
      BY <3>1, <3>2
  <2>3. IosWork(r)'
    BY <2>1 DEF IosSafe, IosWork
  <2>4. \A q \in Runs \ {r} : IosWork(q)'
    <3> SUFFICES ASSUME NEW q \in Runs \ {r}
                 PROVE  pc'[q] = pc[q] /\ listed'[q] = listed[q] /\ temporary'[q] = temporary[q]
      BY <2>1, IosOthers
    <3> QED
      BY <2>1 DEF IosSafe
  <2>5. IosOutput'
    BY <2>1, <2>2 DEF IosSafe, IosOutput, Whole
  <2> QED
    BY <2>1, <2>3, <2>4, <2>5 DEF IosSafe
<1>6. CASE IosOverlap!RemoveTemporary(r) \/ IosOverlap!RemoveReport(r)
  <2>1. /\ UNCHANGED <<policy, staged, listed, crashes>> /\ pc[r] \in {"handler", "unlink"}
        /\ \E to \in {"unlink", "failed"} : pc' = [pc EXCEPT ![r] = to]
        /\ \/ temporary' = temporary
           \/ temporary' = [temporary EXCEPT ![r] = IosOverlap!NoDirectory]
    BY <1>6 DEF IosOverlap!RemoveTemporary, IosOverlap!RemoveReport
  <2>2. IosWork(r)'
    BY <2>1 DEF IosSafe, IosWork
  <2>3. \A q \in Runs \ {r} : IosWork(q)'
    BY <2>1, IosOthers DEF IosSafe
  <2>4. IosOutput'
    BY <2>1 DEF IosSafe, IosOutput, Whole
  <2> QED
    BY <2>1, <2>2, <2>3, <2>4 DEF IosSafe
<1> QED
  BY <1>1, <1>2, <1>3, <1>4, <1>5, <1>6 DEF IosOverlap!Step

\* A killed run knows nothing more.
LEMMA IosKillSafe ==
  ASSUME IosSafe, NEW r \in Runs, pc' = [pc EXCEPT ![r] = "killed"], crashes' = crashes + 1,
         Active(r), UNCHANGED <<policy, staged, listed, temporary>>
  PROVE  IosSafe'
<1>1. IosWork(r)'
  BY DEF IosSafe, IosWork
<1>2. \A q \in Runs \ {r} : IosWork(q)'
  BY IosOthers DEF IosSafe
<1>3. IosOutput'
  BY DEF IosSafe, IosOutput, Whole
<1> QED
  BY <1>1, <1>2, <1>3 DEF IosSafe

\* While no run is underway the policy means nothing to what is published.
LEMMA IosReviseSafe ==
  ASSUME IosSafe, policy' \in IosPolicies, \A r \in Runs : ~Active(r),
         UNCHANGED <<staged, listed, temporary, pc, crashes>>
  PROVE  IosSafe'
<1>1. \A r \in Runs : IosWork(r)'
  BY DEF IosSafe, IosWork, Active
<1>2. IosOutput'
  BY DEF IosSafe, IosOutput, Whole
<1> QED
  BY <1>1, <1>2 DEF IosSafe

\* Every step of overlapping iOS runs keeps what they know.
LEMMA IosOverlapNextSafe ==
  ASSUME IosSafe, IosOverlap!Next
  PROVE  IosSafe'
<1>1. CASE \E r \in Runs : IosOverlap!Step(r)
  BY <1>1, IosStepSafe
<1>2. CASE \E r \in Runs : IosOverlap!Kill(r) /\ UNCHANGED temporary
  BY <1>2, IosKillSafe DEF IosOverlap!Kill, IosOverlap!inputs, IosOverlap!Ended, Active
<1>3. CASE IosOverlap!Revise /\ UNCHANGED temporary
  BY <1>3, IosReviseSafe DEF IosOverlap!Revise, IosOverlap!Ended, Active
<1> QED
  BY <1>1, <1>2, <1>3 DEF IosOverlap!Next

\* Runs that follow each other: one is underway, on an output that is free; the
\* report is there when the run has written it; there is no temporary directory but
\* of the run that is underway and of those that were killed; and there is an output
\* when there is a report, unless a run was killed.
IosTidy ==
  /\ \A r, q \in Runs : Active(r) /\ Active(q) => r = q
  /\ \A r \in Runs : Active(r) => staged = <<>>
  /\ \A r \in Runs : pc[r] \in {"mkdtemp", "copy", "report"} => report.state = "none"
  /\ \A r \in Runs : pc[r] = "publish" => report.state = "whole" /\ report.files = listed[r]
  /\ \A r \in Runs : pc[r] \in {"new", "mkdtemp", "unlink", "done", "failed"} =>
                       temporary[r] = Ios!NoDirectory
  /\ \A r \in Runs : crashes = 0 => pc[r] # "killed"
  /\ staged # <<>> => report.state = "whole" /\ report.files = staged
  /\ crashes = 0 /\ (\A r \in Runs : ~Active(r)) /\ staged = <<>> => report.state = "none"

\* Before the first iOS run nothing is left behind.
LEMMA IosTidyStarts == Ios!IosInit => IosTidy
BY DEF Ios!IosInit, Ios!Init, IosTidy, Active

\* A step of the run that is underway leaves nothing behind: each exit that it may
\* take once its temporary directory exists removes it, or publishes it.
LEMMA IosStepTidy ==
  ASSUME IosSafe, IosTidy, NEW r \in Runs, IosOverlap!Step(r),
         Active(r) \/ \A q \in Runs \ {r} : ~Active(q)
  PROVE  IosTidy'
<1> USE DEF IosOverlap!Goto, IosOverlap!Try, IosOverlap!inputs
<1>1. \A q \in Runs \ {r} : ~Active(q)
  BY DEF IosTidy
<1>2. CASE IosOverlap!StageFramework(r)
  <2>1. /\ pc[r] = "copy" /\ UNCHANGED <<staged, report, crashes>>
        /\ \E to \in {"copy", "report", "handler"} : pc' = [pc EXCEPT ![r] = to]
        /\ \E d : temporary' = [temporary EXCEPT ![r] = d]
    <3>1. ~(Bundle(policy) \subseteq DOMAIN listed[r]) /\ pc[r] = "copy"
      BY <1>2 DEF IosOverlap!StageFramework, IosSafe, IosWork
    <3>2. temporary = [temporary EXCEPT ![r] = temporary[r]]
      BY DEF IosSafe
    <3> QED
      BY <1>2, <3>1, <3>2, IosCopyStep DEF IosSafe
  <2> QED
    BY <1>1, <2>1 DEF IosSafe, IosTidy, Active
<1>3. CASE IosOverlap!Start(r)
  <2>1. /\ UNCHANGED <<staged, report, temporary, crashes>> /\ pc[r] = "new"
        /\ \/ pc' = [pc EXCEPT ![r] = "failed"]
           \/ pc' = [pc EXCEPT ![r] = "mkdtemp"] /\ staged = <<>> /\ report.state = "none"
    BY <1>3 DEF IosOverlap!Start
  <2> QED
    BY <1>1, <2>1 DEF IosSafe, IosTidy, Active
<1>4. CASE IosOverlap!MakeTemporary(r)
  <2>1. /\ UNCHANGED <<staged, report, crashes>> /\ pc[r] = "mkdtemp"
        /\ pc' = [pc EXCEPT ![r] = "copy"]
        /\ \E d : temporary' = [temporary EXCEPT ![r] = d]
    BY <1>4 DEF IosOverlap!MakeTemporary
  <2> QED
    BY <1>1, <2>1 DEF IosSafe, IosTidy, Active
<1>5. CASE IosOverlap!CreateReport(r)
  <2>1. /\ UNCHANGED <<staged, crashes, temporary>> /\ pc[r] = "report"
        /\ pc' = [pc EXCEPT ![r] = "write"]
    BY <1>5 DEF IosOverlap!CreateReport
  <2> QED
    BY <1>1, <2>1 DEF IosSafe, IosTidy, Active
<1>6. CASE IosOverlap!FillReport(r)
  <2>1. /\ UNCHANGED <<staged, listed, crashes, temporary>> /\ pc[r] = "write"
        /\ \/ pc' = [pc EXCEPT ![r] = "handler"]
           \/ /\ pc' = [pc EXCEPT ![r] = "publish"]
              /\ report'.state = "whole" /\ report'.files = listed[r]
    <3>1. PICK ok \in BOOLEAN :
            /\ pc[r] = "write"
            /\ pc' = [pc EXCEPT ![r] = IF ok THEN "publish" ELSE "handler"]
            /\ report' = IF ok THEN IosOverlap!Report(r, policy.components) ELSE report
      BY <1>6, Zenon DEF IosOverlap!FillReport
    <3>2. UNCHANGED <<staged, listed, crashes, temporary>>
      BY <1>6 DEF IosOverlap!FillReport
    <3>3. /\ IosOverlap!Report(r, policy.components).state = "whole"
          /\ IosOverlap!Report(r, policy.components).files = listed[r]
      BY DEF IosOverlap!Report
    <3> QED
      BY <3>1, <3>2, <3>3
  <2>2. staged = <<>>
    BY <2>1 DEF IosTidy, Active
  <2>3. CASE pc' = [pc EXCEPT ![r] = "handler"]
    BY <1>1, <2>1, <2>2, <2>3 DEF IosSafe, IosTidy, Active
  <2>4. CASE pc' = [pc EXCEPT ![r] = "publish"] /\ report'.state = "whole" /\ report'.files = listed[r]
    BY <1>1, <2>1, <2>2, <2>4 DEF IosSafe, IosTidy, Active
  <2> QED
    BY <2>1, <2>3, <2>4
<1>7. CASE IosOverlap!Publish(r)
  <2>1. /\ UNCHANGED <<report, crashes>> /\ pc[r] = "publish"
        /\ pc' = [pc EXCEPT ![r] = IF staged = <<>> THEN "done" ELSE "handler"]
        /\ staged = <<>> => /\ staged' = temporary[r].files
                            /\ temporary' = [temporary EXCEPT ![r] = Ios!NoDirectory]
    BY <1>7 DEF IosOverlap!Publish, IosOverlap!NoDirectory, Ios!NoDirectory
  <2>2. /\ staged = <<>>
        /\ report.state = "whole" /\ report.files = listed[r]
    BY <2>1 DEF IosTidy, Active
  <2>3. Whole(listed[r]) /\ temporary[r].files = listed[r]
    BY <2>1 DEF IosSafe, IosWork
  <2>4. listed[r] # <<>>
    <3>1. "core" \in DOMAIN listed[r]
      BY <2>3 DEF Whole, Main
    <3> QED
      BY <3>1
  <2> QED
    BY <1>1, <2>1, <2>2, <2>3, <2>4 DEF IosSafe, IosTidy, Active
<1>8. CASE IosOverlap!RemoveTemporary(r)
  <2>1. /\ UNCHANGED <<staged, report, crashes>> /\ pc[r] = "handler"
        /\ pc' = [pc EXCEPT ![r] = "unlink"]
        /\ temporary' = [temporary EXCEPT ![r] = Ios!NoDirectory]
    BY <1>8 DEF IosOverlap!RemoveTemporary, IosOverlap!NoDirectory, Ios!NoDirectory
  <2> QED
    BY <1>1, <2>1 DEF IosSafe, IosTidy, Active
<1>9. CASE IosOverlap!RemoveReport(r)
  <2>1. /\ UNCHANGED <<staged, crashes, temporary>> /\ pc[r] = "unlink"
        /\ pc' = [pc EXCEPT ![r] = "failed"] /\ report'.state = "none"
    BY <1>9 DEF IosOverlap!RemoveReport
  <2> QED
    BY <1>1, <2>1 DEF IosSafe, IosTidy, Active
<1> QED
  BY <1>2, <1>3, <1>4, <1>5, <1>6, <1>7, <1>8, <1>9 DEF IosOverlap!Step

\* Runs that follow each other keep both.
LEMMA IosNextSafe ==
  ASSUME IosSafe, IosTidy, Ios!Next
  PROVE  IosSafe' /\ IosTidy'
<1>1. CASE \E r \in Runs : Ios!Step(r)
  BY <1>1, IosStepIsOverlap, IosStepSafe, IosStepTidy
<1>2. CASE \E r \in Runs : Ios!Kill(r) /\ UNCHANGED temporary
  <2>1. PICK r \in Runs :
          /\ Active(r) /\ pc' = [pc EXCEPT ![r] = "killed"] /\ crashes' = crashes + 1
          /\ UNCHANGED <<policy, staged, listed, temporary, report>>
    BY <1>2 DEF Ios!Kill, Ios!inputs, Ios!Ended, Active
  <2>2. IosSafe'
    BY <2>1, IosKillSafe
  <2>3. crashes' # 0
    BY <2>1 DEF IosSafe
  <2>4. IosTidy'
    BY <2>1, <2>3 DEF IosSafe, IosTidy, Active
  <2> QED
    BY <2>2, <2>4
<1>3. CASE Ios!Revise /\ UNCHANGED temporary
  <2>1. /\ \A r \in Runs : ~Active(r)
        /\ policy' \in IosPolicies
        /\ UNCHANGED <<staged, listed, temporary, report, pc, crashes>>
    BY <1>3 DEF Ios!Revise, Ios!Ended, Active
  <2>2. IosSafe'
    BY <2>1, IosReviseSafe
  <2>3. IosTidy'
    BY <2>1 DEF IosTidy, Active
  <2> QED
    BY <2>2, <2>3
<1> QED
  BY <1>1, <1>2, <1>3 DEF Ios!Next

\* A set with at most one element has at most one element to count.
LEMMA AtMostOne ==
  ASSUME NEW S, \A x, y \in S : x = y
  PROVE  Cardinality(S) <= 1
<1>1. CASE S = {}
  BY <1>1, FS_EmptySet
<1>2. ASSUME NEW x \in S
      PROVE  Cardinality(S) <= 1
  <2>1. S = {x}
    OBVIOUS
  <2> QED
    BY <2>1, FS_Singleton
<1> QED
  BY <1>1, <1>2

\* The properties of the iOS script follow.
LEMMA IosProperties ==
  ASSUME IosSafe
  PROVE  Ios!PublishedIsWhole /\ IosOverlap!OnePublisher
<1>1. Ios!PublishedIsWhole
  <2> SUFFICES ASSUME staged # <<>>
               PROVE  /\ Main \subseteq DOMAIN staged
                      /\ Ios!Cardinality(DOMAIN staged \ Main) = SelectedPlugins
                      /\ \A f \in DOMAIN staged : \A n \in Ios!Range(staged[f].needs) :
                            n \in SystemNames \cup DOMAIN staged
    <3>1. Ios!Range(Ios!Fixed) = Main
      BY DEF Ios!Range, Ios!Fixed, Main
    <3> QED
      BY <3>1 DEF Ios!PublishedIsWhole, Ios!Published, Ios!Resolves, Main
  <2>1. Whole(staged)
    BY DEF IosSafe, IosOutput
  <2>2. Ios!Cardinality(DOMAIN staged \ Main) = IosOverlap!Cardinality(DOMAIN staged \ Main)
    BY Zenon DEF Ios!Cardinality, IosOverlap!Cardinality
  <2> QED
    BY <2>1, <2>2 DEF Whole, IosSound, Main, Ios!Range
<1>2. IosOverlap!OnePublisher
  <2> DEFINE S == {r \in Runs : pc[r] = "done"}
  <2>1. Cardinality(S) <= 1
    BY AtMostOne DEF IosSafe, IosOutput
  <2>2. IosOverlap!Cardinality(S) = Cardinality(S)
    BY Zenon DEF IosOverlap!Cardinality, Cardinality
  <2> QED
    BY <2>1, <2>2 DEF IosOverlap!OnePublisher
<1> QED
  BY <1>1, <1>2

\* Of runs that follow each other, one that ends leaves an output that is reported,
\* or none, and no temporary directory.
LEMMA IosTidyProperties ==
  ASSUME IosSafe, IosTidy
  PROVE  Ios!EndsCleanly /\ Ios!NoUnreportedOutput
<1>1. Ios!NoUnreportedOutput
  BY DEF IosTidy, Ios!NoUnreportedOutput, Ios!Published
<1>2. Ios!EndsCleanly
  BY DEF IosTidy, IosSafe, Ios!EndsCleanly, Ios!Published, Ios!Ended, Active
<1> QED
  BY <1>1, <1>2

-----------------------------------------------------------------------------
(* From the staged runtimes to the payload *)

\* The processes of a packaging with the matrix runs S.
Processes(S) == Payload!Jobs \cup {"extraction"} \cup S

\* An audit is a record of the digests of files.
AuditForm(a) == a = [status |-> a.status, files |-> a.files] /\ IsMap(a.files)

\* What a candidate is, once its inventory is complete.
Candidate(files) ==
  /\ IsMap(files) /\ IsFiniteSet(DOMAIN files) /\ "absent" \notin DOMAIN files
  /\ {Payload!Audit, Payload!Sums} \cup Selected \subseteq DOMAIN files
  /\ AuditForm(files[Payload!Audit]) /\ IsMap(files[Payload!Sums].sums)

\* The processes each have their own variables.
PayloadShape(S) ==
  /\ edits \in Nat
  /\ pc = [p \in Processes(S) |-> pc[p]]
  /\ read = [p \in Processes(S) |-> read[p]] /\ seen = [p \in Processes(S) |-> seen[p]]
  /\ staged = [t \in Payload!Jobs |-> staged[t]]
  /\ inventory = [t \in Payload!Jobs |-> inventory[t]]
  /\ report = [t \in Payload!Posix |-> report[t]]
  /\ \A t \in Payload!Posix : report[t] \in PayloadReports
  /\ temporary = [r \in S |-> temporary[r]]

\* A job closes its inventory over the files that are there, the audit among them.
JobWork(t) ==
  /\ IsMap(staged[t]) /\ IsFiniteSet(DOMAIN staged[t]) /\ "absent" \notin DOMAIN staged[t]
  /\ IsMap(seen[t])
  /\ pc[t] \in {"inventory", "write"} => DOMAIN staged[t] = DOMAIN seen[t] \cup {Payload!Audit}
  /\ pc[t] \in {"inventory", "write", "done"} =>
       /\ {Payload!Audit} \cup Selected \subseteq DOMAIN staged[t]
       /\ staged[t][Payload!Audit] # Payload!Torn
  /\ pc[t] = "done" => inventory[t].files = DOMAIN staged[t]

\* What a job of a POSIX target knows: the files it has hashed are of the report,
\* and, while nothing was changed, they are staged as the report says.
PosixWork(t) ==
  LET names == DOMAIN read[t].files IN
  /\ pc[t] \in {"hash", "close", "audit", "fill"} =>
       /\ read[t] \in PayloadReports
       /\ DOMAIN seen[t] \subseteq names
       /\ pc[t] = "hash" <=> ~(names \subseteq DOMAIN seen[t])
       /\ edits = 0 =>
            /\ read[t] = report[t] /\ report[t].status = status
            /\ \A f \in DOMAIN seen[t] \ {Payload!Audit} :
                 f \in DOMAIN staged[t] /\ staged[t][f] = read[t].files[f]
  /\ pc[t] = "audit" => DOMAIN staged[t] = DOMAIN seen[t]
  /\ pc[t] = "fill" => DOMAIN staged[t] = DOMAIN seen[t] \cup {Payload!Audit}
  /\ pc[t] \in {"inventory", "write", "done"} /\ edits = 0 =>
       staged[t] = Payload!With(report[t].files, Payload!Audit, report[t]) /\ report[t].status = status

\* What the Windows job knows.
ArchivedJobWork ==
  /\ Payload!Sums \in DOMAIN staged[Archived] => IsMap(staged[Archived][Payload!Sums].sums)
  /\ pc[Archived] \in {"hash", "audit", "fill", "close", "inventory", "write"} =>
       (pc[Archived] = "hash" <=> ~(Payload!RequiredFiles \subseteq DOMAIN seen[Archived]))
  /\ pc[Archived] \in {"hash", "audit", "fill"} /\ edits = 0 => read[Archived].status = status
  /\ pc[Archived] \in {"close", "inventory", "write", "done"} =>
       /\ Payload!Audit \in DOMAIN staged[Archived]
       /\ AuditForm(staged[Archived][Payload!Audit])
       /\ edits = 0 => staged[Archived][Payload!Audit].status = status
  /\ pc[Archived] \in {"inventory", "write", "done"} => Payload!Sums \in DOMAIN staged[Archived]

\* The archive is of a complete candidate.
ArchiveWork ==
  archive # Payload!Absent =>
    pc[Archived] = "done" /\ Candidate(archive) /\ (edits = 0 => archive = staged[Archived])

\* The files that agree with a record of digests.
Listed(names) == [f \in names |-> unpacked[f]]

\* What the extraction knows: what it has unpacked is of the archive it has read,
\* and what it has verified is so.
ExtractionWork ==
  /\ unpacked = Payload!Absent => seen["extraction"] = <<>>
  /\ pc["extraction"] \in {"unpack", "sums", "verify", "done"} =>
       /\ pc[Archived] = "done" /\ Candidate(read["extraction"])
       /\ edits = 0 => read["extraction"] = staged[Archived]
  /\ pc["extraction"] = "unpack" =>
       /\ IsMap(unpacked)
       /\ DOMAIN unpacked = DOMAIN seen["extraction"]
       /\ DOMAIN unpacked \subseteq DOMAIN read["extraction"]
       /\ ~(DOMAIN read["extraction"] \subseteq DOMAIN unpacked)
       /\ \A f \in DOMAIN unpacked : unpacked[f] = read["extraction"][f]
  /\ pc["extraction"] \in {"sums", "verify", "done"} => unpacked = read["extraction"]
  /\ pc["extraction"] \in {"verify", "done"} =>
       unpacked[Payload!Sums].sums = Listed(DOMAIN unpacked \ {Payload!Sums, Payload!Audit})
  /\ pc["extraction"] = "done" =>
       unpacked[Payload!Audit].files = Listed(DOMAIN unpacked \ {Payload!Audit})

\* The targets that are packaged first.
First(n) == {Platforms[i] : i \in 1 .. n}

\* Whether a file that was read for a target is as it is there, and what was
\* approved still is, unless something was changed.
Same(t, f, content) ==
  t = Archived \/ edits = 0 => content = Payload!StagingOf(t)[f]
Reviewed == edits = 0 => status = "approved"

\* A payload of a target that can be published.
Good(t, payload) ==
  /\ payload = [files |-> payload.files, digests |-> payload.digests]
  /\ IsMap(payload.files) /\ IsMap(payload.digests) /\ Reviewed
  /\ DOMAIN payload.files = DOMAIN Payload!StagingOf(t)
  /\ DOMAIN payload.digests = DOMAIN Payload!StagingOf(t)
  /\ \A f \in DOMAIN Payload!StagingOf(t) : Same(t, f, payload.files[f]) /\ Same(t, f, payload.digests[f])

\* What a run of the matrix packager knows: every job is done; the targets it has
\* packaged are the first ones; and of the target that is next it has hashed, and
\* then copied, files as they are there.
PackageWork(r) ==
  LET t == Payload!Current(r) IN
  /\ IsMap(seen[r])
  /\ pc[r] \in {"load", "validate", "close", "copy", "manifest", "mkdir", "publish", "done"} =>
       \A p \in Payload!Jobs \cup {"extraction"} : pc[p] = "done"
  /\ pc[r] \in {"load", "validate", "close", "copy", "manifest"} =>
       \E n \in 0 .. Len(Platforms) - 1 : DOMAIN temporary[r] = First(n)
  /\ pc[r] \in {"load", "validate", "close", "copy", "manifest", "mkdir", "publish"} =>
       \A u \in DOMAIN temporary[r] : Good(u, temporary[r][u])
  /\ pc[r] \in {"mkdir", "publish"} => DOMAIN temporary[r] = Payload!Jobs
  /\ pc[r] \in {"validate", "close"} =>
       /\ read[r] = inventory[t].files /\ DOMAIN seen[r] \subseteq read[r] /\ Reviewed
       /\ pc[r] = "validate" <=> ~(read[r] \subseteq DOMAIN seen[r])
  /\ pc[r] \in {"copy", "manifest"} =>
       /\ IsMap(read[r].digests) /\ DOMAIN read[r].digests = DOMAIN Payload!StagingOf(t) /\ Reviewed
       /\ \A f \in DOMAIN read[r].digests : Same(t, f, read[r].digests[f])
       /\ DOMAIN seen[r] \subseteq DOMAIN read[r].digests
       /\ pc[r] = "copy" <=> ~(DOMAIN read[r].digests \subseteq DOMAIN seen[r])
  /\ pc[r] \in {"validate", "close", "copy", "manifest"} =>
       \A f \in DOMAIN seen[r] : f \in DOMAIN Payload!StagingOf(t) /\ Same(t, f, seen[r][f])

\* One run publishes, and what it has published is good.
OutputWork(S) ==
  /\ \A r, q \in S : pc[r] \in {"publish", "done"} /\ pc[q] \in {"publish", "done"} => r = q
  /\ \A r \in S :
       /\ pc[r] \in {"publish", "done"} =>
            output # Payload!Absent /\ \A t \in DOMAIN output : Good(t, output[t])
       /\ pc[r] = "publish" => \E n \in 0 .. Len(Platforms) - 1 : DOMAIN output = First(n)
       /\ pc[r] = "done" => DOMAIN output = Payload!Jobs

PayloadSafe(S) ==
  /\ PayloadShape(S)
  /\ \A t \in Payload!Jobs : JobWork(t)
  /\ \A t \in Payload!Posix : PosixWork(t)
  /\ ArchivedJobWork /\ ArchiveWork /\ ExtractionWork
  /\ \A r \in S : PackageWork(r)
  /\ OutputWork(S)

\* The next file of a finite set is one that was not seen, and the last one if
\* with it all of them were.
LEMMA NextFileIsNext ==
  ASSUME NEW p, NEW names, IsFiniteSet(names), ~(names \subseteq DOMAIN seen[p])
  PROVE  /\ Payload!NextFile(p, names) \in names
         /\ Payload!NextFile(p, names) \notin DOMAIN seen[p]
         /\ Payload!LastFile(p, names) <=>
              names \subseteq DOMAIN seen[p] \cup {Payload!NextFile(p, names)}
<1> DEFINE f == Payload!NextFile(p, names)
           rest == names \ DOMAIN seen[p]
<1>1. f \in names /\ f \notin DOMAIN seen[p]
  BY DEF Payload!NextFile
<1> HIDE DEF f
<1>2. IsFiniteSet(rest) /\ f \in rest
  BY <1>1, FS_Subset
<1>3. Cardinality(rest) = 1 <=> \E x : rest = {x}
  BY <1>2, FS_Singleton
<1>4. Payload!Cardinality(rest) = Cardinality(rest)
  BY Zenon DEF Payload!Cardinality, Cardinality
<1>5. Cardinality(rest) = 1 <=> rest = {f}
  BY <1>2, <1>3
<1>6. Cardinality(rest) = 1 <=> names \subseteq DOMAIN seen[p] \cup {f}
  BY <1>1, <1>5
<1> QED
  BY <1>1, <1>4, <1>6 DEF Payload!LastFile, f

\* The empty sequence is the map of no file.
LEMMA EmptyIsMap == IsMap(<<>>) /\ DOMAIN <<>> = {}
BY DEF IsMap

\* The jobs, by their names.
LEMMA TargetsAre ==
  /\ Payload!Jobs = {Platforms[i] : i \in 1 .. Len(Platforms)} /\ Len(Platforms) \in Nat \ {0}
  /\ Archived \in Payload!Jobs /\ Payload!Jobs = Payload!Posix \cup {Archived}
  /\ Archived \notin Payload!Posix
  /\ Payload!Jobs \cap {"extraction", "absent"} = {}
  /\ (Runs \cup SingleRuns) \cap (Payload!Jobs \cup {"extraction"}) = {}
<1>1. DOMAIN Platforms = 1 .. Len(Platforms) /\ Len(Platforms) \in Nat \ {0}
  BY PayloadAssumption
<1>2. Payload!Jobs = {Platforms[i] : i \in DOMAIN Platforms}
  BY DEF Payload!Jobs, Payload!Range
<1> QED
  BY <1>1, <1>2, PayloadAssumption DEF Payload!Posix

\* Nothing is underway at first.
LEMMA PayloadBegins ==
  ASSUME NEW S \in SUBSET (Runs \cup SingleRuns),
         staged \in [Payload!Jobs -> UNION {PayloadStagings[t] : t \in Payload!Jobs}],
         \A t \in Payload!Jobs : staged[t] \in PayloadStagings[t],
         report \in [Payload!Posix -> PayloadReports],
         inventory = [t \in Payload!Jobs |-> Payload!Absent],
         archive = Payload!Absent, unpacked = Payload!Absent, output = Payload!Absent,
         temporary = [r \in S |-> Payload!Absent], edits = 0,
         pc = [p \in Processes(S) |-> "new"],
         read = [p \in Processes(S) |-> Payload!Absent],
         seen = [p \in Processes(S) |-> <<>>]
  PROVE  PayloadSafe(S)
<1> USE TargetsAre DEF Processes
<1>1. PayloadShape(S)
  BY DEF PayloadShape
<1>2. \A p \in Processes(S) : pc[p] = "new" /\ seen[p] = <<>>
  OBVIOUS
<1>3. \A t \in Payload!Jobs :
        /\ IsFiniteSet(DOMAIN staged[t]) /\ IsMap(staged[t]) /\ "absent" \notin DOMAIN staged[t]
        /\ "SHA256SUMS" \in DOMAIN staged[t] => IsMap(staged[t]["SHA256SUMS"].sums)
  <2> TAKE t \in Payload!Jobs
  <2>1. t \in {Platforms[i] : i \in DOMAIN Platforms}
    BY DEF Payload!Jobs, Payload!Range
  <2> QED
    BY <2>1, PayloadAssumption
<1>4. \A t \in Payload!Jobs : JobWork(t)
  BY <1>2, <1>3, EmptyIsMap DEF JobWork
<1>5. \A t \in Payload!Posix : PosixWork(t)
  BY <1>2 DEF PosixWork
<1>6. ArchivedJobWork
  BY <1>2, <1>3 DEF ArchivedJobWork, Payload!Sums
<1>7. ArchiveWork /\ ExtractionWork
  BY <1>2 DEF ArchiveWork, ExtractionWork
<1>8. \A r \in S : PackageWork(r)
  BY <1>2, EmptyIsMap DEF PackageWork
<1>9. OutputWork(S)
  BY <1>2 DEF OutputWork
<1> QED
  BY <1>1, <1>4, <1>5, <1>6, <1>7, <1>8, <1>9 DEF PayloadSafe

\* Before the first job and the first run of the packager nothing is known.
LEMMA PayloadStarts == Payload!Init => PayloadSafe(SingleRuns)
<1> SUFFICES ASSUME Payload!Init
             PROVE  PayloadSafe(SingleRuns)
  OBVIOUS
<1>1. Payload!Processes = Processes(SingleRuns)
  BY DEF Payload!Processes, Payload!Extraction, Processes
<1> QED
  BY <1>1, PayloadBegins DEF Payload!Init

\* What a job does is its own.
JobFrame(S, t) ==
  /\ PayloadShape(S)' /\ pc[t] # "done"
  /\ UNCHANGED <<status, report, edits, archive, unpacked, temporary, output>>
  /\ \A p \in Processes(S) \ {t} : pc'[p] = pc[p] /\ read'[p] = read[p] /\ seen'[p] = seen[p]
  /\ \A u \in Payload!Jobs \ {t} : staged'[u] = staged[u] /\ inventory'[u] = inventory[u]

\* A step of an inventory job touches its own target and its own place alone.
LEMMA JobFrames ==
  ASSUME NEW S \in SUBSET (Runs \cup SingleRuns), PayloadShape(S), NEW t \in Payload!Jobs,
         Payload!CreateInventory(t)
  PROVE  JobFrame(S, t)
<1> USE DEF Payload!inputs, Payload!products, Payload!Goto, JobFrame, PayloadShape, Processes
<1>1. CASE Payload!BindReport(t)
  BY <1>1 DEF Payload!BindReport
<1>2. CASE Payload!HashReported(t)
  BY <1>2 DEF Payload!HashReported, Payload!See
<1>3. CASE Payload!ClosePosix(t)
  BY <1>3 DEF Payload!ClosePosix
<1>4. CASE Payload!CopyReport(t)
  BY <1>4 DEF Payload!CopyReport
<1>5. CASE t = Archived /\ Payload!BindPolicies
  BY <1>5 DEF Payload!BindPolicies
<1>6. CASE t = Archived /\ Payload!HashRequired
  BY <1>6 DEF Payload!HashRequired, Payload!See
<1>7. CASE t = Archived /\ Payload!WriteAudit
  BY <1>7 DEF Payload!WriteAudit
<1>8. CASE t = Archived /\ Payload!CloseWindows
  BY <1>8 DEF Payload!CloseWindows
<1>9. CASE Payload!OpenAudit(t)
  BY <1>9 DEF Payload!OpenAudit
<1>10. CASE Payload!WriteInventory(t)
  BY <1>10 DEF Payload!WriteInventory
<1> QED
  BY <1>1, <1>2, <1>3, <1>4, <1>5, <1>6, <1>7, <1>8, <1>9, <1>10 DEF Payload!CreateInventory

\* While a job is underway nothing is packaged, and if it is the one of Windows there
\* is no archive either; the other jobs keep what they know.
LEMMA JobOthers ==
  ASSUME NEW S \in SUBSET (Runs \cup SingleRuns), PayloadSafe(S), NEW t \in Payload!Jobs,
         JobFrame(S, t)
  PROVE  /\ \A u \in Payload!Jobs \ {t} : JobWork(u)'
         /\ \A u \in Payload!Posix \ {t} : PosixWork(u)'
         /\ t # Archived => ArchivedJobWork'
         /\ ArchiveWork' /\ ExtractionWork' /\ OutputWork(S)'
         /\ \A r \in S : PackageWork(r)'
<1> USE TargetsAre DEF PayloadSafe, JobFrame, Processes
<1>1. \A u \in Payload!Jobs \ {t} : JobWork(u)'
  BY DEF JobWork
<1>2. \A u \in Payload!Posix \ {t} : PosixWork(u)'
  BY DEF PosixWork
<1>3. t # Archived => ArchivedJobWork'
  BY DEF ArchivedJobWork
<1>4. ArchiveWork'
  <2>1. CASE archive = Payload!Absent
    BY <2>1 DEF ArchiveWork
  <2>2. CASE t # Archived
    BY <2>2 DEF ArchiveWork
  <2> QED
    BY <2>1, <2>2 DEF ArchiveWork
<1>5. "extraction" \in Processes(S) \ {t} /\ Archived \in Processes(S)
  OBVIOUS
<1>6. pc["extraction"] \in {"unpack", "sums", "verify", "done"} => t # Archived
  BY DEF ExtractionWork
<1>7. ExtractionWork'
  <2>1. CASE pc["extraction"] \in {"unpack", "sums", "verify", "done"}
    <3>1. pc'[Archived] = pc[Archived] /\ staged'[Archived] = staged[Archived]
      BY <1>5, <1>6, <2>1
    <3> QED
      BY <1>5, <2>1, <3>1 DEF ExtractionWork, Listed
  <2> QED
    BY <1>5, <2>1 DEF ExtractionWork
<1>8. \A r \in S : /\ r \in Processes(S) \ {t}
                   /\ pc[r] \notin {"load", "validate", "close", "copy", "manifest", "mkdir", "publish", "done"}
  BY DEF PackageWork
<1>9. \A r \in S : PackageWork(r)'
  BY <1>8 DEF PackageWork
<1>10. OutputWork(S)'
  BY <1>8 DEF OutputWork
<1> QED
  BY <1>1, <1>2, <1>3, <1>4, <1>7, <1>9, <1>10

\* The job of a POSIX target.
LEMMA PosixStep ==
  ASSUME NEW S \in SUBSET (Runs \cup SingleRuns), PayloadSafe(S), NEW t \in Payload!Posix,
         Payload!CreateInventory(t)
  PROVE  JobWork(t)' /\ PosixWork(t)'
<1>1. /\ PayloadShape(S) /\ JobWork(t) /\ PosixWork(t)
      /\ t \in Payload!Jobs /\ t # Archived /\ t \in Processes(S)
  BY TargetsAre DEF PayloadSafe, Processes
<1>2. JobFrame(S, t)
  BY <1>1, JobFrames
<1> USE DEF Payload!inputs, Payload!products, Payload!Goto
<1>3. CASE Payload!BindReport(t)
  <2>1. /\ pc'[t] = IF /\ inventory[t] = Payload!Absent /\ Payload!Permitted
                       /\ report[t].status = status /\ DOMAIN report[t].files # {}
                    THEN "hash" ELSE "failed"
        /\ read'[t] = report[t] /\ seen'[t] = <<>>
        /\ UNCHANGED <<status, edits, report, staged, inventory>>
    BY <1>1, <1>3, Zenon DEF Payload!BindReport, PayloadShape
  <2>2. report[t] \in PayloadReports
    BY <1>1 DEF PayloadShape
  <2>3. JobWork(t)'
    BY <1>1, <2>1, EmptyIsMap DEF JobWork
  <2>4. PosixWork(t)'
    BY <1>1, <2>1, <2>2, EmptyIsMap DEF PosixWork
  <2> QED
    BY <2>3, <2>4
<1>4. CASE Payload!HashReported(t)
  <2> DEFINE names == DOMAIN read[t].files
             f == Payload!NextFile(t, names)
  <2>1. /\ pc[t] = "hash"
        /\ pc'[t] = IF f \in DOMAIN staged[t] /\ staged[t][f] = read[t].files[f]
                    THEN IF Payload!LastFile(t, names) THEN "close" ELSE "hash" ELSE "failed"
        /\ seen'[t] = Payload!With(seen[t], f, read[t].files[f])
        /\ UNCHANGED <<status, edits, report, staged, inventory, read>>
    BY <1>1, <1>4, Zenon DEF Payload!HashReported, Payload!See, PayloadShape
  <2>2. read[t] \in PayloadReports /\ ~(names \subseteq DOMAIN seen[t]) /\ IsFiniteSet(names)
    BY <1>1, <2>1, PayloadAssumption DEF PosixWork
  <2>3. /\ f \in names /\ f \notin DOMAIN seen[t]
        /\ Payload!LastFile(t, names) <=> names \subseteq DOMAIN seen[t] \cup {f}
    BY <2>2, NextFileIsNext
  <2> HIDE DEF f
  <2>4. /\ IsMap(seen'[t]) /\ DOMAIN seen'[t] = DOMAIN seen[t] \cup {f}
    BY <2>1 DEF Payload!With, IsMap
  <2>5. JobWork(t)'
    BY <1>1, <2>1, <2>4 DEF JobWork
  <2>6. PosixWork(t)'
    BY <1>1, <2>1, <2>2, <2>3, <2>4 DEF PosixWork
  <2> QED
    BY <2>5, <2>6
<1>5. CASE Payload!ClosePosix(t)
  <2>1. /\ pc[t] = "close"
        /\ pc'[t] = IF DOMAIN staged[t] = DOMAIN seen[t] THEN "audit" ELSE "failed"
        /\ UNCHANGED <<status, edits, report, staged, inventory, read, seen>>
    BY <1>1, <1>5, Zenon DEF Payload!ClosePosix, PayloadShape
  <2> QED
    BY <1>1, <2>1 DEF JobWork, PosixWork
<1>6. CASE Payload!OpenAudit(t)
  <2>1. /\ pc[t] = "audit" /\ pc'[t] = "fill"
        /\ staged'[t] = Payload!With(staged[t], Payload!Audit, Payload!Torn)
        /\ UNCHANGED <<status, edits, report, inventory, read, seen>>
    BY <1>1, <1>6, Zenon DEF Payload!OpenAudit, PayloadShape
  <2>2. /\ IsMap(staged'[t]) /\ DOMAIN staged'[t] = DOMAIN staged[t] \cup {Payload!Audit}
        /\ \A g \in DOMAIN staged[t] \ {Payload!Audit} : staged'[t][g] = staged[t][g]
    BY <2>1 DEF Payload!With, IsMap
  <2>3. IsFiniteSet(DOMAIN staged'[t]) /\ "absent" \notin DOMAIN staged'[t]
    BY <1>1, <2>2, FS_AddElement DEF JobWork, Payload!Audit
  <2>4. JobWork(t)'
    BY <1>1, <2>1, <2>2, <2>3 DEF JobWork
  <2>5. PosixWork(t)'
    BY <1>1, <2>1, <2>2 DEF PosixWork
  <2> QED
    BY <2>4, <2>5
<1>7. CASE Payload!CopyReport(t)
  <2>1. /\ pc[t] = "fill" /\ pc'[t] = "inventory"
        /\ staged'[t] = Payload!With(staged[t], Payload!Audit, report[t])
        /\ UNCHANGED <<status, edits, report, inventory, read, seen>>
    BY <1>1, <1>7, Zenon DEF Payload!CopyReport, PayloadShape
  <2>2. /\ IsMap(staged'[t]) /\ DOMAIN staged'[t] = DOMAIN staged[t] \cup {Payload!Audit}
        /\ \A g \in DOMAIN staged[t] \ {Payload!Audit} : staged'[t][g] = staged[t][g]
        /\ staged'[t][Payload!Audit] = report[t]
    BY <2>1 DEF Payload!With, IsMap
  <2>3. IsFiniteSet(DOMAIN staged'[t]) /\ "absent" \notin DOMAIN staged'[t]
    BY <1>1, <2>2, FS_AddElement DEF JobWork, Payload!Audit
  <2>4. /\ read[t] \in PayloadReports /\ DOMAIN seen[t] = DOMAIN read[t].files
        /\ DOMAIN staged[t] = DOMAIN seen[t] \cup {Payload!Audit}
    BY <1>1, <2>1 DEF PosixWork
  <2>5. Selected \subseteq DOMAIN seen[t]
    BY <2>4, PayloadAssumption
  <2>6. report[t] # Payload!Torn
    <3>1. report[t] = [status |-> report[t].status, files |-> report[t].files]
      BY <1>1, PayloadAssumption DEF PayloadShape
    <3>2. "status" \in DOMAIN report[t]
      BY <3>1
    <3> QED
      BY <3>2 DEF Payload!Torn
  <2>7. JobWork(t)'
    BY <1>1, <2>1, <2>2, <2>3, <2>4, <2>5, <2>6 DEF JobWork
  <2>8. edits = 0 => staged'[t] = Payload!With(report[t].files, Payload!Audit, report[t]) /\ report[t].status = status
    <3> SUFFICES ASSUME edits = 0
                 PROVE  staged'[t] = Payload!With(report[t].files, Payload!Audit, report[t]) /\ report[t].status = status
      OBVIOUS
    <3>1. /\ read[t] = report[t] /\ report[t].status = status
          /\ \A f \in DOMAIN seen[t] \ {Payload!Audit} : f \in DOMAIN staged[t] /\ staged[t][f] = report[t].files[f]
      BY <1>1, <2>1 DEF PosixWork
    <3> DEFINE to == Payload!With(report[t].files, Payload!Audit, report[t])
    <3>2. /\ IsMap(to) /\ DOMAIN to = DOMAIN report[t].files \cup {Payload!Audit}
          /\ \A g \in DOMAIN report[t].files \ {Payload!Audit} : to[g] = report[t].files[g]
          /\ to[Payload!Audit] = report[t]
      BY DEF Payload!With, IsMap
    <3> HIDE DEF to
    <3>3. DOMAIN staged'[t] = DOMAIN to
      BY <2>2, <2>4, <3>1, <3>2
    <3>4. \A g \in DOMAIN to : staged'[t][g] = to[g]
      BY <2>2, <2>4, <3>1, <3>2
    <3>5. staged'[t] = to
      BY <2>2, <3>2, <3>3, <3>4 DEF IsMap
    <3> QED
      BY <3>1, <3>5 DEF to
  <2>9. PosixWork(t)'
    BY <1>1, <2>1, <2>8 DEF PosixWork
  <2> QED
    BY <2>7, <2>9
<1>8. CASE Payload!WriteInventory(t)
  <2>1. /\ UNCHANGED <<status, edits, report, staged, read, seen>>
        /\ \/ pc[t] = "inventory" /\ pc'[t] = "write"
           \/ pc[t] = "write" /\ pc'[t] = "failed"
           \/ /\ pc[t] = "write" /\ pc'[t] = "done"
              /\ inventory'[t] = [files |-> DOMAIN seen[t] \cup {Payload!Audit}]
    BY <1>1, <1>8 DEF Payload!WriteInventory, PayloadShape
  <2> QED
    BY <1>1, <2>1 DEF JobWork, PosixWork
<1> QED
  BY <1>1, <1>3, <1>4, <1>5, <1>6, <1>7, <1>8 DEF Payload!CreateInventory

\* The Windows job.
LEMMA WindowsStep ==
  ASSUME NEW S \in SUBSET (Runs \cup SingleRuns), PayloadSafe(S), Payload!CreateInventory(Archived)
  PROVE  JobWork(Archived)' /\ ArchivedJobWork'
<1> DEFINE a == Archived
<1>1. /\ PayloadShape(S) /\ JobWork(a) /\ ArchivedJobWork
      /\ a \in Payload!Jobs /\ a \notin Payload!Posix /\ a \in Processes(S)
  BY TargetsAre DEF PayloadSafe, Processes
<1> USE DEF Payload!inputs, Payload!products, Payload!Goto
<1> HIDE DEF a
<1> a = Archived
  BY DEF a
<1>2. Payload!Audit # Payload!Sums /\ Payload!Audit # "absent" /\ Payload!Audit \notin Selected
  BY PayloadAssumption DEF Payload!Audit, Payload!Sums
<1>3. CASE Payload!BindPolicies
  <2>1. /\ \/ pc'[a] = "hash"
           \/ pc'[a] = "failed"
        /\ read'[a] = [status |-> status] /\ seen'[a] = <<>>
        /\ UNCHANGED <<status, edits, staged, inventory>>
    BY <1>1, <1>3 DEF Payload!BindPolicies, PayloadShape
  <2>2. JobWork(a)'
    BY <1>1, <2>1, EmptyIsMap DEF JobWork
  <2>3. ArchivedJobWork'
    BY <1>1, <2>1, EmptyIsMap DEF ArchivedJobWork, Payload!RequiredFiles
  <2> QED
    BY <2>2, <2>3
<1>4. CASE Payload!HashRequired
  <2> DEFINE names == Payload!RequiredFiles
             f == Payload!NextFile(a, names)
  <2>1. /\ pc[a] = "hash"
        /\ pc'[a] = IF f \in DOMAIN staged[a]
                    THEN IF Payload!LastFile(a, names) THEN "audit" ELSE "hash" ELSE "failed"
        /\ f \in DOMAIN staged[a] => seen'[a] = Payload!With(seen[a], f, staged[a][f])
        /\ f \notin DOMAIN staged[a] => seen'[a] = seen[a]
        /\ UNCHANGED <<status, edits, staged, inventory, read>>
    BY <1>1, <1>4, Zenon DEF Payload!HashRequired, Payload!See, PayloadShape
  <2>2. ~(names \subseteq DOMAIN seen[a]) /\ IsFiniteSet(names)
    BY <1>1, <2>1, PayloadAssumption, FS_AddElement DEF ArchivedJobWork, Payload!RequiredFiles
  <2>3. /\ f \in names /\ f \notin DOMAIN seen[a]
        /\ Payload!LastFile(a, names) <=> names \subseteq DOMAIN seen[a] \cup {f}
    BY <2>2, NextFileIsNext
  <2> HIDE DEF f, names
  <2>4. f \in DOMAIN staged[a] => /\ IsMap(seen'[a]) /\ DOMAIN seen'[a] = DOMAIN seen[a] \cup {f}
    BY <2>1 DEF Payload!With, IsMap
  <2>5. JobWork(a)'
    BY <1>1, <2>1, <2>4 DEF JobWork
  <2>6. ArchivedJobWork'
    BY <1>1, <2>1, <2>2, <2>3, <2>4 DEF ArchivedJobWork, names
  <2> QED
    BY <2>5, <2>6
<1>5. CASE Payload!OpenAudit(a)
  <2>1. /\ pc[a] = "audit" /\ pc'[a] = "fill"
        /\ staged'[a] = Payload!With(staged[a], Payload!Audit, Payload!Torn)
        /\ UNCHANGED <<status, edits, inventory, read, seen>>
    BY <1>1, <1>5, Zenon DEF Payload!OpenAudit, PayloadShape
  <2>2. /\ IsMap(staged'[a]) /\ DOMAIN staged'[a] = DOMAIN staged[a] \cup {Payload!Audit}
        /\ \A g \in DOMAIN staged[a] \ {Payload!Audit} : staged'[a][g] = staged[a][g]
    BY <2>1 DEF Payload!With, IsMap
  <2>3. IsFiniteSet(DOMAIN staged'[a]) /\ "absent" \notin DOMAIN staged'[a]
    BY <1>1, <1>2, <2>2, FS_AddElement DEF JobWork
  <2>4. JobWork(a)'
    BY <1>1, <2>1, <2>2, <2>3 DEF JobWork
  <2>5. ArchivedJobWork'
    BY <1>1, <1>2, <2>1, <2>2 DEF ArchivedJobWork
  <2> QED
    BY <2>4, <2>5
<1>6. CASE Payload!WriteAudit
  <2> DEFINE audit == [status |-> read[a].status, files |-> seen[a]]
  <2>1. /\ pc[a] = "fill" /\ pc'[a] = "close"
        /\ staged'[a] = Payload!With(staged[a], Payload!Audit, audit)
        /\ UNCHANGED <<status, edits, inventory, read, seen>>
    BY <1>1, <1>6, Zenon DEF Payload!WriteAudit, PayloadShape
  <2>2. AuditForm(audit) /\ audit.status = read[a].status
    BY <1>1 DEF AuditForm, JobWork
  <2> HIDE DEF audit
  <2>3. /\ IsMap(staged'[a]) /\ DOMAIN staged'[a] = DOMAIN staged[a] \cup {Payload!Audit}
        /\ \A g \in DOMAIN staged[a] \ {Payload!Audit} : staged'[a][g] = staged[a][g]
        /\ staged'[a][Payload!Audit] = audit
    BY <2>1 DEF Payload!With, IsMap
  <2>4. IsFiniteSet(DOMAIN staged'[a]) /\ "absent" \notin DOMAIN staged'[a]
    BY <1>1, <1>2, <2>3, FS_AddElement DEF JobWork
  <2>5. JobWork(a)'
    BY <1>1, <2>1, <2>3, <2>4 DEF JobWork
  <2>6. ArchivedJobWork'
    BY <1>1, <1>2, <2>1, <2>2, <2>3 DEF ArchivedJobWork
  <2> QED
    BY <2>5, <2>6
<1>7. CASE Payload!CloseWindows
  <2>1. /\ pc[a] = "close"
        /\ pc'[a] = IF DOMAIN staged[a] = DOMAIN seen[a] \cup {Payload!Audit} THEN "inventory" ELSE "failed"
        /\ UNCHANGED <<status, edits, staged, inventory, read, seen>>
    BY <1>1, <1>7, Zenon DEF Payload!CloseWindows, PayloadShape
  <2>2. AuditForm(staged[a][Payload!Audit]) /\ Selected \cup {Payload!Sums} \subseteq DOMAIN seen[a]
    BY <1>1, <2>1 DEF ArchivedJobWork, Payload!RequiredFiles
  <2>3. staged[a][Payload!Audit] # Payload!Torn
    <3>1. "status" \in DOMAIN staged[a][Payload!Audit]
      BY <2>2 DEF AuditForm
    <3> QED
      BY <3>1 DEF Payload!Torn
  <2>4. JobWork(a)'
    BY <1>1, <2>1, <2>2, <2>3 DEF JobWork
  <2>5. ArchivedJobWork'
    BY <1>1, <2>1, <2>2 DEF ArchivedJobWork
  <2> QED
    BY <2>4, <2>5
<1>8. CASE Payload!WriteInventory(a)
  <2>1. /\ UNCHANGED <<status, edits, staged, read, seen>>
        /\ \/ pc[a] = "inventory" /\ pc'[a] = "write"
           \/ pc[a] = "write" /\ pc'[a] = "failed"
           \/ /\ pc[a] = "write" /\ pc'[a] = "done"
              /\ inventory'[a] = [files |-> DOMAIN seen[a] \cup {Payload!Audit}]
    BY <1>1, <1>8 DEF Payload!WriteInventory, PayloadShape
  <2>2. JobWork(a)'
    BY <1>1, <2>1 DEF JobWork
  <2>3. ArchivedJobWork'
    BY <1>1, <2>1 DEF ArchivedJobWork
  <2> QED
    BY <2>2, <2>3
<1> QED
  BY <1>1, <1>3, <1>4, <1>5, <1>6, <1>7, <1>8 DEF Payload!CreateInventory

\* The step of a job.
LEMMA JobStepSafe ==
  ASSUME NEW S \in SUBSET (Runs \cup SingleRuns), PayloadSafe(S), NEW t \in Payload!Jobs,
         Payload!CreateInventory(t)
  PROVE  PayloadSafe(S)'
<1>1. JobFrame(S, t)
  BY JobFrames DEF PayloadSafe
<1>2. PayloadShape(S)'
  BY <1>1 DEF JobFrame
<1>3. /\ \A u \in Payload!Jobs \ {t} : JobWork(u)'
      /\ \A u \in Payload!Posix \ {t} : PosixWork(u)'
      /\ t # Archived => ArchivedJobWork'
      /\ ArchiveWork' /\ ExtractionWork' /\ OutputWork(S)'
      /\ \A r \in S : PackageWork(r)'
  BY <1>1, JobOthers
<1>4. CASE t = Archived
  BY <1>2, <1>3, <1>4, WindowsStep, TargetsAre DEF PayloadSafe
<1>5. CASE t # Archived
  BY <1>2, <1>3, <1>5, PosixStep, TargetsAre DEF PayloadSafe
<1> QED
  BY <1>4, <1>5

\* The archive is made once the job is done.
LEMMA CompressSafe ==
  ASSUME NEW S \in SUBSET (Runs \cup SingleRuns), PayloadSafe(S), Payload!Compress
  PROVE  PayloadSafe(S)'
<1> USE TargetsAre DEF PayloadSafe
<1>1. /\ pc[Archived] = "done" /\ archive' = staged[Archived]
      /\ UNCHANGED <<status, report, edits, staged, inventory, unpacked, temporary, output, pc, read, seen>>
  BY DEF Payload!Compress, Payload!inputs
<1>2. Candidate(staged[Archived])
  BY <1>1 DEF JobWork, ArchivedJobWork, Candidate
<1>3. PayloadShape(S)'
  BY <1>1 DEF PayloadShape
<1>4. ArchiveWork'
  BY <1>1, <1>2 DEF ArchiveWork, Candidate
<1>5. /\ \A t \in Payload!Jobs : JobWork(t)'
      /\ \A t \in Payload!Posix : PosixWork(t)'
  BY <1>1 DEF JobWork, PosixWork
<1>6. ArchivedJobWork' /\ ExtractionWork'
  BY <1>1 DEF ArchivedJobWork, ExtractionWork, Listed
<1>7. \A t, payload : Good(t, payload)' <=> Good(t, payload)
  BY <1>1 DEF Good, Same, Reviewed, Payload!StagingOf
<1>8. \A r \in S : PackageWork(r)'
  BY <1>1, <1>7 DEF PackageWork, Same, Reviewed, Payload!StagingOf, Payload!Current
<1>9. OutputWork(S)'
  BY <1>1, <1>7 DEF OutputWork
<1> QED
  BY <1>3, <1>4, <1>5, <1>6, <1>8, <1>9

\* While the candidate is extracted nothing is packaged.
LEMMA ExtractOthers ==
  ASSUME NEW S \in SUBSET (Runs \cup SingleRuns), PayloadSafe(S), Payload!Extract
  PROVE  /\ PayloadShape(S)'
         /\ \A t \in Payload!Jobs : JobWork(t)'
         /\ \A t \in Payload!Posix : PosixWork(t)'
         /\ ArchivedJobWork' /\ ArchiveWork' /\ OutputWork(S)'
         /\ \A r \in S : PackageWork(r)'
         /\ UNCHANGED <<edits, archive>>
         /\ pc'[Archived] = pc[Archived] /\ staged'[Archived] = staged[Archived]
<1> USE TargetsAre DEF PayloadSafe, Processes
<1>1. /\ PayloadShape(S)' /\ pc["extraction"] # "done"
      /\ UNCHANGED <<status, report, edits, staged, inventory, archive, temporary, output>>
      /\ \A p \in Processes(S) \ {"extraction"} : pc'[p] = pc[p] /\ read'[p] = read[p] /\ seen'[p] = seen[p]
  <2> USE DEF Payload!inputs, Payload!products, Payload!Goto, Payload!Extraction, PayloadShape
  <2>1. CASE Payload!OpenCandidate
    BY <2>1 DEF Payload!OpenCandidate
  <2>2. CASE Payload!Unpack
    BY <2>2 DEF Payload!Unpack, Payload!See
  <2>3. CASE Payload!VerifySums
    BY <2>3 DEF Payload!VerifySums
  <2>4. CASE Payload!VerifyAudit
    BY <2>4 DEF Payload!VerifyAudit
  <2> QED
    BY <2>1, <2>2, <2>3, <2>4 DEF Payload!Extract
<1>2. \A t \in Payload!Jobs : t \in Processes(S) \ {"extraction"}
  OBVIOUS
<1>3. \A t \in Payload!Jobs : JobWork(t)'
  BY <1>1, <1>2 DEF JobWork
<1>4. \A t \in Payload!Posix : PosixWork(t)'
  BY SMTT(60), <1>1, <1>2 DEF PosixWork
<1>5. ArchivedJobWork' /\ ArchiveWork'
  BY <1>1, <1>2 DEF ArchivedJobWork, ArchiveWork, Candidate
<1>6. \A r \in S : /\ r \in Processes(S) \ {"extraction"}
                   /\ pc[r] \notin {"load", "validate", "close", "copy", "manifest", "mkdir", "publish", "done"}
  BY <1>1 DEF PackageWork
<1>7. \A r \in S : PackageWork(r)'
  BY <1>1, <1>6 DEF PackageWork
<1>8. OutputWork(S)'
  BY <1>1, <1>6 DEF OutputWork
<1> QED
  BY <1>1, <1>2, <1>3, <1>4, <1>5, <1>7, <1>8

\* A record of digests that describes files is the files.
LEMMA DescribedIsListed ==
  ASSUME NEW digests, NEW names, IsMap(digests), Payload!Describes(digests, names)
  PROVE  digests = Listed(names)
BY DEF Payload!Describes, Listed, IsMap

\* The extraction.
LEMMA ExtractStep ==
  ASSUME NEW S \in SUBSET (Runs \cup SingleRuns), PayloadSafe(S), Payload!Extract
  PROVE  ExtractionWork'
<1> DEFINE x == "extraction"
<1>1. /\ PayloadShape(S) /\ x \in Processes(S) /\ ExtractionWork /\ ArchiveWork
      /\ UNCHANGED edits
      /\ pc'[Archived] = pc[Archived] /\ staged'[Archived] = staged[Archived]
  BY ExtractOthers DEF PayloadSafe, Processes
<1> USE DEF Payload!inputs, Payload!products, Payload!Goto, Payload!Extraction
<1> HIDE DEF x
<1> x = "extraction"
  BY DEF x
<1>2. CASE Payload!OpenCandidate
  <2>1. /\ pc'[x] = IF unpacked = Payload!Absent /\ DOMAIN archive = inventory[Archived].files
                    THEN "unpack" ELSE "failed"
        /\ archive # Payload!Absent /\ read'[x] = archive /\ seen' = seen
        /\ unpacked' = IF unpacked = Payload!Absent /\ DOMAIN archive = inventory[Archived].files
                       THEN <<>> ELSE unpacked
    BY <1>1, <1>2, Zenon DEF Payload!OpenCandidate, PayloadShape
  <2>2. Candidate(archive) /\ pc[Archived] = "done" /\ (edits = 0 => archive = staged[Archived])
    BY <1>1, <2>1 DEF ArchiveWork
  <2>3. CASE unpacked = Payload!Absent /\ DOMAIN archive = inventory[Archived].files
    <3>1. seen[x] = <<>> /\ unpacked' = <<>> /\ pc'[x] = "unpack"
      BY <1>1, <2>1, <2>3 DEF ExtractionWork
    <3>2. DOMAIN archive # {} /\ <<>> # Payload!Absent
      BY <2>2, EmptyIsMap DEF Candidate, Payload!Absent
    <3> QED
      BY <1>1, <2>1, <2>2, <3>1, <3>2, EmptyIsMap DEF ExtractionWork, Candidate
  <2>4. CASE ~(unpacked = Payload!Absent /\ DOMAIN archive = inventory[Archived].files)
    BY <1>1, <2>1, <2>4 DEF ExtractionWork
  <2> QED
    BY <2>3, <2>4
<1>3. CASE Payload!Unpack
  <2> DEFINE names == DOMAIN read[x]
             f == Payload!NextFile(x, names)
  <2>1. PICK ok \in BOOLEAN :
          /\ pc[x] = "unpack"
          /\ pc'[x] = IF ok THEN IF Payload!LastFile(x, names) THEN "sums" ELSE "unpack" ELSE "failed"
          /\ unpacked' = Payload!With(unpacked, f, IF ok THEN read[x][f] ELSE Payload!Torn)
          /\ seen'[x] = Payload!With(seen[x], f, Payload!Torn)
          /\ read' = read
    BY <1>1, <1>3, Zenon DEF Payload!Unpack, Payload!See, PayloadShape
  <2>2. /\ Candidate(read[x]) /\ IsMap(unpacked) /\ DOMAIN unpacked = DOMAIN seen[x]
        /\ DOMAIN unpacked \subseteq names /\ ~(names \subseteq DOMAIN seen[x])
        /\ \A g \in DOMAIN unpacked : unpacked[g] = read[x][g]
    BY <1>1, <2>1 DEF ExtractionWork
  <2>3. /\ f \in names /\ f \notin DOMAIN seen[x]
        /\ Payload!LastFile(x, names) <=> names \subseteq DOMAIN seen[x] \cup {f}
    BY <2>2, NextFileIsNext DEF Candidate
  <2> HIDE DEF f
  <2>4. /\ IsMap(unpacked') /\ DOMAIN unpacked' = DOMAIN unpacked \cup {f}
        /\ DOMAIN seen'[x] = DOMAIN seen[x] \cup {f}
        /\ \A g \in DOMAIN unpacked : unpacked'[g] = unpacked[g]
        /\ ok => unpacked'[f] = read[x][f]
    BY <2>1, <2>2, <2>3 DEF Payload!With, IsMap
  <2>5. unpacked' # Payload!Absent
    <3>1. f # "absent" /\ f \in DOMAIN unpacked'
      BY <2>2, <2>3, <2>4 DEF Candidate
    <3> QED
      BY <3>1 DEF Payload!Absent
  <2>6. CASE ~ok
    BY <1>1, <2>1, <2>5, <2>6 DEF ExtractionWork
  <2>7. CASE ok /\ ~(names \subseteq DOMAIN seen[x] \cup {f})
    BY <1>1, <2>1, <2>2, <2>3, <2>4, <2>5, <2>7 DEF ExtractionWork
  <2>8. CASE ok /\ names \subseteq DOMAIN seen[x] \cup {f}
    <3>1. DOMAIN unpacked' = names /\ \A g \in names : unpacked'[g] = read[x][g]
      BY <2>2, <2>3, <2>4, <2>8
    <3>2. unpacked' = read[x]
      BY <2>2, <2>4, <3>1 DEF Candidate, IsMap
    <3>3. pc'[x] = "sums"
      BY <2>1, <2>3, <2>8
    <3> QED
      BY <1>1, <2>1, <2>2, <2>5, <3>2, <3>3 DEF ExtractionWork
  <2> QED
    BY <2>6, <2>7, <2>8
<1>4. CASE Payload!VerifySums
  <2> DEFINE sums == unpacked[Payload!Sums].sums
             names == DOMAIN unpacked \ {Payload!Sums, Payload!Audit}
  <2>1. /\ pc[x] = "sums"
        /\ pc'[x] = IF Payload!Describes(sums, names) THEN "verify" ELSE "failed"
        /\ UNCHANGED <<unpacked, read, seen>>
    BY <1>1, <1>4, Zenon DEF Payload!VerifySums, PayloadShape
  <2>2. IsMap(sums)
    BY <1>1, <2>1 DEF ExtractionWork, Candidate
  <2>3. Payload!Describes(sums, names) => sums = Listed(names)
    BY <2>2, DescribedIsListed
  <2> QED
    BY <1>1, <2>1, <2>3 DEF ExtractionWork, Listed
<1>5. CASE Payload!VerifyAudit
  <2> DEFINE files == unpacked[Payload!Audit].files
             names == DOMAIN unpacked \ {Payload!Audit}
  <2>1. /\ pc[x] = "verify"
        /\ pc'[x] \in {"done", "failed"}
        /\ pc'[x] = "done" => Payload!Describes(files, names)
        /\ UNCHANGED <<unpacked, read, seen>>
    BY <1>1, <1>5 DEF Payload!VerifyAudit, PayloadShape
  <2>2. IsMap(files)
    BY <1>1, <2>1 DEF ExtractionWork, Candidate, AuditForm
  <2>3. Payload!Describes(files, names) => files = Listed(names)
    BY <2>2, DescribedIsListed
  <2> QED
    BY <1>1, <2>1, <2>3 DEF ExtractionWork, Listed
<1> QED
  BY <1>2, <1>3, <1>4, <1>5 DEF Payload!Extract

\* What is known of the first n targets, and of the one after them.
LEMMA FirstTargets ==
  ASSUME NEW n \in 0 .. Len(Platforms) - 1
  PROVE  /\ Payload!Cardinality(First(n)) = n
         /\ Platforms[n + 1] \in Payload!Jobs
         /\ First(n) \cup {Platforms[n + 1]} = First(n + 1)
         /\ Platforms[n + 1] = Platforms[Len(Platforms)] <=> n + 1 = Len(Platforms)
         /\ First(Len(Platforms)) = Payload!Jobs
<1>1. /\ DOMAIN Platforms = 1 .. Len(Platforms) /\ Len(Platforms) \in Nat \ {0}
      /\ \A i, j \in 1 .. Len(Platforms) : Platforms[i] = Platforms[j] => i = j
  BY PayloadAssumption
<1>2. Payload!Cardinality(First(n)) = n
  <2> DEFINE order == [i \in 1 .. n |-> Platforms[i]]
  <2>1. order \in Bijection(1 .. n, First(n))
    <3>1. order \in [1 .. n -> First(n)]
      BY DEF First
    <3>2. \A i, j \in 1 .. n : order[i] = order[j] => i = j
      BY <1>1
    <3>3. ASSUME NEW t \in First(n)
          PROVE  \E i \in 1 .. n : order[i] = t
      <4>1. PICK i \in 1 .. n : t = Platforms[i]
        BY DEF First
      <4>2. order[i] = t
        BY <4>1
      <4> WITNESS i \in 1 .. n
      <4> QED
        BY <4>2
    <3> HIDE DEF order
    <3>4. IsInjective(order)
      BY <3>1, <3>2 DEF IsInjective
    <3> QED
      BY <3>1, <3>3, <3>4, Zenon DEF Bijection, Injection, Surjection
  <2>2. IsFiniteSet(1 .. n) /\ Cardinality(1 .. n) = n
    BY FS_Interval
  <2>3. Cardinality(First(n)) = n
    BY <2>1, <2>2, FS_Bijection DEF ExistsBijection
  <2>4. Payload!Cardinality(First(n)) = Cardinality(First(n))
    BY Zenon DEF Payload!Cardinality, Cardinality
  <2> QED
    BY <2>3, <2>4
<1>3. First(n) \cup {Platforms[n + 1]} = First(n + 1)
  BY DEF First
<1>4. First(Len(Platforms)) = Payload!Jobs
  BY TargetsAre DEF First
<1>5. Platforms[n + 1] \in Payload!Jobs
  BY TargetsAre
<1>6. Platforms[n + 1] = Platforms[Len(Platforms)] <=> n + 1 = Len(Platforms)
  <2> DEFINE last == Len(Platforms)
  <2>1. last \in 1 .. last /\ n + 1 \in 1 .. last
    BY <1>1
  <2> HIDE DEF last
  <2>2. Platforms[n + 1] = Platforms[last] => n + 1 = last
    BY <1>1, <2>1, Zenon DEF last
  <2>3. n + 1 = last => Platforms[n + 1] = Platforms[last]
    BY Zenon
  <2> QED
    BY <2>2, <2>3 DEF last
<1> QED
  BY <1>2, <1>3, <1>4, <1>5, <1>6

\* Where everything is done, a target's staging directory is a finite set of files,
\* the audit and what was selected among them.
LEMMA StagingIs ==
  ASSUME NEW S, PayloadSafe(S), NEW t \in Payload!Jobs,
         \A p \in Payload!Jobs \cup {"extraction"} : pc[p] = "done"
  PROVE  /\ IsFiniteSet(DOMAIN Payload!StagingOf(t))
         /\ {Payload!Audit} \cup Selected \subseteq DOMAIN Payload!StagingOf(t)
         /\ IsFiniteSet(inventory[t].files) /\ Payload!Audit \in inventory[t].files
<1>1. JobWork(t) /\ ExtractionWork
  BY DEF PayloadSafe
<1>2. CASE t = Archived
  BY <1>1, <1>2 DEF JobWork, ExtractionWork, Candidate, Payload!StagingOf
<1>3. CASE t # Archived
  BY <1>1, <1>3 DEF JobWork, Payload!StagingOf
<1> QED
  BY <1>2, <1>3

\* A run of the packager reads what the jobs have made; the output apart, what it
\* changes is its own.
LEMMA PackageOthers ==
  ASSUME NEW S \in SUBSET (Runs \cup SingleRuns), PayloadSafe(S), NEW r \in S,
         Payload!PackageMatrix(r)
  PROVE  /\ PayloadShape(S)'
         /\ UNCHANGED <<status, report, edits, staged, inventory, archive, unpacked>>
         /\ \A p \in Processes(S) \ {r} : pc'[p] = pc[p] /\ read'[p] = read[p] /\ seen'[p] = seen[p]
         /\ \A t \in Payload!Jobs : JobWork(t)'
         /\ \A t \in Payload!Posix : PosixWork(t)'
         /\ ArchivedJobWork' /\ ArchiveWork' /\ ExtractionWork'
         /\ \A t, payload : Good(t, payload)' <=> Good(t, payload)
         /\ \A q \in S \ {r} : PackageWork(q)'
<1>1. r \in Processes(S) /\ r \notin Payload!Jobs \cup {"extraction"} /\ PayloadShape(S)
  BY TargetsAre DEF Processes, PayloadSafe
<1>2. /\ PayloadShape(S)'
      /\ UNCHANGED <<status, report, edits, staged, inventory, archive, unpacked>>
      /\ \A p \in Processes(S) \ {r} : pc'[p] = pc[p] /\ read'[p] = read[p] /\ seen'[p] = seen[p]
      /\ \A q \in S \ {r} : temporary'[q] = temporary[q]
  <2> USE <1>1 DEF Payload!inputs, Payload!Goto, Payload!Within, PayloadShape
  <2>1. CASE Payload!StartMatrix(r)
    BY <2>1 DEF Payload!StartMatrix
  <2>2. CASE Payload!LoadTarget(r)
    BY <2>2 DEF Payload!LoadTarget
  <2>3. CASE Payload!Validate(r)
    BY <2>3 DEF Payload!Validate, Payload!See
  <2>4. CASE Payload!CloseTarget(r)
    BY <2>4 DEF Payload!CloseTarget
  <2>5. CASE Payload!CopyFile(r)
    BY <2>5 DEF Payload!CopyFile, Payload!See
  <2>6. CASE Payload!WriteManifest(r)
    BY <2>6 DEF Payload!WriteManifest
  <2>7. CASE Payload!MakeOutput(r)
    BY <2>7 DEF Payload!MakeOutput
  <2>8. CASE Payload!PublishTarget(r)
    BY <2>8 DEF Payload!PublishTarget
  <2> QED
    BY <2>1, <2>2, <2>3, <2>4, <2>5, <2>6, <2>7, <2>8 DEF Payload!PackageMatrix
<1>3. \A p \in Payload!Jobs \cup {"extraction"} : pc'[p] = pc[p] /\ read'[p] = read[p] /\ seen'[p] = seen[p]
  BY <1>1, <1>2 DEF Processes
<1>4. /\ \A t \in Payload!Jobs : JobWork(t)'
      /\ \A t \in Payload!Posix : PosixWork(t)'
  BY <1>2, <1>3, TargetsAre DEF PayloadSafe, JobWork, PosixWork
<1>5. ArchivedJobWork' /\ ArchiveWork'
  BY <1>2, <1>3, TargetsAre DEF PayloadSafe, ArchivedJobWork, ArchiveWork, Candidate
<1>6. ExtractionWork'
  BY <1>2, <1>3, TargetsAre DEF PayloadSafe, ExtractionWork, Listed
<1>7. \A t, payload : Good(t, payload)' <=> Good(t, payload)
  BY <1>2 DEF Good, Same, Reviewed, Payload!StagingOf
<1>8. \A q \in S \ {r} : PackageWork(q)'
  <2> TAKE q \in S \ {r}
  <2>1. /\ pc'[q] = pc[q] /\ read'[q] = read[q] /\ seen'[q] = seen[q] /\ temporary'[q] = temporary[q]
        /\ PackageWork(q)
    BY <1>2 DEF Processes, PayloadSafe
  <2>2. Payload!Current(q)' = Payload!Current(q)
    BY <2>1 DEF Payload!Current
  <2>3. \A t : Payload!StagingOf(t)' = Payload!StagingOf(t)
    BY <1>2 DEF Payload!StagingOf
  <2> QED
    BY <1>2, <1>3, <1>7, <2>1, <2>2, <2>3 DEF PackageWork, Same, Reviewed
<1> QED
  BY <1>2, <1>4, <1>5, <1>6, <1>7, <1>8

\* The step of a run of the packager, before it makes the output.
LEMMA PackageStep ==
  ASSUME NEW S \in SUBSET (Runs \cup SingleRuns), PayloadSafe(S), NEW r \in S,
         Payload!PackageMatrix(r), ~Payload!MakeOutput(r), ~Payload!PublishTarget(r)
  PROVE  PackageWork(r)' /\ output' = output /\ pc'[r] \notin {"publish", "done"}
<1>1. /\ PayloadShape(S) /\ PackageWork(r) /\ r \in Processes(S)
      /\ UNCHANGED <<status, report, edits, staged, inventory, archive, unpacked>>
      /\ \A p \in Processes(S) \ {r} : pc'[p] = pc[p]
      /\ \A u, payload : Good(u, payload)' <=> Good(u, payload)
  BY PackageOthers DEF PayloadSafe, Processes
<1>2. \A u : Payload!StagingOf(u)' = Payload!StagingOf(u)
  BY <1>1 DEF Payload!StagingOf
<1>3. /\ \A u, f, content : Same(u, f, content)' <=> Same(u, f, content)
      /\ Reviewed' <=> Reviewed
  BY <1>1, <1>2 DEF Same, Reviewed
<1>4. \A p \in Payload!Jobs \cup {"extraction"} : pc'[p] = pc[p]
  BY <1>1, TargetsAre DEF Processes
<1>5. temporary'[r] = temporary[r] => Payload!Current(r)' = Payload!Current(r)
  BY DEF Payload!Current
<1>0. PICK t : t = Payload!Current(r)
  OBVIOUS
<1>6. ASSUME pc[r] \in {"load", "validate", "close", "copy", "manifest"}
      PROVE  /\ t \in Payload!Jobs
             /\ \A p \in Payload!Jobs \cup {"extraction"} : pc[p] = "done"
             /\ IsFiniteSet(DOMAIN Payload!StagingOf(t)) /\ Payload!Audit \in DOMAIN Payload!StagingOf(t)
             /\ IsFiniteSet(inventory[t].files) /\ Payload!Audit \in inventory[t].files
  <2>1. \A p \in Payload!Jobs \cup {"extraction"} : pc[p] = "done"
    BY <1>1, <1>6 DEF PackageWork
  <2>2. PICK n \in 0 .. Len(Platforms) - 1 : DOMAIN temporary[r] = First(n)
    BY <1>1, <1>6 DEF PackageWork
  <2>3. t \in Payload!Jobs
    BY <1>0, <2>2, FirstTargets DEF Payload!Current
  <2> QED
    BY <2>1, <2>3, StagingIs
<1>7. ASSUME pc'[r] = "failed", output' = output, IsMap(seen'[r])
      PROVE  PackageWork(r)' /\ output' = output /\ pc'[r] \notin {"publish", "done"}
  BY <1>7 DEF PackageWork
<1> USE DEF Payload!Goto, Payload!Within, Payload!Keep
<1>8. CASE Payload!StartMatrix(r)
  <2>1. /\ \A p \in Payload!Jobs \cup {"extraction"} : pc[p] = "done"
        /\ pc'[r] = IF output = Payload!Absent THEN "load" ELSE "failed"
        /\ output = Payload!Absent => temporary'[r] = <<>>
        /\ UNCHANGED <<output, read, seen>>
    BY <1>1, <1>8, Zenon DEF Payload!StartMatrix, Payload!Extraction, PayloadShape
  <2>2. IsMap(seen'[r])
    BY <1>1, <2>1 DEF PackageWork
  <2>3. CASE output = Payload!Absent
    <3>1. DOMAIN temporary'[r] = First(0) /\ First(0) = {}
      BY <2>1, <2>3, EmptyIsMap DEF First
    <3>2. 0 \in 0 .. Len(Platforms) - 1
      BY TargetsAre
    <3>3. \E n \in 0 .. Len(Platforms) - 1 : DOMAIN temporary'[r] = First(n)
      BY <3>1, <3>2
    <3>4. First(0)' = First(0) /\ \A n : First(n)' = First(n)
      BY DEF First
    <3> QED
      BY <1>4, <2>1, <2>2, <2>3, <3>1, <3>3, <3>4 DEF PackageWork
  <2> QED
    BY <1>7, <2>1, <2>2, <2>3
<1>9. CASE Payload!LoadTarget(r)
  <2>1. /\ pc[r] = "load"
        /\ pc'[r] = IF status = "approved" THEN "validate" ELSE "failed"
        /\ status = "approved" => temporary'[r] = temporary[r]
        /\ read'[r] = inventory[t].files /\ seen'[r] = <<>> /\ output' = output
    BY <1>0, <1>1, <1>9, Zenon DEF Payload!LoadTarget, Payload!Approved, PayloadShape
  <2>2. IsMap(seen'[r])
    BY <2>1, EmptyIsMap
  <2>3. CASE status = "approved"
    <3>1. Payload!Current(r)' = t /\ pc'[r] = "validate" /\ temporary'[r] = temporary[r]
      BY <1>0, <1>5, <2>1, <2>3
    <3>2. DOMAIN seen'[r] = {} /\ ~(read'[r] \subseteq {})
      BY <1>6, <2>1, EmptyIsMap
    <3>3. Reviewed' /\ read'[r] = inventory'[t].files
      BY <1>1, <1>3, <2>1, <2>3 DEF Reviewed
    <3> QED
      BY <1>1, <1>2, <1>3, <1>4, <2>1, <2>2, <3>1, <3>2, <3>3 DEF PackageWork, First
  <2> QED
    BY <1>7, <2>1, <2>2, <2>3
<1>10. CASE Payload!Validate(r)
  <2> DEFINE f == Payload!NextFile(r, read[r])
             ok == f \in DOMAIN Payload!StagingOf(t)
  <2>1. /\ pc[r] = "validate"
        /\ pc'[r] = IF ok THEN IF Payload!LastFile(r, read[r]) THEN "close" ELSE "validate" ELSE "failed"
        /\ ok => temporary'[r] = temporary[r]
        /\ ok => seen'[r] = Payload!With(seen[r], f, Payload!StagingOf(t)[f])
        /\ ~ok => seen'[r] = seen[r]
        /\ read' = read /\ output' = output
    BY <1>0, <1>1, <1>10, Zenon DEF Payload!Validate, Payload!See, PayloadShape
  <2>2. /\ read[r] = inventory[t].files /\ ~(read[r] \subseteq DOMAIN seen[r])
        /\ IsFiniteSet(read[r]) /\ IsMap(seen[r])
        /\ \A g \in DOMAIN seen[r] : g \in DOMAIN Payload!StagingOf(t) /\ Same(t, g, seen[r][g])
    BY <1>0, <1>1, <1>6, <2>1 DEF PackageWork
  <2>3. /\ f \in read[r] /\ f \notin DOMAIN seen[r]
        /\ Payload!LastFile(r, read[r]) <=> read[r] \subseteq DOMAIN seen[r] \cup {f}
    BY <2>2, NextFileIsNext
  <2> HIDE DEF f
  <2>4. CASE ok
    <3>1. Payload!Current(r)' = t /\ temporary'[r] = temporary[r]
      BY <1>0, <1>5, <2>1, <2>4
    <3>2. /\ IsMap(seen'[r]) /\ DOMAIN seen'[r] = DOMAIN seen[r] \cup {f}
          /\ \A g \in DOMAIN seen[r] : seen'[r][g] = seen[r][g]
          /\ seen'[r][f] = Payload!StagingOf(t)[f]
      BY <2>1, <2>2, <2>3, <2>4 DEF Payload!With, IsMap
    <3>3. \A g \in DOMAIN seen'[r] : g \in DOMAIN Payload!StagingOf(t) /\ Same(t, g, seen'[r][g])
      BY <2>2, <2>4, <3>2 DEF Same
    <3>4. \A g \in DOMAIN seen'[r] : g \in DOMAIN Payload!StagingOf(t)' /\ Same(t, g, seen[r][g])'
      BY <1>2, <1>3, <3>3
    <3> QED
      BY ZenonT(60), <1>0, <1>1, <1>3, <1>4, <2>1, <2>2, <2>3, <2>4, <3>1, <3>2, <3>4 DEF PackageWork, First
  <2> QED
    BY <1>7, <2>1, <2>2, <2>4
<1>11. CASE Payload!CloseTarget(r)
  <2> DEFINE ok == DOMAIN Payload!StagingOf(t) = read[r]
  <2>1. /\ pc[r] = "close"
        /\ pc'[r] = IF ok THEN "copy" ELSE "failed"
        /\ ok => temporary'[r] = temporary[r]
        /\ read'[r].digests = seen[r] /\ seen'[r] = <<>> /\ output' = output
    BY <1>0, <1>1, <1>11 DEF Payload!CloseTarget, PayloadShape
  <2>2. IsMap(seen'[r])
    BY <2>1, EmptyIsMap
  <2>3. CASE ok
    <3>1. Payload!Current(r)' = t /\ temporary'[r] = temporary[r] /\ pc'[r] = "copy"
      BY <1>0, <1>5, <2>1, <2>3
    <3>2. /\ IsMap(seen[r]) /\ Reviewed /\ DOMAIN seen[r] = read[r]
          /\ \A g \in DOMAIN seen[r] : g \in DOMAIN Payload!StagingOf(t) /\ Same(t, g, seen[r][g])
      BY <1>0, <1>1, <2>1 DEF PackageWork
    <3>3. /\ IsMap(read'[r].digests) /\ DOMAIN read'[r].digests = DOMAIN Payload!StagingOf(t)' /\ Reviewed'
          /\ \A g \in DOMAIN read'[r].digests : Same(t, g, read[r].digests[g])'
      BY <1>2, <1>3, <2>1, <2>3, <3>2
    <3>4. DOMAIN seen'[r] = {} /\ ~(DOMAIN read'[r].digests \subseteq {})
      BY <1>6, <2>1, <2>3, <3>2, EmptyIsMap
    <3> QED
      BY <1>1, <1>4, <2>1, <2>2, <3>1, <3>3, <3>4 DEF PackageWork, First
  <2> QED
    BY <1>7, <2>1, <2>2, <2>3
<1>12. CASE Payload!CopyFile(r)
  <2> DEFINE names == DOMAIN read[r].digests
             f == Payload!NextFile(r, names)
             ok == f \in DOMAIN Payload!StagingOf(t)
  <2>1. /\ pc[r] = "copy"
        /\ pc'[r] = IF ok THEN IF Payload!LastFile(r, names) THEN "manifest" ELSE "copy" ELSE "failed"
        /\ ok => temporary'[r] = temporary[r]
        /\ ok => seen'[r] = Payload!With(seen[r], f, Payload!StagingOf(t)[f])
        /\ ~ok => seen'[r] = seen[r]
        /\ read' = read /\ output' = output
    BY <1>0, <1>1, <1>12, Zenon DEF Payload!CopyFile, Payload!See, PayloadShape
  <2>2. /\ names = DOMAIN Payload!StagingOf(t) /\ ~(names \subseteq DOMAIN seen[r])
        /\ DOMAIN seen[r] \subseteq names /\ IsFiniteSet(names) /\ IsMap(seen[r])
        /\ IsMap(read[r].digests) /\ Reviewed
        /\ \A g \in names : Same(t, g, read[r].digests[g])
        /\ \A g \in DOMAIN seen[r] : g \in DOMAIN Payload!StagingOf(t) /\ Same(t, g, seen[r][g])
    BY <1>0, <1>1, <1>6, <2>1 DEF PackageWork
  <2>3. /\ f \in names /\ f \notin DOMAIN seen[r]
        /\ Payload!LastFile(r, names) <=> names \subseteq DOMAIN seen[r] \cup {f}
    BY <2>2, NextFileIsNext
  <2> HIDE DEF f
  <2>4. CASE ok
    <3>1. Payload!Current(r)' = t /\ temporary'[r] = temporary[r]
      BY <1>0, <1>5, <2>1, <2>4
    <3>2. /\ IsMap(seen'[r]) /\ DOMAIN seen'[r] = DOMAIN seen[r] \cup {f}
          /\ \A g \in DOMAIN seen[r] : seen'[r][g] = seen[r][g]
          /\ seen'[r][f] = Payload!StagingOf(t)[f]
      BY <2>1, <2>2, <2>3, <2>4 DEF Payload!With, IsMap
    <3>3. \A g \in DOMAIN seen'[r] : g \in DOMAIN Payload!StagingOf(t) /\ Same(t, g, seen'[r][g])
      BY <2>2, <2>4, <3>2 DEF Same
    <3>4. \A g \in DOMAIN seen'[r] : g \in DOMAIN Payload!StagingOf(t)' /\ Same(t, g, seen[r][g])'
      BY <1>2, <1>3, <3>3
    <3>5. /\ read'[r] = read[r] /\ IsMap(read'[r].digests) /\ Reviewed'
          /\ DOMAIN read'[r].digests = DOMAIN Payload!StagingOf(t)'
          /\ \A g \in DOMAIN read'[r].digests : Same(t, g, read[r].digests[g])'
      BY <1>2, <1>3, <2>1, <2>2
    <3> QED
      BY ZenonT(60), <1>0, <1>1, <1>4, <2>1, <2>2, <2>3, <2>4, <3>1, <3>2, <3>4, <3>5 DEF PackageWork, First
  <2> QED
    BY <1>7, <2>1, <2>2, <2>4
<1>13. CASE Payload!WriteManifest(r)
  <2> DEFINE payload == [files |-> seen[r], digests |-> read[r].digests]
  <2>1. /\ pc[r] = "manifest"
        /\ pc'[r] = IF t = Platforms[Len(Platforms)] THEN "mkdir" ELSE "load"
        /\ temporary'[r] = Payload!With(temporary[r], t, payload)
        /\ seen' = seen /\ output' = output
    BY <1>0, <1>1, <1>13, Zenon DEF Payload!WriteManifest, Payload!Payload, PayloadShape
  <2>2. PICK n \in 0 .. Len(Platforms) - 1 : DOMAIN temporary[r] = First(n)
    BY <1>1, <2>1 DEF PackageWork
  <2>3. /\ t = Platforms[n + 1] /\ First(n) \cup {t} = First(n + 1)
        /\ t = Platforms[Len(Platforms)] <=> n + 1 = Len(Platforms)
        /\ First(Len(Platforms)) = Payload!Jobs
    BY <1>0, <2>2, FirstTargets DEF Payload!Current
  <2>4. Good(t, payload)
    <3>1. /\ IsMap(seen[r]) /\ IsMap(read[r].digests) /\ Reviewed
          /\ DOMAIN read[r].digests = DOMAIN Payload!StagingOf(t)
          /\ DOMAIN seen[r] = DOMAIN Payload!StagingOf(t)
          /\ \A f \in DOMAIN Payload!StagingOf(t) : Same(t, f, read[r].digests[f]) /\ Same(t, f, seen[r][f])
      BY <1>0, <1>1, <2>1 DEF PackageWork
    <3> QED
      BY <3>1 DEF Good
  <2> HIDE DEF payload
  <2>5. /\ DOMAIN temporary'[r] = First(n + 1)
        /\ \A u \in DOMAIN temporary'[r] : Good(u, temporary'[r][u])
    <3>1. /\ DOMAIN temporary'[r] = DOMAIN temporary[r] \cup {t}
          /\ temporary'[r][t] = payload
          /\ \A u \in DOMAIN temporary[r] \ {t} : temporary'[r][u] = temporary[r][u]
      BY <2>1 DEF Payload!With
    <3>2. \A u \in DOMAIN temporary[r] : Good(u, temporary[r][u])
      BY <1>1, <2>1 DEF PackageWork
    <3> QED
      BY <2>2, <2>3, <2>4, <3>1, <3>2
  <2>6. IsMap(seen'[r]) /\ \A p \in Payload!Jobs \cup {"extraction"} : pc'[p] = "done"
    BY <1>1, <1>4, <2>1 DEF PackageWork
  <2>7. \A u \in DOMAIN temporary'[r] : Good(u, temporary[r][u])'
    BY <1>1, <2>5
  <2>8. CASE n + 1 = Len(Platforms)
    BY <2>1, <2>3, <2>5, <2>6, <2>7, <2>8 DEF PackageWork
  <2>9. CASE n + 1 # Len(Platforms)
    <3>1. n + 1 \in 0 .. Len(Platforms) - 1
      BY <2>2, <2>9, TargetsAre
    <3>2. \E m \in 0 .. Len(Platforms) - 1 : DOMAIN temporary'[r] = First(m)
      BY <2>5, <3>1
    <3>3. pc'[r] = "load"
      BY <2>1, <2>3, <2>9
    <3> QED
      BY <2>1, <2>6, <2>7, <3>2, <3>3 DEF PackageWork, First
  <2> QED
    BY <2>8, <2>9
<1> QED
  BY <1>8, <1>9, <1>10, <1>11, <1>12, <1>13 DEF Payload!PackageMatrix

\* The step of a run of the packager that makes or fills the output.
LEMMA PublishStep ==
  ASSUME NEW S \in SUBSET (Runs \cup SingleRuns), PayloadSafe(S), NEW r \in S,
         Payload!MakeOutput(r) \/ Payload!PublishTarget(r)
  PROVE  PackageWork(r)' /\ OutputWork(S)'
<1>1. /\ PayloadShape(S) /\ PackageWork(r) /\ OutputWork(S)
      /\ r \in Processes(S) /\ \A q \in S \ {r} : pc'[q] = pc[q]
      /\ UNCHANGED <<status, report, edits, staged, inventory, archive, unpacked>>
      /\ \A p \in Payload!Jobs \cup {"extraction"} : pc'[p] = pc[p]
      /\ \A u, payload : Good(u, payload)' <=> Good(u, payload)
  <2>1. Payload!PackageMatrix(r)
    BY DEF Payload!PackageMatrix
  <2> QED
    BY <2>1, PackageOthers, TargetsAre DEF PayloadSafe, Processes
<1>2. First(0) = {} /\ \A n : First(n)' = First(n)
  BY DEF First
<1>3. ASSUME pc'[r] = "failed", seen' = seen,
             output' = output \/ \A q \in S \ {r} : pc[q] \notin {"publish", "done"}
      PROVE  PackageWork(r)' /\ OutputWork(S)'
  <2>1. PackageWork(r)'
    BY <1>1, <1>3 DEF PackageWork
  <2>2. OutputWork(S)'
    BY <1>1, <1>2, <1>3 DEF OutputWork
  <2> QED
    BY <2>1, <2>2
<1> USE DEF Payload!Goto, Payload!Within, Payload!Keep
<1>4. CASE Payload!MakeOutput(r)
  <2>1. /\ pc[r] = "mkdir" /\ seen' = seen
        /\ pc'[r] = IF output = Payload!Absent THEN "publish" ELSE "failed"
        /\ output = Payload!Absent => temporary'[r] = temporary[r]
        /\ output' = IF output = Payload!Absent THEN <<>> ELSE output
    BY <1>1, <1>4, Zenon DEF Payload!MakeOutput, PayloadShape
  <2>2. CASE output = Payload!Absent
    <3>1. \A q \in S : pc[q] \notin {"publish", "done"}
      BY <1>1, <2>2 DEF OutputWork
    <3>2. PackageWork(r)'
      BY <1>1, <2>1, <2>2 DEF PackageWork
    <3>3. DOMAIN output' = First(0) /\ output' # Payload!Absent /\ 0 \in 0 .. Len(Platforms) - 1
      BY <1>2, <2>1, <2>2, EmptyIsMap, TargetsAre DEF Payload!Absent
    <3>4. \E n \in 0 .. Len(Platforms) - 1 : DOMAIN output' = First(n)
      BY <3>3
    <3>5. OutputWork(S)'
      BY <1>1, <1>2, <2>1, <2>2, <3>1, <3>3, <3>4 DEF OutputWork
    <3> QED
      BY <3>2, <3>5
  <2> QED
    BY <1>3, <2>1, <2>2
<1>5. CASE Payload!PublishTarget(r)
  <2>1. PICK t : t = Platforms[Payload!Cardinality(DOMAIN output) + 1]
    OBVIOUS
  <2>2. PICK ok \in BOOLEAN :
          /\ pc[r] = "publish" /\ seen' = seen
          /\ pc'[r] = IF ok THEN IF t = Platforms[Len(Platforms)] THEN "done" ELSE "publish" ELSE "failed"
          /\ output' = Payload!With(output, t, IF ok THEN temporary[r][t] ELSE Payload!Torn)
          /\ ok /\ t # Platforms[Len(Platforms)] => temporary'[r] = temporary[r]
    BY <1>1, <1>5, <2>1, Zenon DEF Payload!PublishTarget, PayloadShape
  <2>3. \A q \in S \ {r} : pc[q] \notin {"publish", "done"}
    BY <1>1, <2>2 DEF OutputWork
  <2>4. PICK n \in 0 .. Len(Platforms) - 1 : DOMAIN output = First(n)
    BY <1>1, <2>2 DEF OutputWork
  <2>5. /\ t \in Payload!Jobs /\ First(n) \cup {t} = First(n + 1)
        /\ t = Platforms[Len(Platforms)] <=> n + 1 = Len(Platforms)
        /\ First(Len(Platforms)) = Payload!Jobs
    BY <2>1, <2>4, FirstTargets
  <2>6. CASE ok
    <3>1. /\ DOMAIN output' = First(n + 1)
          /\ output'[t] = temporary[r][t]
          /\ \A u \in DOMAIN output \ {t} : output'[u] = output[u]
      BY <2>2, <2>4, <2>5, <2>6 DEF Payload!With
    <3>2. Good(t, temporary[r][t])
      BY <1>1, <2>2, <2>5 DEF PackageWork
    <3>3. \A u \in DOMAIN output : Good(u, output[u])
      BY <1>1, <2>2 DEF OutputWork
    <3>4. \A u \in DOMAIN output' : Good(u, output[u])'
      BY <1>1, <2>4, <2>5, <3>1, <3>2, <3>3
    <3>5. output' # Payload!Absent
      <4>1. t # "absent" /\ t \in DOMAIN output'
        BY <2>5, <3>1, TargetsAre
      <4> QED
        BY <4>1 DEF Payload!Absent
    <3>6. CASE n + 1 = Len(Platforms)
      <4>1. pc'[r] = "done" /\ DOMAIN output' = Payload!Jobs
        BY <2>2, <2>5, <2>6, <3>1, <3>6
      <4>2. PackageWork(r)'
        BY <1>1, <2>2, <4>1 DEF PackageWork
      <4>3. OutputWork(S)'
        BY <1>1, <2>3, <3>4, <3>5, <4>1 DEF OutputWork
      <4> QED
        BY <4>2, <4>3
    <3>7. CASE n + 1 # Len(Platforms)
      <4>1. pc'[r] = "publish" /\ temporary'[r] = temporary[r]
        BY <2>2, <2>5, <2>6, <3>7
      <4>2. n + 1 \in 0 .. Len(Platforms) - 1
        BY <2>4, <3>7, TargetsAre
      <4>3. \E m \in 0 .. Len(Platforms) - 1 : DOMAIN output' = First(m)
        BY <3>1, <4>2
      <4>4. PackageWork(r)'
        BY <1>1, <2>2, <4>1 DEF PackageWork
      <4>5. OutputWork(S)'
        BY <1>1, <1>2, <2>3, <3>4, <3>5, <4>1, <4>3 DEF OutputWork
      <4> QED
        BY <4>4, <4>5
    <3> QED
      BY <3>6, <3>7
  <2>7. CASE ~ok
    BY <1>3, <2>2, <2>3, <2>7
  <2> QED
    BY <2>6, <2>7
<1> QED
  BY <1>4, <1>5

\* The step of a run of the packager.
LEMMA PackageStepSafe ==
  ASSUME NEW S \in SUBSET (Runs \cup SingleRuns), PayloadSafe(S), NEW r \in S,
         Payload!PackageMatrix(r)
  PROVE  PayloadSafe(S)'
<1>1. /\ PayloadShape(S)' /\ r \in Processes(S)
      /\ \A q \in S \ {r} : pc'[q] = pc[q]
      /\ \A t \in Payload!Jobs : JobWork(t)'
      /\ \A t \in Payload!Posix : PosixWork(t)'
      /\ ArchivedJobWork' /\ ArchiveWork' /\ ExtractionWork'
      /\ \A u, payload : Good(u, payload)' <=> Good(u, payload)
      /\ \A q \in S \ {r} : PackageWork(q)'
  BY PackageOthers, TargetsAre DEF Processes
<1>2. CASE Payload!MakeOutput(r) \/ Payload!PublishTarget(r)
  BY <1>1, <1>2, PublishStep DEF PayloadSafe
<1>3. CASE ~(Payload!MakeOutput(r) \/ Payload!PublishTarget(r))
  <2>1. PackageWork(r)' /\ output' = output /\ pc'[r] \notin {"publish", "done"}
    BY <1>3, PackageStep
  <2>2. OutputWork(S)'
    BY <1>1, <2>1 DEF OutputWork, First, PayloadSafe
  <2> QED
    BY <1>1, <2>1, <2>2 DEF PayloadSafe
<1> QED
  BY <1>2, <1>3

\* The targets of what has been packaged or published are targets.
LEMMA FirstAreTargets ==
  ASSUME NEW n \in 0 .. Len(Platforms) - 1
  PROVE  First(n) \subseteq Payload!Jobs
BY TargetsAre DEF First

\* A change of an input leaves every file where it was, those apart that are
\* selected it leaves them as they were, and it is counted.
LEMMA EditIs ==
  ASSUME NEW S, PayloadSafe(S), Payload!Edit
  PROVE  /\ PayloadShape(S)' /\ edits' # 0
         /\ UNCHANGED <<inventory, unpacked, temporary, output, pc, read, seen>>
         /\ \A t \in Payload!Jobs :
              /\ IsMap(staged'[t]) /\ DOMAIN staged'[t] = DOMAIN staged[t]
              /\ \A f \in DOMAIN staged[t] \ Selected : staged'[t][f] = staged[t][f]
         /\ archive # Payload!Absent => Candidate(archive')
         /\ archive = Payload!Absent => archive' = archive
<1>1. PayloadShape(S) /\ \A t \in Payload!Jobs : JobWork(t)
  BY DEF PayloadSafe
<1>2. archive # Payload!Absent => Candidate(archive)
  BY DEF PayloadSafe, ArchiveWork
<1>3. Selected \cap {Payload!Audit, Payload!Sums} = {}
  BY PayloadAssumption DEF Payload!Audit, Payload!Sums
<1>4. /\ edits' = edits + 1 /\ edits' # 0 /\ edits' \in Nat
      /\ UNCHANGED <<inventory, unpacked, temporary, output, pc, read, seen>>
  BY <1>1 DEF Payload!Edit, PayloadShape
<1>5. ASSUME NEW t \in Payload!Jobs, NEW f \in Selected, NEW b, f \in DOMAIN staged[t],
             staged' = [staged EXCEPT ![t][f] = b], UNCHANGED <<report, archive>>
      PROVE  /\ PayloadShape(S)'
             /\ \A u \in Payload!Jobs :
                  /\ IsMap(staged'[u]) /\ DOMAIN staged'[u] = DOMAIN staged[u]
                  /\ \A g \in DOMAIN staged[u] \ Selected : staged'[u][g] = staged[u][g]
  <2>1. staged' = [u \in Payload!Jobs |-> IF u = t THEN [staged[t] EXCEPT ![f] = b] ELSE staged[u]]
    BY <1>1, <1>5 DEF PayloadShape
  <2>2. PayloadShape(S)'
    BY <1>1, <1>4, <1>5, <2>1 DEF PayloadShape
  <2> DEFINE to == [staged[t] EXCEPT ![f] = b]
  <2>3. /\ IsMap(to) /\ DOMAIN to = DOMAIN staged[t]
        /\ \A g \in DOMAIN staged[t] \ Selected : to[g] = staged[t][g]
    BY DEF IsMap
  <2>4. \A u \in Payload!Jobs : IsMap(staged[u])
    BY <1>1 DEF JobWork
  <2>5. \A u \in Payload!Jobs : staged'[u] = IF u = t THEN to ELSE staged[u]
    BY <2>1
  <2> HIDE DEF to
  <2> QED
    BY <2>2, <2>3, <2>4, <2>5
<1>6. ASSUME NEW t \in Payload!Posix, NEW d \in PayloadReports,
             report' = [report EXCEPT ![t] = d], UNCHANGED <<staged, archive>>
      PROVE  PayloadShape(S)'
  BY <1>1, <1>4, <1>6 DEF PayloadShape
<1>7. ASSUME archive # Payload!Absent, NEW f \in Selected, NEW b,
             archive' = [archive EXCEPT ![f] = b], UNCHANGED <<staged, report>>
      PROVE  PayloadShape(S)' /\ Candidate(archive')
  <2>1. PayloadShape(S)'
    BY <1>1, <1>4, <1>7 DEF PayloadShape
  <2>2. /\ IsMap(archive') /\ DOMAIN archive' = DOMAIN archive
        /\ archive'[Payload!Audit] = archive[Payload!Audit]
        /\ archive'[Payload!Sums] = archive[Payload!Sums]
    BY <1>2, <1>3, <1>7 DEF Candidate, IsMap
  <2>3. Candidate(archive')
    BY <1>2, <1>7, <2>2 DEF Candidate
  <2> QED
    BY <2>1, <2>3
<1>8. UNCHANGED <<staged, report>> => PayloadShape(S)'
  BY <1>1, <1>4 DEF PayloadShape
<1>9. \A t \in Payload!Jobs : IsMap(staged[t])
  BY <1>1 DEF JobWork
<1>10. \/ \E t \in Payload!Jobs, f \in Selected, b \in PayloadBytes :
            /\ f \in DOMAIN staged[t] /\ staged' = [staged EXCEPT ![t][f] = b]
            /\ UNCHANGED <<report, archive>>
       \/ \E t \in Payload!Posix : \E d \in PayloadReports :
            report' = [report EXCEPT ![t] = d] /\ UNCHANGED <<staged, archive>>
       \/ /\ archive # Payload!Absent
          /\ \E f \in Selected, b \in PayloadBytes : archive' = [archive EXCEPT ![f] = b]
          /\ UNCHANGED <<staged, report>>
       \/ UNCHANGED <<staged, report, archive>>
  BY DEF Payload!Edit
<1> QED
  BY <1>2, <1>4, <1>5, <1>6, <1>7, <1>8, <1>9, <1>10

\* A change of an input between two steps keeps what the processes know: what they
\* have read and seen is theirs, and only what no change touched is said to agree.
LEMMA EditSafe ==
  ASSUME NEW S \in SUBSET (Runs \cup SingleRuns), PayloadSafe(S), Payload!Edit
  PROVE  PayloadSafe(S)'
<1>1. /\ PayloadShape(S)' /\ edits' # 0
      /\ UNCHANGED <<inventory, unpacked, temporary, output, pc, read, seen>>
      /\ \A t \in Payload!Jobs :
           /\ IsMap(staged'[t]) /\ DOMAIN staged'[t] = DOMAIN staged[t]
           /\ \A f \in DOMAIN staged[t] \ Selected : staged'[t][f] = staged[t][f]
      /\ archive # Payload!Absent => Candidate(archive')
      /\ archive = Payload!Absent => archive' = archive
  BY EditIs
<1> USE TargetsAre DEF PayloadSafe
<1>2. Selected \cap {Payload!Audit, Payload!Sums} = {}
  BY PayloadAssumption DEF Payload!Audit, Payload!Sums
<1>3. \A t \in Payload!Jobs : JobWork(t)'
  BY <1>1, <1>2 DEF JobWork
<1>4. \A t \in Payload!Posix : PosixWork(t)'
  BY <1>1 DEF PosixWork
<1>5. ArchivedJobWork'
  BY <1>1, <1>2 DEF ArchivedJobWork
<1>6. ArchiveWork' /\ ExtractionWork'
  BY <1>1 DEF ArchiveWork, ExtractionWork, Listed
<1>7. \A t \in Payload!Jobs : /\ DOMAIN Payload!StagingOf(t)' = DOMAIN Payload!StagingOf(t)
                              /\ t = Archived => Payload!StagingOf(t)' = Payload!StagingOf(t)
  BY <1>1 DEF Payload!StagingOf
<1>8. /\ \A t \in Payload!Jobs : \A f, content : Same(t, f, content) => Same(t, f, content)'
      /\ Reviewed'
  BY <1>1, <1>7 DEF Same, Reviewed
<1>9. \A t \in Payload!Jobs : \A payload : Good(t, payload) => Good(t, payload)'
  BY <1>7, <1>8 DEF Good
<1>10. ASSUME NEW r \in S
       PROVE  PackageWork(r)'
  <2>1. PICK t : t = Payload!Current(r)
    OBVIOUS
  <2>2. Payload!Current(r)' = t
    BY <1>1, <2>1 DEF Payload!Current
  <2>3. pc[r] \in {"load", "validate", "close", "copy", "manifest"} =>
          t \in Payload!Jobs /\ DOMAIN temporary[r] \subseteq Payload!Jobs
    <3> SUFFICES ASSUME pc[r] \in {"load", "validate", "close", "copy", "manifest"}
                 PROVE  t \in Payload!Jobs /\ DOMAIN temporary[r] \subseteq Payload!Jobs
      OBVIOUS
    <3>1. PICK n \in 0 .. Len(Platforms) - 1 : DOMAIN temporary[r] = First(n)
      BY DEF PackageWork
    <3> QED
      BY <2>1, <3>1, FirstTargets, FirstAreTargets DEF Payload!Current
  <2>4. pc[r] \in {"load", "validate", "close", "copy", "manifest", "mkdir", "publish"} =>
          \A u \in DOMAIN temporary'[r] : Good(u, temporary[r][u])'
    BY <1>1, <1>9, <2>3 DEF PackageWork
  <2>5. pc[r] \in {"copy", "manifest"} =>
          /\ IsMap(read'[r].digests) /\ DOMAIN read'[r].digests = DOMAIN Payload!StagingOf(t)'
          /\ \A f \in DOMAIN read'[r].digests : Same(t, f, read[r].digests[f])'
    BY <1>1, <1>7, <1>8, <2>1, <2>3 DEF PackageWork
  <2>6. pc[r] \in {"validate", "close", "copy", "manifest"} =>
          \A f \in DOMAIN seen'[r] : f \in DOMAIN Payload!StagingOf(t)' /\ Same(t, f, seen[r][f])'
    BY <1>1, <1>7, <1>8, <2>1, <2>3 DEF PackageWork
  <2> QED
    BY <1>1, <1>8, <2>1, <2>2, <2>4, <2>5, <2>6 DEF PackageWork, First
<1>11. OutputWork(S)'
  <2>1. \A r \in S : pc[r] \in {"publish", "done"} => DOMAIN output \subseteq Payload!Jobs
    BY FirstAreTargets DEF OutputWork
  <2>2. \A r \in S : pc[r] \in {"publish", "done"} => \A t \in DOMAIN output' : Good(t, output[t])'
    BY <1>1, <1>9, <2>1 DEF OutputWork
  <2> QED
    BY <1>1, <2>2 DEF OutputWork, First
<1> QED
  BY <1>1, <1>3, <1>4, <1>5, <1>6, <1>10, <1>11

\* A process that is killed, or tried again after that, is at a place where nothing
\* is known; and what was done stays done.
LEMMA RestartSafe ==
  ASSUME NEW S \in SUBSET (Runs \cup SingleRuns), PayloadSafe(S), NEW p \in Processes(S),
         pc[p] # "done",
         pc' = [pc EXCEPT ![p] = "killed"] \/ pc' = [pc EXCEPT ![p] = "new"],
         UNCHANGED <<status, report, edits, staged, inventory, archive, unpacked, temporary,
                     output, read, seen>>
  PROVE  PayloadSafe(S)'
<1> USE TargetsAre DEF PayloadSafe
<1>1. /\ PayloadShape(S)' /\ pc'[p] \in {"killed", "new"}
      /\ \A q \in Processes(S) \ {p} : pc'[q] = pc[q]
  BY DEF PayloadShape
<1>2. /\ Payload!Jobs \subseteq Processes(S) /\ "extraction" \in Processes(S) /\ S \subseteq Processes(S)
      /\ Archived \in Processes(S)
  BY DEF Processes
<1>3. \A t \in Payload!Jobs : JobWork(t)'
  BY <1>1, <1>2 DEF JobWork
<1>4. \A t \in Payload!Posix : PosixWork(t)'
  BY <1>1, <1>2 DEF PosixWork
<1>5. ArchivedJobWork'
  BY <1>1, <1>2 DEF ArchivedJobWork
<1>6. ArchiveWork' /\ ExtractionWork'
  BY <1>1, <1>2 DEF ArchiveWork, ExtractionWork, Listed, Candidate
<1>7. \A u, payload : Good(u, payload)' <=> Good(u, payload)
  BY DEF Good, Same, Reviewed, Payload!StagingOf
<1>8. ASSUME NEW r \in S
      PROVE  PackageWork(r)'
  <2>1. CASE r = p
    BY <1>1, <2>1 DEF PackageWork
  <2>2. CASE r # p
    <3>1. pc'[r] = pc[r] /\ PackageWork(r)
      BY <1>1, <1>2, <2>2
    <3>2. /\ Payload!Current(r)' = Payload!Current(r)
          /\ \A u : Payload!StagingOf(u)' = Payload!StagingOf(u)
      BY DEF Payload!Current, Payload!StagingOf
    <3>3. pc[r] \in {"load", "validate", "close", "copy", "manifest", "mkdir", "publish", "done"} =>
            \A q \in Payload!Jobs \cup {"extraction"} : pc'[q] = "done"
      BY <1>1, <1>2, <3>1 DEF PackageWork
    <3> QED
      BY <1>7, <3>1, <3>2, <3>3 DEF PackageWork, Same, Reviewed, First
  <2> QED
    BY <2>1, <2>2
<1>9. OutputWork(S)'
  BY <1>1, <1>2, <1>7 DEF OutputWork, First
<1> QED
  BY <1>1, <1>3, <1>4, <1>5, <1>6, <1>8, <1>9

\* Every step of the packaging keeps what its processes know.
LEMMA PayloadNextSafe ==
  ASSUME PayloadSafe(SingleRuns), Payload!Next
  PROVE  PayloadSafe(SingleRuns)'
<1>1. CASE \E t \in Payload!Jobs : Payload!CreateInventory(t)
  BY <1>1, JobStepSafe
<1>2. CASE Payload!Compress
  BY <1>2, CompressSafe
<1>3. CASE Payload!Extract
  BY <1>3, ExtractOthers, ExtractStep DEF PayloadSafe
<1>4. CASE \E r \in SingleRuns : Payload!PackageMatrix(r)
  BY <1>4, PackageStepSafe
<1>5. CASE Payload!Edit
  BY <1>5, EditSafe
<1>6. CASE \E p \in Payload!Processes : Payload!Kill(p) \/ Payload!Retry(p)
  <2>1. PICK p \in Payload!Processes : Payload!Kill(p) \/ Payload!Retry(p)
    BY <1>6
  <2>2. p \in Processes(SingleRuns)
    BY <2>1 DEF Payload!Processes, Payload!Extraction, Processes
  <2> QED
    BY <2>1, <2>2, RestartSafe
       DEF Payload!Kill, Payload!Retry, Payload!Ended, Payload!inputs, Payload!products
<1> QED
  BY <1>1, <1>2, <1>3, <1>4, <1>5, <1>6 DEF Payload!Next

-----------------------------------------------------------------------------
(* Packagings that overlap take the same steps *)

\* The packaging with other runs of the packager has the same jobs and orders.
LEMMA OverlapIsPayload ==
  /\ PayloadOverlap!Jobs = Payload!Jobs /\ PayloadOverlap!Posix = Payload!Posix
  /\ PayloadOverlap!Absent = Payload!Absent /\ PayloadOverlap!Torn = Payload!Torn
  /\ PayloadOverlap!Processes = Processes(Runs)
  /\ \A S : PayloadOverlap!Cardinality(S) = Payload!Cardinality(S)
  /\ \A p, names : PayloadOverlap!NextFile(p, names) = Payload!NextFile(p, names)
  /\ \A p, names : PayloadOverlap!LastFile(p, names) <=> Payload!LastFile(p, names)
<1>1. \A S : PayloadOverlap!Cardinality(S) = Payload!Cardinality(S)
  BY Zenon DEF PayloadOverlap!Cardinality, Payload!Cardinality
<1>2. PayloadOverlap!Jobs = Payload!Jobs
  BY DEF PayloadOverlap!Jobs, Payload!Jobs, PayloadOverlap!Range, Payload!Range
<1>3. \A p, names : PayloadOverlap!NextFile(p, names) = Payload!NextFile(p, names)
  BY DEF PayloadOverlap!NextFile, Payload!NextFile
<1>4. \A p, names : PayloadOverlap!LastFile(p, names) <=> Payload!LastFile(p, names)
  BY <1>1 DEF PayloadOverlap!LastFile, Payload!LastFile
<1> QED
  BY <1>1, <1>2, <1>3, <1>4
     DEF PayloadOverlap!Posix, Payload!Posix, PayloadOverlap!Absent, Payload!Absent,
         PayloadOverlap!Torn, Payload!Torn, PayloadOverlap!Processes,
         PayloadOverlap!Extraction, Processes

\* Nor is anything known before the first of overlapping packagers.
LEMMA OverlapStarts == PayloadOverlap!Init => PayloadSafe(Runs)
BY OverlapIsPayload, PayloadBegins DEF PayloadOverlap!Init

\* The jobs do the same whatever runs of the packager there are.
LEMMA OverlapJob ==
  ASSUME NEW t \in Payload!Jobs, PayloadOverlap!CreateInventory(t)
  PROVE  Payload!CreateInventory(t)
<1> USE OverlapIsPayload
    DEF PayloadOverlap!inputs, Payload!inputs, PayloadOverlap!products, Payload!products,
        PayloadOverlap!Goto, Payload!Goto, PayloadOverlap!JobsIdle, Payload!JobsIdle,
        PayloadOverlap!Ended, Payload!Ended, PayloadOverlap!Permitted, Payload!Permitted,
        PayloadOverlap!See, Payload!See, PayloadOverlap!With, Payload!With,
        PayloadOverlap!RequiredFiles, Payload!RequiredFiles,
        PayloadOverlap!Audit, Payload!Audit, PayloadOverlap!Sums, Payload!Sums
<1>1. PayloadOverlap!BindReport(t) => Payload!BindReport(t)
  BY DEF PayloadOverlap!BindReport, Payload!BindReport
<1>2. PayloadOverlap!HashReported(t) => Payload!HashReported(t)
  BY DEF PayloadOverlap!HashReported, Payload!HashReported
<1>3. PayloadOverlap!ClosePosix(t) => Payload!ClosePosix(t)
  BY DEF PayloadOverlap!ClosePosix, Payload!ClosePosix
<1>4. PayloadOverlap!CopyReport(t) => Payload!CopyReport(t)
  BY DEF PayloadOverlap!CopyReport, Payload!CopyReport
<1>5. PayloadOverlap!BindPolicies => Payload!BindPolicies
  BY DEF PayloadOverlap!BindPolicies, Payload!BindPolicies
<1>6. PayloadOverlap!HashRequired => Payload!HashRequired
  BY DEF PayloadOverlap!HashRequired, Payload!HashRequired
<1>7. PayloadOverlap!WriteAudit => Payload!WriteAudit
  BY DEF PayloadOverlap!WriteAudit, Payload!WriteAudit
<1>8. PayloadOverlap!CloseWindows => Payload!CloseWindows
  BY DEF PayloadOverlap!CloseWindows, Payload!CloseWindows
<1>9. PayloadOverlap!OpenAudit(t) => Payload!OpenAudit(t)
  BY DEF PayloadOverlap!OpenAudit, Payload!OpenAudit
<1>10. PayloadOverlap!WriteInventory(t) => Payload!WriteInventory(t)
  BY DEF PayloadOverlap!WriteInventory, Payload!WriteInventory, PayloadOverlap!Cut, Payload!Cut
<1> QED
  BY <1>1, <1>2, <1>3, <1>4, <1>5, <1>6, <1>7, <1>8, <1>9, <1>10
     DEF PayloadOverlap!CreateInventory, Payload!CreateInventory

\* So does the archive job, and the extraction.
LEMMA OverlapExtract ==
  /\ PayloadOverlap!Compress => Payload!Compress
  /\ PayloadOverlap!Extract => Payload!Extract
<1> USE OverlapIsPayload
    DEF PayloadOverlap!inputs, Payload!inputs, PayloadOverlap!products, Payload!products,
        PayloadOverlap!Goto, Payload!Goto, PayloadOverlap!Extraction, Payload!Extraction,
        PayloadOverlap!See, Payload!See, PayloadOverlap!With, Payload!With,
        PayloadOverlap!Describes, Payload!Describes,
        PayloadOverlap!Audit, Payload!Audit, PayloadOverlap!Sums, Payload!Sums
<1>1. PayloadOverlap!Compress => Payload!Compress
  BY DEF PayloadOverlap!Compress, Payload!Compress
<1>2. PayloadOverlap!OpenCandidate => Payload!OpenCandidate
  BY DEF PayloadOverlap!OpenCandidate, Payload!OpenCandidate
<1>3. PayloadOverlap!Unpack => Payload!Unpack
  BY DEF PayloadOverlap!Unpack, Payload!Unpack
<1>4. PayloadOverlap!VerifySums => Payload!VerifySums
  BY DEF PayloadOverlap!VerifySums, Payload!VerifySums
<1>5. PayloadOverlap!VerifyAudit => Payload!VerifyAudit
  BY DEF PayloadOverlap!VerifyAudit, Payload!VerifyAudit
<1> QED
  BY <1>1, <1>2, <1>3, <1>4, <1>5 DEF PayloadOverlap!Extract, Payload!Extract

\* And each run of the packager does what a single one does.
LEMMA OverlapPackage ==
  ASSUME NEW r \in Runs, PayloadOverlap!PackageMatrix(r)
  PROVE  Payload!PackageMatrix(r)
<1> USE OverlapIsPayload
    DEF PayloadOverlap!inputs, Payload!inputs, PayloadOverlap!Goto, Payload!Goto,
        PayloadOverlap!Within, Payload!Within, PayloadOverlap!Keep, Payload!Keep,
        PayloadOverlap!Current, Payload!Current, PayloadOverlap!StagingOf, Payload!StagingOf,
        PayloadOverlap!See, Payload!See, PayloadOverlap!With, Payload!With
<1>1. PayloadOverlap!StartMatrix(r) => Payload!StartMatrix(r)
  BY DEF PayloadOverlap!StartMatrix, Payload!StartMatrix, PayloadOverlap!Extraction, Payload!Extraction
<1>2. PayloadOverlap!LoadTarget(r) => Payload!LoadTarget(r)
  BY DEF PayloadOverlap!LoadTarget, Payload!LoadTarget, PayloadOverlap!Approved, Payload!Approved
<1>3. PayloadOverlap!Validate(r) => Payload!Validate(r)
  BY DEF PayloadOverlap!Validate, Payload!Validate
<1>4. PayloadOverlap!CloseTarget(r) => Payload!CloseTarget(r)
  BY DEF PayloadOverlap!CloseTarget, Payload!CloseTarget
<1>5. PayloadOverlap!CopyFile(r) => Payload!CopyFile(r)
  BY DEF PayloadOverlap!CopyFile, Payload!CopyFile
<1>6. PayloadOverlap!WriteManifest(r) => Payload!WriteManifest(r)
  BY DEF PayloadOverlap!WriteManifest, Payload!WriteManifest, PayloadOverlap!Payload, Payload!Payload
<1>7. PayloadOverlap!MakeOutput(r) => Payload!MakeOutput(r)
  BY DEF PayloadOverlap!MakeOutput, Payload!MakeOutput
<1>8. PayloadOverlap!PublishTarget(r) => Payload!PublishTarget(r)
  BY DEF PayloadOverlap!PublishTarget, Payload!PublishTarget
<1> QED
  BY <1>1, <1>2, <1>3, <1>4, <1>5, <1>6, <1>7, <1>8
     DEF PayloadOverlap!PackageMatrix, Payload!PackageMatrix

\* Every step of overlapping packagers keeps what the processes know.
LEMMA OverlapNextSafe ==
  ASSUME PayloadSafe(Runs), PayloadOverlap!Next
  PROVE  PayloadSafe(Runs)'
<1>1. CASE \E t \in PayloadOverlap!Jobs : PayloadOverlap!CreateInventory(t)
  BY <1>1, OverlapIsPayload, OverlapJob, JobStepSafe
<1>2. CASE PayloadOverlap!Compress
  BY <1>2, OverlapExtract, CompressSafe
<1>3. CASE PayloadOverlap!Extract
  BY <1>3, OverlapExtract, ExtractOthers, ExtractStep DEF PayloadSafe
<1>4. CASE \E r \in Runs : PayloadOverlap!PackageMatrix(r)
  BY <1>4, OverlapPackage, PackageStepSafe
<1>5. ~PayloadOverlap!Edit
  BY DEF PayloadOverlap!Edit, PayloadSafe, PayloadShape
<1>6. CASE \E p \in PayloadOverlap!Processes : PayloadOverlap!Kill(p) \/ PayloadOverlap!Retry(p)
  <2>1. PICK p \in Processes(Runs) : PayloadOverlap!Kill(p) \/ PayloadOverlap!Retry(p)
    BY <1>6, OverlapIsPayload
  <2> QED
    BY <2>1, RestartSafe
       DEF PayloadOverlap!Kill, PayloadOverlap!Retry, PayloadOverlap!Ended, PayloadOverlap!inputs,
           PayloadOverlap!products
<1> QED
  BY <1>1, <1>2, <1>3, <1>4, <1>5, <1>6 DEF PayloadOverlap!Next

-----------------------------------------------------------------------------
(* What a payload promises *)

\* A good payload of a target nobody has changed is what is there.
LEMMA GoodIsSame ==
  ASSUME NEW S, PayloadSafe(S), NEW t \in Payload!Jobs, NEW payload, Good(t, payload),
         \A p \in Payload!Jobs \cup {"extraction"} : pc[p] = "done",
         t = Archived \/ edits = 0
  PROVE  payload.files = Payload!StagingOf(t) /\ payload.digests = Payload!StagingOf(t)
<1> DEFINE from == Payload!StagingOf(t)
<1>1. IsMap(from)
  BY DEF PayloadSafe, JobWork, ExtractionWork, Candidate, Payload!StagingOf
<1>2. /\ IsMap(payload.files) /\ DOMAIN payload.files = DOMAIN from
      /\ IsMap(payload.digests) /\ DOMAIN payload.digests = DOMAIN from
      /\ \A f \in DOMAIN from : payload.files[f] = from[f] /\ payload.digests[f] = from[f]
  BY DEF Good, Same
<1> HIDE DEF from
<1>3. payload.files = from
  BY <1>1, <1>2 DEF IsMap
<1>4. payload.digests = from
  BY <1>1, <1>2 DEF IsMap
<1> QED
  BY <1>3, <1>4 DEF from

\* What a run that is done has published.
LEMMA PublishedIsWhole ==
  ASSUME NEW S, PayloadSafe(S), NEW r \in S, pc[r] = "done"
  PROVE  /\ DOMAIN output = Payload!Jobs
         /\ \A t \in Payload!Jobs :
              /\ Good(t, output[t]) /\ output[t] # Payload!Torn
              /\ DOMAIN output[t].files = DOMAIN output[t].digests
              /\ Selected \subseteq DOMAIN output[t].files
         /\ \A p \in Payload!Jobs \cup {"extraction"} : pc[p] = "done"
<1>1. DOMAIN output = Payload!Jobs /\ \A t \in Payload!Jobs : Good(t, output[t])
  BY DEF PayloadSafe, OutputWork
<1>2. \A p \in Payload!Jobs \cup {"extraction"} : pc[p] = "done"
  BY DEF PayloadSafe, PackageWork
<1>3. \A t \in Payload!Jobs : output[t] # Payload!Torn
  <2> TAKE t \in Payload!Jobs
  <2>1. "files" \in DOMAIN output[t]
    BY <1>1 DEF Good
  <2> QED
    BY <2>1 DEF Payload!Torn
<1>4. \A t \in Payload!Jobs : /\ DOMAIN output[t].files = DOMAIN output[t].digests
                              /\ Selected \subseteq DOMAIN output[t].files
  BY <1>1, <1>2, StagingIs DEF Good
<1> QED
  BY <1>1, <1>2, <1>3, <1>4

\* The properties of the packaging follow.
LEMMA PayloadProperties ==
  ASSUME PayloadSafe(SingleRuns)
  PROVE  /\ Payload!PayloadIsWhole /\ Payload!InventoryIsClosed
         /\ Payload!PayloadIsReported /\ Payload!WindowsIsAudited
<1>1. Payload!PayloadIsWhole
  BY PublishedIsWhole DEF Payload!PayloadIsWhole, Payload!Published, Payload!Range
<1>2. Payload!InventoryIsClosed
  BY DEF PayloadSafe, JobWork, Payload!InventoryIsClosed
<1>3. Payload!PayloadIsReported
  <2> SUFFICES ASSUME NEW r \in SingleRuns, pc[r] = "done", edits = 0
               PROVE  /\ \A t \in Payload!Posix :
                           output[t].files = Payload!With(report[t].files, Payload!Audit, report[t])
                      /\ output[Archived].files = staged[Archived]
                      /\ \A t \in Payload!Jobs :
                           /\ output[t].digests = output[t].files
                           /\ output[t].files[Payload!Audit].status = "approved"
    BY DEF Payload!PayloadIsReported, Payload!Published
  <2>1. \A p \in Payload!Jobs \cup {"extraction"} : pc[p] = "done"
    BY PublishedIsWhole
  <2>2. \A t \in Payload!Jobs : /\ output[t].files = Payload!StagingOf(t)
                                /\ output[t].digests = Payload!StagingOf(t)
                                /\ status = "approved"
    BY PublishedIsWhole, GoodIsSame DEF Good, Reviewed
  <2>3. ASSUME NEW t \in Payload!Posix
        PROVE  /\ Payload!StagingOf(t) = Payload!With(report[t].files, Payload!Audit, report[t])
               /\ Payload!StagingOf(t)[Payload!Audit].status = status
    <3>1. /\ staged[t] = Payload!With(report[t].files, Payload!Audit, report[t])
          /\ report[t].status = status
      BY <2>1, TargetsAre DEF PayloadSafe, PosixWork
    <3>2. Payload!StagingOf(t) = staged[t]
      BY TargetsAre DEF Payload!StagingOf
    <3>3. Payload!With(report[t].files, Payload!Audit, report[t])[Payload!Audit] = report[t]
      BY DEF Payload!With
    <3> QED
      BY <3>1, <3>2, <3>3
  <2>4. /\ Payload!StagingOf(Archived) = staged[Archived]
        /\ staged[Archived][Payload!Audit].status = status
    BY <2>1, TargetsAre DEF PayloadSafe, ArchivedJobWork, ExtractionWork, Payload!StagingOf
  <2> QED
    BY <2>2, <2>3, <2>4, TargetsAre
<1>4. Payload!WindowsIsAudited
  <2> SUFFICES ASSUME NEW r \in SingleRuns, pc[r] = "done"
               PROVE  LET files == output[Archived].files IN
                      /\ files[Payload!Audit].files = [f \in DOMAIN files \ {Payload!Audit} |-> files[f]]
                      /\ files[Payload!Sums].sums =
                           [f \in DOMAIN files \ {Payload!Audit, Payload!Sums} |-> files[f]]
    BY DEF Payload!WindowsIsAudited, Payload!Published
  <2>1. pc["extraction"] = "done" /\ output[Archived].files = unpacked
    BY PublishedIsWhole, GoodIsSame, TargetsAre DEF Payload!StagingOf
  <2>2. /\ unpacked[Payload!Audit].files = Listed(DOMAIN unpacked \ {Payload!Audit})
        /\ unpacked[Payload!Sums].sums = Listed(DOMAIN unpacked \ {Payload!Audit, Payload!Sums})
    <3>1. {Payload!Audit, Payload!Sums} = {Payload!Sums, Payload!Audit}
      OBVIOUS
    <3> QED
      BY <2>1, <3>1 DEF PayloadSafe, ExtractionWork
  <2> QED
    BY <2>1, <2>2 DEF Listed
<1> QED
  BY <1>1, <1>2, <1>3, <1>4

\* Those of packagings that overlap too.
LEMMA OverlapProperties ==
  ASSUME PayloadSafe(Runs)
  PROVE  PayloadOverlap!PayloadIsWhole /\ PayloadOverlap!OnePublisher
<1>1. PayloadOverlap!PayloadIsWhole
  BY PublishedIsWhole, OverlapIsPayload
     DEF PayloadOverlap!PayloadIsWhole, PayloadOverlap!Published, PayloadOverlap!Range
<1>2. PayloadOverlap!OnePublisher
  <2> DEFINE S == {r \in Runs : pc[r] = "done"}
  <2>1. Cardinality(S) <= 1
    BY AtMostOne DEF PayloadSafe, OutputWork
  <2>2. PayloadOverlap!Cardinality(S) = Cardinality(S)
    BY Zenon DEF PayloadOverlap!Cardinality, Cardinality
  <2> QED
    BY <2>1, <2>2 DEF PayloadOverlap!OnePublisher
<1> QED
  BY <1>1, <1>2

-----------------------------------------------------------------------------
(* The module *)

\* The invariant: what the processes of the script that runs know.
StagingSafe ==
  /\ script = "linux" => LinuxSafe
  /\ script = "mac" => MacSafe
  /\ script = "windows" => WindowsSafe
  /\ script \in {"ios", "iosOverlap"} => IosSafe
  /\ script = "ios" => IosTidy
  /\ script = "payload" => PayloadSafe(SingleRuns)
  /\ script = "payloadOverlap" => PayloadSafe(Runs)

\* A step that changes nothing keeps all of it.
LEMMA StutterSafe == StagingSafe /\ UNCHANGED vars => StagingSafe'
<1> SUFFICES ASSUME StagingSafe, UNCHANGED vars
             PROVE  StagingSafe'
  OBVIOUS
<1> USE DEF vars, ofInstall, ofPayload
<1>0. \A S : (Shape(S) => Shape(S)') /\ (Turns(S) => Turns(S)')
  BY DEF Shape, Turns, Active
<1>1. LinuxSafe => LinuxSafe'
  <2>1. \A r : LinuxWork(r) => LinuxWork(r)'
    BY DEF LinuxWork, Active, Current, Exact, Selection, Main, LinuxSound
  <2>2. LinuxReport => LinuxReport'
    BY DEF LinuxReport, Current, Exact, Selection, Main, LinuxSound
  <2> QED
    BY <1>0, <2>1, <2>2 DEF LinuxSafe
<1>2. MacSafe => MacSafe'
  <2>1. \A r : MacWork(r) => MacWork(r)'
    BY DEF MacWork, Active, Current, Exact, Selection, Main, MacSound
  <2>2. MacReport => MacReport'
    BY DEF MacReport, Current, Exact, Selection, Main, MacSound
  <2> QED
    BY <1>0, <2>1, <2>2 DEF MacSafe
<1>3. WindowsSafe => WindowsSafe'
  <2>1. (\A r : WindowsWork(r) => WindowsWork(r)') /\ (WindowsReport => WindowsReport')
    BY DEF WindowsWork, WindowsReport, Active, Selection, Main
  <2> QED
    BY <1>0, <2>1 DEF WindowsSafe
<1>4. IosSafe => IosSafe'
  BY ZenonT(60) DEF IosSafe, IosWork, IosOutput, Whole, IosSound, Bundle, Main
<1>5. IosTidy => IosTidy'
  BY DEF IosTidy, Active
<1>6. ASSUME NEW S, PayloadSafe(S)
      PROVE  PayloadSafe(S)'
  <2>1. \A t, payload : Good(t, payload)' <=> Good(t, payload)
    BY DEF Good, Same, Reviewed, Payload!StagingOf
  <2>2. \A r \in S : PackageWork(r)'
    BY <1>6, <2>1 DEF PayloadSafe, PackageWork, Same, Reviewed, First, Payload!StagingOf, Payload!Current
  <2>3. OutputWork(S)'
    BY <1>6, <2>1 DEF PayloadSafe, OutputWork, First
  <2>4. (\A t \in Payload!Jobs : JobWork(t)') /\ (\A t \in Payload!Posix : PosixWork(t)')
    BY <1>6 DEF PayloadSafe, JobWork, PosixWork
  <2>5. PayloadShape(S)' /\ ArchivedJobWork' /\ ArchiveWork' /\ ExtractionWork'
    BY <1>6 DEF PayloadSafe, PayloadShape, ArchivedJobWork, ArchiveWork, ExtractionWork, Candidate, Listed
  <2> QED
    BY <2>2, <2>3, <2>4, <2>5 DEF PayloadSafe
<1> QED
  BY <1>1, <1>2, <1>3, <1>4, <1>5, <1>6 DEF StagingSafe

\* Every staging script and the packaging keep what their processes know, from any
\* of their inputs, for any number of runs, kills and changed inputs.
THEOREM StagingsAreSafe == Spec => []StagingSafe
<1>1. Init => StagingSafe
  BY LinuxInit, MacInit, WindowsInit, IosStarts, IosTidyStarts, PayloadStarts, OverlapStarts
     DEF Init, StagingSafe
<1>2. StagingSafe /\ [Next]_vars => StagingSafe'
  <2> SUFFICES ASSUME StagingSafe, [Next]_vars
               PROVE  StagingSafe'
    OBVIOUS
  <2>1. CASE StageLinux
    BY <2>1, LinuxNextSafe DEF StageLinux, StagingSafe
  <2>2. CASE StageMac
    BY <2>2, MacNextSafe DEF StageMac, StagingSafe
  <2>3. CASE StageWindows
    BY <2>3, WindowsNextSafe DEF StageWindows, StagingSafe
  <2>4. CASE StageIos
    BY <2>4, IosNextSafe DEF StageIos, StagingSafe
  <2>5. CASE StageIosOverlap
    BY <2>5, IosOverlapNextSafe DEF StageIosOverlap, StagingSafe
  <2>6. CASE PackagePayload
    BY <2>6, PayloadNextSafe DEF PackagePayload, StagingSafe
  <2>7. CASE PackageOverlap
    BY <2>7, OverlapNextSafe DEF PackageOverlap, StagingSafe
  <2>8. CASE UNCHANGED vars
    BY <2>8, StutterSafe
  <2> QED
    BY <2>1, <2>2, <2>3, <2>4, <2>5, <2>6, <2>7, <2>8 DEF Next
<1> QED
  BY <1>1, <1>2, PTL DEF Spec

\* What a staging script has reported or published loads, and what was packaged is
\* whole: no tool that fails, refused or killed run, or change of an input between
\* two steps gets a file past the audits, or a target past the packager.
THEOREM ReportedRuntimesLoad == Spec => []ReportedRuntimeLoads
<1>1. StagingSafe => ReportedRuntimeLoads
  BY LinuxProperties, MacProperties, IosProperties, PayloadProperties, OverlapProperties
     DEF StagingSafe, ReportedRuntimeLoads
<1> QED
  BY <1>1, StagingsAreSafe, PTL

\* A report is true of the files beside it when it is read, whatever was left there
\* by the runs before; and an inventory and a payload are closed, as they were
\* reported, and approved.
THEOREM ReportsAreTrue == Spec => []ReportIsTrue
<1>1. StagingSafe => ReportIsTrue
  BY LinuxProperties, MacProperties, WindowsProperties, PayloadProperties
     DEF StagingSafe, ReportIsTrue
<1> QED
  BY <1>1, StagingsAreSafe, PTL

\* The plugin cache of a reported runtime is of the plugins as the tools left them.
THEOREM CachesAreCurrent == Spec => []CacheIsCurrent
<1>1. StagingSafe => CacheIsCurrent
  BY LinuxProperties, MacProperties DEF StagingSafe, CacheIsCurrent
<1> QED
  BY <1>1, StagingsAreSafe, PTL

\* An iOS staging that fails leaves nothing behind, and of the runs that find an
\* output free one publishes it.
THEOREM StagingsEndCleanly == Spec => []EndsCleanly
<1>1. StagingSafe => EndsCleanly
  BY IosProperties, IosTidyProperties, OverlapProperties DEF StagingSafe, EndsCleanly
<1> QED
  BY <1>1, StagingsAreSafe, PTL
=============================================================================
