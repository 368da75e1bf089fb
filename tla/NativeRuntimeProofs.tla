------------------------- MODULE NativeRuntimeProofs -------------------------
(***************************************************************************)
(* Proofs about the parts of the native runtime.  For any finite set of    *)
(* notifying threads the event sink's count is exact, its reference        *)
(* outlives every call through it, and no wake-up of disable_and_release() *)
(* is lost.  For any windows and any number of calls the Android player    *)
(* keeps its windows and its intent.  For a pool of any size, any targets  *)
(* and any number of frames no surface is drawn into that somebody still   *)
(* has or reads.  And what is proved of each other part in a module of its *)
(* own holds of it in MCNativeRuntime.                                     *)
(***************************************************************************)
EXTENDS MCNativeRuntime, Integers, FiniteSetTheorems, TLAPS

\* Who holds active_mutex_: the releasing thread around its predicate, a
\* callback while it notifies.
MutexOK ==
  /\ \A t \in Callbacks : pc[t] = "notify" => mutex = t
  /\ pc[Releaser] \in {"test", "wait", "delete"} => mutex = Releaser

\* The two sides of the handshake: the releasing thread has closed the gate,
\* and once it has seen a count of zero no callback is behind the gate.
GateOK ==
  /\ pc[Releaser] # "idle" => ~enabled
  /\ pc[Releaser] \in {"delete", "released"} => \A t \in Callbacks : pc[t] # "invoke"
  /\ pc[Releaser] # "released" => object

\* A count that is zero when the releasing thread sleeps, or is about to, is
\* known to a callback that still has to notify.
WakeupOK ==
  pc[Releaser] \in {"wait", "waiting"} /\ active = 0 =>
    \E t \in Callbacks : pc[t] \in {"lock", "notify"}

IInv == TypeOK /\ CountExact /\ MutexOK /\ GateOK /\ WakeupOK

-----------------------------------------------------------------------------
\* The initial state satisfies the invariant: nobody is counted.
LEMMA InitIInv == Init => IInv
<1> SUFFICES ASSUME Init PROVE IInv
  OBVIOUS
<1> USE SinkAssumption DEF Init, Threads
<1>1. Counted = {}
  BY DEF Counted
<1>2. CountExact
  BY <1>1, FS_EmptySet DEF CountExact
<1>3. TypeOK
  BY DEF TypeOK, CallbackPC, ReleaserPC
<1>4. MutexOK /\ GateOK /\ WakeupOK
  BY DEF MutexOK, GateOK, WakeupOK
<1> QED
  BY <1>2, <1>3, <1>4 DEF IInv

\* The counted callbacks are finitely many, and zero of them means none.
LEMMA CountedFinite == IsFiniteSet(Counted) /\ Cardinality(Counted) \in Nat
                       /\ (Cardinality(Counted) = 0 => Counted = {})
<1>1. Counted \subseteq Callbacks
  BY DEF Counted
<1>2. IsFiniteSet(Counted)
  BY <1>1, FS_Subset, SinkAssumption
<1> QED
  BY <1>2, FS_CardinalityType, FS_EmptySet

\* A step that counts no callback in and none out keeps the count exact.
LEMMA CountKept ==
  ASSUME CountExact, active' = active, Counted' = Counted
  PROVE  CountExact'
BY DEF CountExact

\* fetch_add: one more callback is counted.
LEMMA CountedIn ==
  ASSUME TypeOK, CountExact, NEW t \in Callbacks, Count(t)
  PROVE  CountExact'
<1>1. t \notin Counted
  BY DEF Counted, Count, Goto
<1>2. Counted' = Counted \cup {t}
  BY DEF Counted, Count, Goto, TypeOK, Threads
<1>3. Cardinality(Counted \cup {t}) = Cardinality(Counted) + 1
  BY <1>1, CountedFinite, FS_AddElement
<1> QED
  BY <1>2, <1>3 DEF CountExact, Count

\* fetch_sub: one less.
LEMMA CountedOut ==
  ASSUME TypeOK, CountExact, NEW t \in Callbacks, Finish(t)
  PROVE  CountExact' /\ active >= 1
<1>1. t \in Counted
  BY DEF Counted, Finish, Goto
<1>2. Counted' = Counted \ {t}
  BY DEF Counted, Finish, Goto, TypeOK, Threads
<1>3. Cardinality(Counted \ {t}) = Cardinality(Counted) - 1
  BY <1>1, CountedFinite, FS_RemoveElement
<1>4. Cardinality(Counted) # 0
  BY <1>1, CountedFinite
<1> QED
  BY <1>2, <1>3, <1>4, CountedFinite DEF CountExact, Finish

-----------------------------------------------------------------------------
\* Every step of every thread keeps the invariant.
LEMMA IInvStep == IInv /\ [Next]_vars => IInv'
<1> SUFFICES ASSUME IInv, [Next]_vars PROVE IInv'
  OBVIOUS
<1> USE SinkAssumption DEF IInv, Threads, Goto
<1>1. ASSUME NEW t \in Callbacks, CheckEnabled(t) PROVE IInv'
  <2>1. Counted' = Counted
    BY <1>1 DEF CheckEnabled, Counted, TypeOK
  <2>2. CountExact'
    BY <1>1, <2>1, CountKept DEF CheckEnabled
  <2>3. TypeOK'
    BY <1>1 DEF CheckEnabled, TypeOK, CallbackPC, ReleaserPC
  <2> QED
    BY <1>1, <2>2, <2>3 DEF CheckEnabled, TypeOK, MutexOK, GateOK, WakeupOK
<1>2. ASSUME NEW t \in Callbacks, Count(t) PROVE IInv'
  <2>1. CountExact'
    BY <1>2, CountedIn
  <2>2. TypeOK'
    BY <1>2 DEF Count, TypeOK, CallbackPC, ReleaserPC
  <2> QED
    BY <1>2, <2>1, <2>2 DEF Count, TypeOK, MutexOK, GateOK, WakeupOK
<1>3. ASSUME NEW t \in Callbacks, Recheck(t) PROVE IInv'
  <2>1. Counted' = Counted
    BY <1>3 DEF Recheck, Counted, TypeOK
  <2>2. CountExact'
    BY <1>3, <2>1, CountKept DEF Recheck
  <2>3. TypeOK'
    BY <1>3 DEF Recheck, TypeOK, CallbackPC, ReleaserPC
  <2> QED
    BY <1>3, <2>2, <2>3 DEF Recheck, TypeOK, MutexOK, GateOK, WakeupOK
<1>4. ASSUME NEW t \in Callbacks, Invoke(t) PROVE IInv'
  <2>1. Counted' = Counted
    BY <1>4 DEF Invoke, Counted, TypeOK
  <2>2. CountExact'
    BY <1>4, <2>1, CountKept DEF Invoke
  <2>3. TypeOK'
    BY <1>4 DEF Invoke, TypeOK, CallbackPC, ReleaserPC
  <2> QED
    BY <1>4, <2>2, <2>3 DEF Invoke, TypeOK, MutexOK, GateOK, WakeupOK
<1>5. ASSUME NEW t \in Callbacks, Finish(t) PROVE IInv'
  <2>1. CountExact' /\ active >= 1
    BY <1>5, CountedOut
  <2>2. TypeOK'
    BY <1>5, <2>1 DEF Finish, TypeOK, CallbackPC, ReleaserPC
  <2>3. MutexOK' /\ GateOK'
    BY <1>5, <2>1 DEF Finish, TypeOK, MutexOK, GateOK
  <2>4. WakeupOK'
    <3>1. CASE active = 1
      BY <1>5, <3>1 DEF Finish, TypeOK, WakeupOK
    <3>2. CASE active # 1
      BY <1>5, <2>1, <3>2 DEF Finish, TypeOK, WakeupOK
    <3> QED
      BY <3>1, <3>2
  <2> QED
    BY <2>1, <2>2, <2>3, <2>4
<1>6. ASSUME NEW t \in Callbacks, LockToNotify(t) PROVE IInv'
  <2>1. Counted' = Counted
    BY <1>6 DEF LockToNotify, Counted, TypeOK
  <2>2. CountExact'
    BY <1>6, <2>1, CountKept DEF LockToNotify
  <2>3. TypeOK'
    BY <1>6 DEF LockToNotify, TypeOK, CallbackPC, ReleaserPC
  <2> QED
    BY <1>6, <2>2, <2>3 DEF LockToNotify, TypeOK, MutexOK, GateOK, WakeupOK
<1>7. ASSUME NEW t \in Callbacks, Notify(t) PROVE IInv'
  <2>1. Counted' = Counted
    BY <1>7 DEF Notify, Counted, TypeOK
  <2>2. CountExact'
    BY <1>7, <2>1, CountKept DEF Notify
  <2>3. TypeOK'
    BY <1>7 DEF Notify, TypeOK, CallbackPC, ReleaserPC
  <2>4. mutex = t /\ pc[Releaser] \notin {"test", "wait", "delete"}
    BY <1>7 DEF Notify, MutexOK
  <2> QED
    BY <1>7, <2>2, <2>3, <2>4 DEF Notify, TypeOK, MutexOK, GateOK, WakeupOK
<1>8. ASSUME Disable \/ Lock \/ Wait \/ WakeSpuriously \/ Delete PROVE IInv'
  <2>1. Counted' = Counted /\ active' = active
    BY <1>8 DEF Disable, Lock, Wait, WakeSpuriously, Delete, Counted, TypeOK
  <2>2. CountExact'
    BY <2>1, CountKept
  <2>3. TypeOK'
    BY <1>8 DEF Disable, Lock, Wait, WakeSpuriously, Delete, TypeOK, CallbackPC, ReleaserPC
  <2>4. MutexOK'
    BY <1>8 DEF Disable, Lock, Wait, WakeSpuriously, Delete, TypeOK, MutexOK
  <2>5. GateOK' /\ WakeupOK'
    BY <1>8 DEF Disable, Lock, Wait, WakeSpuriously, Delete, TypeOK, GateOK, WakeupOK
  <2> QED
    BY <2>2, <2>3, <2>4, <2>5
<1>9. ASSUME Test PROVE IInv'
  <2>1. Counted' = Counted
    BY <1>9 DEF Test, Counted, TypeOK
  <2>2. CountExact'
    BY <1>9, <2>1, CountKept DEF Test
  <2>3. TypeOK'
    BY <1>9 DEF Test, TypeOK, CallbackPC, ReleaserPC
  <2>4. MutexOK' /\ WakeupOK'
    BY <1>9 DEF Test, TypeOK, MutexOK, WakeupOK
  <2>5. active = 0 => \A t \in Callbacks : pc[t] # "invoke"
    BY CountedFinite DEF CountExact, Counted
  <2>6. GateOK'
    BY <1>9, <2>5 DEF Test, TypeOK, GateOK
  <2> QED
    BY <2>2, <2>3, <2>4, <2>6
<1>10. CASE UNCHANGED vars
  BY <1>10 DEF vars, TypeOK, CountExact, Counted, MutexOK, GateOK, WakeupOK
<1> QED
  BY <1>1, <1>2, <1>3, <1>4, <1>5, <1>6, <1>7, <1>8, <1>9, <1>10
     DEF Next, CallbackStep, ReleaserStep

\* The handshake between the gate, the count and the condition variable is an
\* invariant of the sink.
THEOREM Handshake == Spec => []IInv
  BY InitIInv, IInvStep, PTL DEF Spec

-----------------------------------------------------------------------------
\* The variables keep their types: the unsigned count never goes below zero.
THEOREM TypeCorrect == Spec => []TypeOK
<1>1. IInv => TypeOK
  BY DEF IInv
<1> QED
  BY Handshake, <1>1, PTL

\* active_callbacks_ is the number of threads between fetch_add and fetch_sub.
THEOREM CountIsExact == Spec => []CountExact
<1>1. IInv => CountExact
  BY DEF IInv
<1> QED
  BY Handshake, <1>1, PTL

\* No callback calls through the global reference once it has been deleted.
THEOREM ReferenceIsAlive == Spec => []ReferenceOutlivesCalls
<1>1. IInv => ReferenceOutlivesCalls
  BY DEF IInv, GateOK, ReferenceOutlivesCalls
<1> QED
  BY Handshake, <1>1, PTL

\* disable_and_release() never sleeps with nobody left to wake it.
THEOREM WakeupIsNotLost == Spec => []NoWakeupLost
<1>1. IInv => NoWakeupLost
  BY DEF IInv, WakeupOK, NoWakeupLost
<1> QED
  BY Handshake, <1>1, PTL

-----------------------------------------------------------------------------
(* The Android player: its windows *)

ReferencesCounted == references \in [Windows -> Int]
\* Surfaces are put aside only while a replacement is under way.
PutAside == step = "idle" => previous = <<>>
WInv == ReferencesCounted /\ PutAside /\ Android!WindowsBalanced

\* No window is in an empty pair.
LEMMA EmptyHolds ==
  /\ \A w \in Windows : Android!Holds(<<>>)[w] = 0
  /\ \A pair : \A w \in Windows : Android!Holds(pair)[w] \in {0, 1}
BY DEF Android!Holds, Android!InPair

\* At first no window is held.
LEMMA WindowsInit == Android!Init => WInv
<1> SUFFICES ASSUME Android!Init
             PROVE  WInv
  OBVIOUS
<1>1. references = [w \in Windows |-> 0]
  BY DEF Android!Init
<1>2. surfaces = <<>> /\ previous = <<>> /\ binding = <<>>
  BY DEF Android!Init
<1>3. Android!WindowsBalanced
  BY <1>1, <1>2, EmptyHolds DEF Android!WindowsBalanced
<1> QED
  BY <1>1, <1>2, <1>3 DEF WInv, ReferencesCounted, PutAside

\* Who takes, exchanges and gives back the windows, one step after the other.
LEMMA WindowsStep ==
  ASSUME WInv, [Android!Next]_(Android!vars)
  PROVE  WInv'
<1> DEFINE S(w) == Android!Holds(surfaces)[w]
           P(w) == Android!Holds(previous)[w]
           B(w) == Android!Holds(binding)[w]
           After(w) == Android!Holds(surfaces')[w] + Android!Holds(previous')[w]
                       + Android!Holds(binding')[w]
<1>1. /\ \A w \in Windows : S(w) \in Int /\ P(w) \in Int /\ B(w) \in Int
      /\ \A w \in Windows : Android!Holds(<<>>)[w] = 0
      /\ \A w \in Windows : references[w] = S(w) + P(w) + B(w)
  BY EmptyHolds DEF WInv, Android!WindowsBalanced
<1>2. SUFFICES /\ references' = [w \in Windows |-> references'[w]]
               /\ \A w \in Windows : references'[w] = After(w)
               /\ PutAside'
  <2>1. \A w \in Windows : After(w) \in Int
    BY EmptyHolds
  <2>2. Android!WindowsBalanced'
    BY <1>2 DEF Android!WindowsBalanced
  <2>3. ReferencesCounted'
    BY <1>2, <2>1 DEF ReferencesCounted
  <2> QED
    BY <1>2, <2>2, <2>3 DEF WInv
<1>3. references = [w \in Windows |-> references[w]] /\ (step = "idle" => previous = <<>>)
  BY DEF WInv, Android!WindowsBalanced, PutAside
<1> USE DEF PutAside
<1>4. ASSUME NEW pair \in Attachments \cup {<<>>}, Android!Replace(pair)
      PROVE  /\ references' = [w \in Windows |-> references'[w]]
             /\ \A w \in Windows : references'[w] = After(w)
             /\ PutAside'
  <2>1. previous = <<>> /\ binding' = binding
    BY <1>3, <1>4 DEF Android!Replace, Android!Call, Android!windows
  <2>2. CASE pair = surfaces
    BY <1>1, <1>3, <1>4, <2>2 DEF Android!Replace, Android!windows
  <2>3. CASE pair # surfaces
    <3>1. /\ surfaces' = pair /\ previous' = surfaces
          /\ references' = [w \in Windows |-> references[w] + Android!Holds(pair)[w]]
          /\ step' # "idle"
      BY <1>4, <2>3 DEF Android!Replace, Android!Plus
    <3>2. \A w \in Windows : Android!Holds(pair)[w] \in Int
      BY EmptyHolds
    <3> QED
      BY <1>1, <2>1, <3>1, <3>2
  <2> QED
    BY <2>2, <2>3
<1>5. CASE Android!ReleaseMediaPlayer \/ Android!CloseOutput
  <2>1. /\ surfaces' = surfaces /\ previous' = previous /\ binding' = <<>>
        /\ references' = [w \in Windows |-> references[w] - B(w)]
        /\ step' = "idle" => step = "idle"
    BY <1>5 DEF Android!ReleaseMediaPlayer, Android!CloseOutput, Android!Minus
  <2> QED
    BY <1>1, <1>3, <2>1
<1>6. CASE Android!Settle
  <2>1. /\ surfaces' = surfaces /\ previous' = <<>> /\ binding' = binding
        /\ references' = [w \in Windows |-> references[w] - P(w)]
    BY <1>6 DEF Android!Settle, Android!Minus
  <2> QED
    BY <1>1, <2>1
<1>7. CASE Android!Undo
  <2>1. /\ surfaces' = previous /\ previous' = <<>> /\ binding' = binding
        /\ references' = [w \in Windows |-> references[w] - S(w)]
    BY <1>7 DEF Android!Undo, Android!Minus
  <2> QED
    BY <1>1, <2>1
<1>8. CASE Android!Setup
  <2>1. /\ surfaces' = surfaces /\ previous' = previous /\ binding' = surfaces /\ binding = <<>>
        /\ references' = [w \in Windows |-> references[w] + S(w)] /\ step' = step
    BY <1>8 DEF Android!Setup, Android!Plus
  <2> QED
    BY <1>1, <1>3, <2>1
<1>9. CASE Android!Destroy
  <2>1. /\ surfaces' = <<>> /\ previous' = previous /\ previous = <<>> /\ binding' = <<>>
        /\ references' = [w \in Windows |-> references[w] - S(w) - B(w)]
    BY <1>3, <1>9 DEF Android!Destroy
  <2>2. \A w \in Windows : P(w) = 0 /\ After(w) = 0
    BY <1>1, <2>1
  <2>3. \A w \in Windows : references[w] - S(w) - B(w) = 0
    BY <1>1, <2>2
  <2> QED
    BY <2>1, <2>2, <2>3
<1>10. CASE \/ Android!NoteTransport \/ Android!Recreate
            \/ \E autoplay \in BOOLEAN : Android!Open(autoplay)
            \/ Android!Play \/ Android!Pause \/ Android!Stop \/ Android!Snapshot
            \/ Android!Advance \/ Android!Report \/ UNCHANGED Android!vars
  <2>1. UNCHANGED <<surfaces, previous, binding, references>> /\ (step' = "idle" => step = "idle")
    BY <1>10 DEF Android!NoteTransport, Android!Recreate, Android!Open, Android!Play,
                 Android!Pause, Android!Stop, Android!Snapshot, Android!Advance, Android!Report, Android!vars, Android!windows
  <2> QED
    BY <1>1, <1>3, <2>1
<1> QED
  BY <1>4, <1>5, <1>6, <1>7, <1>8, <1>9, <1>10 DEF Android!Next

\* Every window has the references its users have taken, and after destroy none
\* (replace_surfaces, setup_anw, cleanup_anw, destroy).
THEOREM WindowsAreBalanced == Android!Spec => []Android!WindowsBalanced
<1>1. WInv /\ [Android!Next]_(Android!vars) => WInv'
  BY WindowsStep
<1>2. WInv => Android!WindowsBalanced
  BY DEF WInv
<1> QED
  BY WindowsInit, <1>1, <1>2, PTL DEF Android!Spec

-----------------------------------------------------------------------------
(* The Android player: the intent *)

\* A paused player's input is not on its way to play, unless its pause is carried over,
\* or it is about to be released and not to be played again.
PauseKept ==
  intent = "paused" =>
    input \notin {"opening", "playing"} \/ pausing \/ (step = "release" /\ ~resumes)
\* What was noted of the old media player holds until the new one is made.
Noted ==
  resumes =>
    step \in {"release", "create"} /\ intent # "stopped" /\ (intent = "paused" => pausing)
\* Between the old media player and the new one nothing happens to the input.
Between == step = "create" => ~alive /\ input = "none"
IntentInv == PauseKept /\ Noted /\ Between

\* A media player made for new surfaces is started only if that was noted, and then the
\* player was not stopped, nor had its media ended.
StartsAsMeant ==
  /\ step = "create" /\ input' \in {"opening", "paused"} => resumes /\ intent # "stopped"
  /\ ~resumes /\ resumes' => state # "ended"

\* At first there is no media player.
LEMMA IntentInit == Android!Init => IntentInv
BY DEF Android!Init, IntentInv, PauseKept, Noted, Between

\* What each call, replacement and thread of libVLC does with intent and input.
LEMMA IntentStep ==
  ASSUME IntentInv, [Android!Next]_(Android!vars)
  PROVE  IntentInv' /\ StartsAsMeant
<1> USE DEF IntentInv, PauseKept, Noted, Between, StartsAsMeant, Android!transport,
            Android!windows, Android!Call
<1>1. ASSUME NEW pair \in Attachments \cup {<<>>}, Android!Replace(pair)
      PROVE  IntentInv' /\ StartsAsMeant
  BY <1>1 DEF Android!Replace
<1>2. CASE Android!NoteTransport
  <2>1. /\ step' = "release" /\ intent' = intent /\ step # "create"
        /\ resumes' = Android!Resumes
        /\ pausing' = (Android!Resumes /\ intent = "paused")
    BY <1>2 DEF Android!NoteTransport
  <2>2. CASE Android!Resumes
    <3>1. resumes' /\ (intent = "paused" => pausing')
      BY <2>1, <2>2, Zenon
    <3>2. intent # "stopped" /\ state # "ended"
      BY <2>2 DEF Android!Resumes
    <3> QED
      BY <2>1, <3>1, <3>2
  <2>3. CASE ~Android!Resumes
    <3>1. ~resumes'
      BY <2>1, <2>3, Zenon
    <3> QED
      BY <2>1, <3>1
  <2> QED
    BY <2>2, <2>3
<1>3. CASE Android!Recreate
  BY <1>3 DEF Android!Recreate
<1>4. CASE Android!Settle \/ Android!Undo
  BY <1>4 DEF Android!Settle, Android!Undo
<1>5. ASSUME NEW autoplay \in BOOLEAN, Android!Open(autoplay)
      PROVE  IntentInv' /\ StartsAsMeant
  BY <1>5 DEF Android!Open
<1>6. CASE Android!Play \/ Android!Stop
  BY <1>6 DEF Android!Play, Android!Stop
<1>7. CASE Android!Pause \/ Android!Snapshot
  BY <1>7 DEF Android!Pause, Android!Snapshot, Android!ApplyPendingPause, Android!Paused,
              Android!CanPause
<1>8. CASE Android!Destroy
  BY <1>8 DEF Android!Destroy
<1>9. CASE Android!Setup \/ Android!CloseOutput
  BY <1>9 DEF Android!Setup, Android!CloseOutput
<1>10. CASE Android!Advance \/ Android!Report
  BY <1>10 DEF Android!Advance, Android!Report, Android!Running
<1>11. CASE UNCHANGED Android!vars
  BY <1>11 DEF Android!vars
<1>12. CASE Android!ReleaseMediaPlayer
  BY <1>12 DEF Android!ReleaseMediaPlayer
<1> HIDE DEF IntentInv, StartsAsMeant
<1> QED
  BY <1>1, <1>2, <1>3, <1>4, <1>5, <1>6, <1>7, <1>8, <1>9, <1>10, <1>11, <1>12
     DEF Android!Next

\* A paused player does not play on in the media player made for its new surfaces, and
\* one that was stopped, or had ended when the transport was noted, is not started in it
\* (recreate_media_player).
THEOREM IntentSurvives ==
  Android!Spec => []Android!PausedStaysPaused /\ Android!ReplacementRestartsNothing
<1>1. IntentInv /\ [Android!Next]_(Android!vars) => IntentInv' /\ [StartsAsMeant]_(Android!vars)
  BY IntentStep
<1>2. IntentInv => Android!PausedStaysPaused
  BY DEF IntentInv, PauseKept, Android!PausedStaysPaused
<1>3. [StartsAsMeant]_(Android!vars) =>
        [/\ step = "create" /\ input' \in {"opening", "paused"} => resumes /\ intent # "stopped"
         /\ ~resumes /\ resumes' => state # "ended"]_(Android!vars)
  BY DEF StartsAsMeant
<1> QED
  BY IntentInit, <1>1, <1>2, <1>3, PTL DEF Android!Spec, Android!ReplacementRestartsNothing

-----------------------------------------------------------------------------
(* The pool of surfaces *)

\* What the targets and the two numbers are; the constants have no other assumption.
PoolKinds == [on : BOOLEAN, node : STRING, size : Nat, releaseFences : BOOLEAN]
PoolAssumption ==
  /\ Targets \in Seq(PoolKinds)
  /\ SurfaceCount \in Nat \ {0}
  /\ MaxSurfaces \in Nat

Generations == 1..Len(Targets)
PoolSurfaces == [size : Nat, generation : 0..Len(Targets), fence : BOOLEAN, required : BOOLEAN,
             retired : BOOLEAN, reading : BOOLEAN]

Held == {f.surface : f \in acquired}
InFrames == {f.surface : f \in Pool!Frames}

PoolTypes ==
  /\ generation \in 0..Len(Targets) /\ previous \in 0..Len(Targets)
  /\ slots \in Seq(Pool!Ids)
  /\ surface \in [Pool!Ids -> PoolSurfaces]
  /\ current \in Pool!Ids \cup {0}

\* A consumer that may still read has the surface in a frame, has left a fence, or
\* has lost the surface for good.
Guarded(table) ==
  \A s \in Pool!Ids : table[s].reading => s \in Held \/ table[s].fence \/ table[s].retired
ReadersGuarded == Guarded(surface)

\* What was claimed for a target has its size and is nobody else's.
Claim(record) ==
  /\ ~record.reading
  /\ record.generation \in Generations
  /\ record.size = Targets[record.generation].size
Drawing == current # 0 => current \notin InFrames /\ Claim(surface[current])

FramesKnown ==
  \A f \in Pool!Frames :
    f.surface \in Pool!Ids /\ f.generation \in Generations /\ f.size = Targets[f.generation].size

PoolInv == PoolAssumption /\ PoolTypes /\ ReadersGuarded /\ Drawing /\ FramesKnown

\* What Keep() leaves of a table is as well guarded, and the bound surface is kept.
LEMMA Kept ==
  ASSUME NEW table \in [Pool!Ids -> PoolSurfaces], Pool!Keep(table), Guarded(table), acquired' = acquired,
         current' \in Pool!Ids \cup {0}, PoolAssumption
  PROVE  /\ surface' \in [Pool!Ids -> PoolSurfaces]
         /\ ReadersGuarded'
         /\ current' # 0 => surface'[current'] = table[current']
<1>1. Pool!NewSurface(0) \in PoolSurfaces /\ ~Pool!NewSurface(0).reading
  <2>1. 0 \in 0..Len(Targets)
    BY DEF PoolAssumption
  <2> QED
    BY <2>1 DEF Pool!NewSurface, PoolSurfaces
<1>2. surface' = [s \in Pool!Ids |-> IF s \in Pool!Alive' THEN table[s] ELSE Pool!NewSurface(0)]
  BY DEF Pool!Keep
<1>3. current' \in Pool!Alive'
  BY DEF Pool!Alive, Pool!Shared
<1>4. surface' \in [Pool!Ids -> PoolSurfaces]
  BY <1>1, <1>2
<1>5. Held' = Held
  BY DEF Held
<1>6. ReadersGuarded'
  BY <1>1, <1>2, <1>5 DEF ReadersGuarded, Guarded
<1> QED
  BY <1>2, <1>3, <1>4, <1>6

\* A step that keeps what is left of a guarded table, and after which the bound
\* surface is one that was claimed and is in no frame, keeps the invariant.
LEMMA KeptInv ==
  ASSUME PoolInv, NEW table \in [Pool!Ids -> PoolSurfaces], Pool!Keep(table), Guarded(table),
         acquired' = acquired,
         generation' = generation, previous' \in 0..Len(Targets), slots' \in Seq(Pool!Ids), FramesKnown',
         current' \in Pool!Ids \cup {0},
         current' # 0 => current' \notin InFrames' /\ Claim(table[current'])
  PROVE  PoolInv'
<1> USE DEF PoolInv
<1>1. surface' \in [Pool!Ids -> PoolSurfaces] /\ ReadersGuarded' /\
      (current' # 0 => surface'[current'] = table[current'])
  BY Kept
<1>2. PoolTypes'
  BY <1>1 DEF PoolTypes, Pool!Ids
<1>3. Drawing'
  <2> SUFFICES ASSUME current' # 0
               PROVE  current' \notin InFrames' /\ Claim(surface'[current'])
    BY DEF Drawing, Claim, Generations
  <2> QED
    BY <1>1
<1> QED
  BY <1>1, <1>2, <1>3 DEF PoolAssumption

\* The target there is.
LEMMA TargetIsKnown ==
  ASSUME PoolInv, generation # 0
  PROVE  /\ generation \in Generations
         /\ Pool!Target.size \in Nat /\ Pool!Target.releaseFences \in BOOLEAN
<1>1. generation \in Generations
  BY DEF PoolInv, PoolTypes, PoolAssumption, Generations
<1>2. Pool!Target \in PoolKinds
  BY <1>1 DEF Pool!Target, Generations, PoolInv, PoolAssumption
<1>3. Pool!Target.size \in Nat /\ Pool!Target.releaseFences \in BOOLEAN
  BY <1>2 DEF PoolKinds
<1> QED
  BY <1>1, <1>3

\* What a target asks of the surface it is given.
LEMMA ClaimedIsClaim ==
  ASSUME PoolInv, generation # 0, NEW record \in PoolSurfaces, ~record.reading,
         record.size = Pool!Target.size
  PROVE  Pool!Claimed(record) \in PoolSurfaces /\ Claim(Pool!Claimed(record))
<1>1. generation \in Generations /\ Pool!Target.releaseFences \in BOOLEAN
  BY TargetIsKnown
<1>2. generation \in 0..Len(Targets)
  BY DEF PoolInv, PoolTypes
<1>3. Pool!Claimed(record) \in PoolSurfaces
  BY <1>1, <1>2 DEF Pool!Claimed, PoolSurfaces
<1> QED
  BY <1>1, <1>3 DEF Pool!Claimed, Claim, Pool!Target, PoolSurfaces

\* A surface the consumer's last reader has finished with, or nobody knows about.
LEMMA WaitedIsGuarded ==
  ASSUME PoolInv, NEW s \in Pool!Ids, NEW spoilt \in BOOLEAN, surface[s].retired => spoilt
  PROVE  /\ Pool!Waited(s, spoilt) \in PoolSurfaces
         /\ Pool!Waited(s, spoilt).size = surface[s].size
         /\ Pool!Waited(s, spoilt).reading =>
              s \in Held \/ Pool!Waited(s, spoilt).fence \/ Pool!Waited(s, spoilt).retired
         /\ s \notin Held /\ ~spoilt => ~Pool!Waited(s, spoilt).reading
<1>1. surface[s] \in PoolSurfaces
  BY DEF PoolInv, PoolTypes
<1>2. surface[s].reading => s \in Held \/ surface[s].fence \/ surface[s].retired
  BY DEF PoolInv, ReadersGuarded, Guarded
<1> QED
  BY <1>1, <1>2 DEF Pool!Waited, PoolSurfaces

\* A surface that is new is not among those in use.
LEMMA FreshIsFree ==
  ASSUME PoolInv, NEW n \in Nat \ {0}, NEW new \in Pool!Fresh(n)
  PROVE  /\ new \in [1..n -> Pool!Ids]
         /\ new[1] \in Pool!Ids /\ new[1] \notin InFrames /\ new[1] # 0
<1>1. new \in [1..n -> Pool!Ids \ Pool!Alive]
  BY DEF Pool!Fresh
<1>2. new[1] \in Pool!Ids \ Pool!Alive
  BY <1>1
<1>3. InFrames \subseteq Pool!Alive
  BY DEF InFrames, Pool!Alive, Pool!Shared
<1>4. new[1] # 0
  BY <1>2 DEF Pool!Ids, PoolInv, PoolAssumption
<1> QED
  BY <1>1, <1>2, <1>3, <1>4

\* A surface that has just been made.
LEMMA NewIsSurface ==
  ASSUME PoolInv, NEW size \in Nat
  PROVE  /\ Pool!NewSurface(size) \in PoolSurfaces /\ ~Pool!NewSurface(size).reading
         /\ Pool!NewSurface(size).size = size
<1>1. 0 \in 0..Len(Targets)
  BY DEF PoolInv, PoolAssumption
<1> QED
  BY <1>1 DEF Pool!NewSurface, PoolSurfaces

\* A surface in use is known, and what is in a slot is a surface.
LEMMA SlotsAreSurfaces ==
  ASSUME PoolInv, NEW i \in Pool!Positions
  PROVE  slots[i] \in Pool!Ids /\ slots[i] # 0 /\ surface[slots[i]] \in PoolSurfaces
         /\ (Pool!Idle(i) => slots[i] \notin InFrames /\ slots[i] \notin Held)
<1>1. slots[i] \in Pool!Ids
  BY DEF PoolInv, PoolTypes, Pool!Positions
<1>2. slots[i] # 0
  BY <1>1 DEF Pool!Ids, PoolInv, PoolAssumption
<1>3. surface[slots[i]] \in PoolSurfaces
  BY <1>1 DEF PoolInv, PoolTypes
<1>4. Held \subseteq InFrames
  BY DEF Held, InFrames, Pool!Frames
<1> QED
  BY <1>1, <1>2, <1>3, <1>4 DEF Pool!Idle, InFrames

\* A claimed surface that nobody reads can take the place of any in a guarded table.
LEMMA ClaimedTable ==
  ASSUME PoolInv, generation # 0, NEW table \in [Pool!Ids -> PoolSurfaces], Guarded(table),
         NEW s \in Pool!Ids,
         NEW record \in PoolSurfaces, ~record.reading, record.size = Pool!Target.size
  PROVE  LET claimed == [table EXCEPT ![s] = Pool!Claimed(record)]
         IN claimed \in [Pool!Ids -> PoolSurfaces] /\ Guarded(claimed) /\ Claim(claimed[s])
<1>1. Pool!Claimed(record) \in PoolSurfaces /\ Claim(Pool!Claimed(record))
  BY ClaimedIsClaim
<1>2. ~Pool!Claimed(record).reading
  BY <1>1 DEF Claim
<1> DEFINE claimed == [table EXCEPT ![s] = Pool!Claimed(record)]
<1>3. claimed \in [Pool!Ids -> PoolSurfaces] /\ claimed[s] = Pool!Claimed(record)
      /\ \A r \in Pool!Ids : r # s => claimed[r] = table[r]
  BY <1>1
<1>4. Guarded(claimed)
  BY <1>2, <1>3 DEF Guarded
<1> QED
  BY <1>1, <1>3, <1>4

\* bind_writable_surface(), whatever the driver refuses: what it has looked at stays
\* guarded, and what it binds is idle, has been waited for, and has the target's size.
LEMMA BindKeepsInv ==
  ASSUME PoolInv, NEW failing, NEW unwaitable, Pool!Bind(failing, unwaitable),
         UNCHANGED <<Pool!output, pending, Pool!consumer>>
  PROVE  PoolInv'
<1> DEFINE Fits(i) == Pool!Idle(i) /\
                 IF Pool!Spoilt(i, unwaitable) THEN i \notin failing
                                          ELSE surface[slots[i]].size = Pool!Target.size
           fitting == {i \in Pool!Positions : Fits(i) /\ \A j \in 1..(i - 1) : ~Fits(j)}
           seen == {i \in Pool!Positions : Pool!Idle(i) /\ \A j \in fitting : i <= j}
           spoilt(s) == \E i \in seen : slots[i] = s /\ Pool!Spoilt(i, unwaitable)
           looked == [s \in Pool!Ids |-> IF \E i \in seen : slots[i] = s
                                    THEN Pool!Waited(s, \E i \in seen :
                                                               slots[i] = s /\ Pool!Spoilt(i, unwaitable))
                                    ELSE surface[s]]
<1>1. looked \in [Pool!Ids -> PoolSurfaces] /\ Guarded(looked)
  <2>1. ASSUME NEW s \in Pool!Ids
        PROVE  looked[s] \in PoolSurfaces /\
               (looked[s].reading => s \in Held \/ looked[s].fence \/ looked[s].retired)
    <3>1. CASE \E i \in seen : slots[i] = s
      <4>1. surface[s].retired => spoilt(s)
        BY <3>1 DEF Pool!Spoilt
      <4>2. spoilt(s) \in BOOLEAN
        OBVIOUS
      <4>3. looked[s] = Pool!Waited(s, spoilt(s))
        BY <3>1
      <4> HIDE DEF spoilt, looked
      <4> QED
        BY <4>1, <4>2, <4>3, WaitedIsGuarded
    <3>2. CASE ~\E i \in seen : slots[i] = s
      <4>1. looked[s] = surface[s]
        BY <3>2
      <4> HIDE DEF looked
      <4> QED
        BY <4>1 DEF PoolInv, PoolTypes, ReadersGuarded, Guarded
    <3> QED
      BY <3>1, <3>2
  <2> HIDE DEF seen
  <2>2. looked = [s \in Pool!Ids |-> looked[s]]
    OBVIOUS
  <2> HIDE DEF looked
  <2>3. looked \in [Pool!Ids -> PoolSurfaces]
    BY <2>1, <2>2
  <2> QED
    BY <2>1, <2>3 DEF Guarded
<1>2. /\ acquired' = acquired /\ generation' = generation /\ previous' \in 0..Len(Targets)
      /\ FramesKnown' /\ InFrames' = InFrames
  <2>1. Pool!Frames' = Pool!Frames /\ acquired' = acquired /\ UNCHANGED <<generation, previous>>
    BY DEF Pool!Frames, Pool!output, Pool!consumer
  <2>2. FramesKnown' /\ InFrames' = InFrames
    BY <2>1 DEF PoolInv, FramesKnown, InFrames, Generations
  <2> QED
    BY <2>1, <2>2 DEF PoolInv, PoolTypes
<1>3. CASE ~Pool!Usable \/ fitting = {}
  <2>1. current' = 0 /\ slots' = slots /\ Pool!Keep(IF Pool!Usable THEN looked ELSE surface)
    BY <1>3 DEF Pool!Bind
  <2>2. slots' \in Seq(Pool!Ids) /\ current' \in Pool!Ids \cup {0}
    BY <2>1 DEF PoolInv, PoolTypes
  <2>3. surface \in [Pool!Ids -> PoolSurfaces] /\ Guarded(surface)
    BY DEF PoolInv, PoolTypes, ReadersGuarded
  <2> HIDE DEF looked
  <2>4. CASE Pool!Usable
    BY <1>1, <1>2, <2>1, <2>2, <2>4, KeptInv
  <2>5. CASE ~Pool!Usable
    BY <1>2, <2>1, <2>2, <2>3, <2>5, KeptInv
  <2> QED
    BY <2>4, <2>5
<1>4. CASE Pool!Usable /\ fitting # {}
  <2>1. PICK i \in fitting :
          \/ /\ ~Pool!Spoilt(i, unwaitable)
             /\ current' = slots[i] /\ slots' = slots
             /\ Pool!Keep([looked EXCEPT ![slots[i]] = Pool!Claimed(looked[slots[i]])])
          \/ /\ Pool!Spoilt(i, unwaitable)
             /\ \E new \in Pool!Fresh(1) :
                  /\ current' = new[1]
                  /\ slots' = [slots EXCEPT ![i] = new[1]]
                  /\ Pool!Keep([looked EXCEPT ![new[1]] = Pool!Claimed(Pool!NewSurface(Pool!Target.size))])
    BY <1>4, Zenon DEF Pool!Bind
  <2>2. generation # 0
    BY <1>4 DEF Pool!Usable
  <2>3. i \in Pool!Positions /\ Pool!Idle(i)
    OBVIOUS
  <2>4. /\ slots[i] \in Pool!Ids /\ slots[i] # 0 /\ surface[slots[i]] \in PoolSurfaces
        /\ slots[i] \notin InFrames /\ slots[i] \notin Held
    BY <2>3, SlotsAreSurfaces
  <2>5. CASE /\ ~Pool!Spoilt(i, unwaitable)
             /\ current' = slots[i] /\ slots' = slots
             /\ Pool!Keep([looked EXCEPT ![slots[i]] = Pool!Claimed(looked[slots[i]])])
    <3>1. i \in seen
      BY DEF Pool!Positions
    <3>2. ~spoilt(slots[i]) /\ spoilt(slots[i]) \in BOOLEAN
      BY <2>5 DEF Pool!Spoilt
    <3>3. looked[slots[i]] = Pool!Waited(slots[i], spoilt(slots[i]))
      BY <2>4, <3>1
    <3>4. surface[slots[i]].size = Pool!Target.size
      BY <2>5
    <3>5. ~surface[slots[i]].retired
      BY <2>5 DEF Pool!Spoilt
    <3> HIDE DEF spoilt, looked
    <3>6. /\ looked[slots[i]] \in PoolSurfaces /\ ~looked[slots[i]].reading
          /\ looked[slots[i]].size = Pool!Target.size
      BY <2>4, <3>2, <3>3, <3>4, <3>5, WaitedIsGuarded
    <3> DEFINE table == [looked EXCEPT ![slots[i]] = Pool!Claimed(looked[slots[i]])]
    <3>7. table \in [Pool!Ids -> PoolSurfaces] /\ Guarded(table) /\ Claim(table[slots[i]])
      BY <1>1, <2>2, <2>4, <3>6, ClaimedTable
    <3>8. /\ Pool!Keep(table) /\ current' = slots[i] /\ slots' \in Seq(Pool!Ids)
          /\ current' \in Pool!Ids \cup {0}
      BY <2>4, <2>5 DEF PoolInv, PoolTypes
    <3> HIDE DEF table
    <3> QED
      BY <1>2, <2>4, <3>7, <3>8, KeptInv
  <2>6. CASE /\ Pool!Spoilt(i, unwaitable)
             /\ \E new \in Pool!Fresh(1) :
                  /\ current' = new[1]
                  /\ slots' = [slots EXCEPT ![i] = new[1]]
                  /\ Pool!Keep([looked EXCEPT ![new[1]] = Pool!Claimed(Pool!NewSurface(Pool!Target.size))])
    <3>1. PICK new \in Pool!Fresh(1) :
            /\ current' = new[1]
            /\ slots' = [slots EXCEPT ![i] = new[1]]
            /\ Pool!Keep([looked EXCEPT ![new[1]] = Pool!Claimed(Pool!NewSurface(Pool!Target.size))])
      BY <2>6
    <3>2. new[1] \in Pool!Ids /\ new[1] \notin InFrames
      BY FreshIsFree
    <3>3. Pool!Target.size \in Nat
      BY <2>2, TargetIsKnown
    <3>4. /\ Pool!NewSurface(Pool!Target.size) \in PoolSurfaces
          /\ ~Pool!NewSurface(Pool!Target.size).reading
          /\ Pool!NewSurface(Pool!Target.size).size = Pool!Target.size
      BY <3>3, NewIsSurface
    <3> HIDE DEF looked
    <3> DEFINE table == [looked EXCEPT ![new[1]] = Pool!Claimed(Pool!NewSurface(Pool!Target.size))]
    <3>5. table \in [Pool!Ids -> PoolSurfaces] /\ Guarded(table) /\ Claim(table[new[1]])
      BY <1>1, <2>2, <3>2, <3>4, ClaimedTable
    <3>6. slots' \in Seq(Pool!Ids)
      BY <2>3, <3>1, <3>2 DEF PoolInv, PoolTypes, Pool!Positions
    <3>7. Pool!Keep(table) /\ current' = new[1] /\ current' \in Pool!Ids \cup {0}
      BY <3>1, <3>2
    <3> HIDE DEF table
    <3> QED
      BY <1>2, <3>2, <3>5, <3>6, <3>7, KeptInv
  <2> QED
    BY <2>1, <2>5, <2>6
<1> QED
  BY <1>3, <1>4

\* The pool before libVLC opens its output.
LEMMA PoolInitInv == PoolAssumption /\ Pool!Init => PoolInv
<1> SUFFICES ASSUME PoolAssumption, Pool!Init
             PROVE  PoolInv
  OBVIOUS
<1>1. Pool!NewSurface(0) \in PoolSurfaces /\ ~Pool!NewSurface(0).reading
  <2>1. 0 \in 0..Len(Targets)
    BY DEF PoolAssumption
  <2> QED
    BY <2>1 DEF Pool!NewSurface, PoolSurfaces
<1>2. PoolTypes
  BY <1>1 DEF Pool!Init, PoolTypes, PoolAssumption
<1>3. ReadersGuarded
  BY <1>1 DEF Pool!Init, ReadersGuarded, Guarded
<1>4. Drawing /\ FramesKnown
  BY DEF Pool!Init, Drawing, FramesKnown, Pool!Frames
<1> QED
  BY <1>2, <1>3, <1>4 DEF PoolInv

\* Steps after which every surface, frame and binding is what it was.
LEMMA QuietInv ==
  ASSUME PoolInv, generation' \in 0..Len(Targets), previous' \in 0..Len(Targets),
         UNCHANGED <<slots, surface, current, pending, Pool!consumer>>
  PROVE  PoolInv'
<1>1. Pool!Frames' = Pool!Frames /\ Held' = Held /\ InFrames' = InFrames
  BY DEF Pool!Frames, Held, InFrames, Pool!consumer
<1>2. PoolTypes'
  BY DEF PoolInv, PoolTypes
<1>3. ReadersGuarded'
  BY <1>1 DEF PoolInv, ReadersGuarded, Guarded
<1>4. Drawing'
  BY <1>1 DEF PoolInv, Drawing, Claim, Generations
<1>5. FramesKnown'
  BY <1>1 DEF PoolInv, FramesKnown, Generations
<1> QED
  BY <1>2, <1>3, <1>4, <1>5 DEF PoolInv, PoolAssumption

\* Steps that only give surfaces up, with the frames of the consumer as they are.
LEMMA GivingUpInv ==
  ASSUME PoolInv, generation' = generation, previous' \in 0..Len(Targets), acquired' = acquired,
         Pool!Frames' \subseteq Pool!Frames, slots' \in Seq(Pool!Ids),
         current' \in {0, current}, Pool!Keep(surface)
  PROVE  PoolInv'
<1>1. surface \in [Pool!Ids -> PoolSurfaces] /\ Guarded(surface) /\ current' \in Pool!Ids \cup {0}
  BY DEF PoolInv, PoolTypes, ReadersGuarded
<1>2. FramesKnown'
  BY DEF PoolInv, FramesKnown, Generations
<1>3. current' # 0 => current' \notin InFrames' /\ Claim(surface[current'])
  BY DEF PoolInv, Drawing, InFrames
<1> QED
  BY <1>1, <1>2, <1>3, KeptInv

\* A frame is taken from the surface it was drawn into, with what it was claimed for.
LEMMA SwapInv ==
  ASSUME PoolInv, Pool!Swap
  PROVE  PoolInv'
<1>1. UNCHANGED <<generation, previous, acquired, returning, slots>> /\ current # 0
      /\ current' = 0 /\ Pool!Keep(surface)
  BY DEF Pool!Swap, Pool!output, Pool!consumer
<1>2. current \in Pool!Ids /\ Claim(surface[current])
  BY <1>1 DEF PoolInv, PoolTypes, Drawing
<1>3. FramesKnown'
  <2>1. \A f \in Pool!Frames' : f \in Pool!Frames \/ f = Pool!FrameOf(current)
    BY <1>1 DEF Pool!Swap, Pool!Frames
  <2>2. /\ Pool!FrameOf(current).surface \in Pool!Ids /\ Pool!FrameOf(current).generation \in Generations
        /\ Pool!FrameOf(current).size = Targets[Pool!FrameOf(current).generation].size
    BY <1>2 DEF Pool!FrameOf, Claim
  <2> QED
    BY <2>1, <2>2 DEF PoolInv, FramesKnown, Generations
<1>4. surface \in [Pool!Ids -> PoolSurfaces] /\ Guarded(surface) /\ slots' \in Seq(Pool!Ids)
      /\ previous' \in 0..Len(Targets)
  BY <1>1 DEF PoolInv, PoolTypes, ReadersGuarded
<1> QED
  BY <1>1, <1>3, <1>4, KeptInv

\* A pool that is replaced has new surfaces only, the first of them bound at once
\* when the output thread has the context.
LEMMA UpdateOutputInv ==
  ASSUME PoolInv, Pool!UpdateOutput
  PROVE  PoolInv'
<1>1. UNCHANGED <<Pool!output, pending, Pool!consumer>> /\ generation # 0
  BY DEF Pool!UpdateOutput, Pool!Usable
<1>2. UNCHANGED <<generation, previous, acquired>> /\ Pool!Frames' = Pool!Frames
  BY <1>1 DEF Pool!output, Pool!consumer, Pool!Frames
<1>3. CASE UNCHANGED <<slots, surface, current>>
  <2>1. generation' \in 0..Len(Targets) /\ previous' \in 0..Len(Targets)
    BY <1>2 DEF PoolInv, PoolTypes
  <2> QED
    BY <1>1, <1>3, <2>1, QuietInv
<1>4. CASE \E r \in Pool!Refusals : Pool!Bind(r.failing, r.unwaitable)
  BY <1>1, <1>4, BindKeepsInv
<1>5. CASE \E new \in Pool!Fresh(SurfaceCount) :
             /\ slots' = new
             /\ current' = IF locked THEN new[1] ELSE 0
             /\ Pool!Keep([s \in Pool!Ids |->
                  IF s \notin Pool!Range(new) THEN surface[s]
                  ELSE IF s = current' THEN Pool!Claimed(Pool!NewSurface(Pool!Target.size))
                                       ELSE Pool!NewSurface(Pool!Target.size)])
  <2>1. PICK new \in Pool!Fresh(SurfaceCount) :
             /\ slots' = new
             /\ current' = IF locked THEN new[1] ELSE 0
             /\ Pool!Keep([s \in Pool!Ids |->
                  IF s \notin Pool!Range(new) THEN surface[s]
                  ELSE IF s = current' THEN Pool!Claimed(Pool!NewSurface(Pool!Target.size))
                                       ELSE Pool!NewSurface(Pool!Target.size)])
    BY <1>5
  <2>2. SurfaceCount \in Nat \ {0}
    BY DEF PoolInv, PoolAssumption
  <2>3. /\ new \in [1..SurfaceCount -> Pool!Ids]
        /\ new[1] \in Pool!Ids /\ new[1] \notin InFrames /\ new[1] # 0
    BY <2>2, FreshIsFree
  <2>4. slots' \in Seq(Pool!Ids)
    BY <2>1, <2>2, <2>3
  <2>5. /\ Pool!NewSurface(Pool!Target.size) \in PoolSurfaces /\ ~Pool!NewSurface(Pool!Target.size).reading
        /\ Pool!NewSurface(Pool!Target.size).size = Pool!Target.size
    BY <1>1, TargetIsKnown, NewIsSurface
  <2>6. /\ Pool!Claimed(Pool!NewSurface(Pool!Target.size)) \in PoolSurfaces
        /\ Claim(Pool!Claimed(Pool!NewSurface(Pool!Target.size)))
    BY <1>1, <2>5, ClaimedIsClaim
  <2>7. surface \in [Pool!Ids -> PoolSurfaces] /\ Guarded(surface)
    BY DEF PoolInv, PoolTypes, ReadersGuarded
  <2> DEFINE table == [s \in Pool!Ids |->
                  IF s \notin Pool!Range(new) THEN surface[s]
                  ELSE IF s = current' THEN Pool!Claimed(Pool!NewSurface(Pool!Target.size))
                                       ELSE Pool!NewSurface(Pool!Target.size)]
  <2>8. table \in [Pool!Ids -> PoolSurfaces]
    BY <2>5, <2>6, <2>7
  <2>9. Guarded(table)
    BY <2>5, <2>6, <2>7 DEF Guarded, Claim
  <2>10. new[1] \in Pool!Range(new)
    BY <2>2, <2>3 DEF Pool!Range
  <2>11. current' # 0 => current' \notin InFrames' /\ Claim(table[current'])
    BY <1>2, <2>1, <2>3, <2>6, <2>10 DEF InFrames
  <2>12. Pool!Keep(table) /\ current' \in Pool!Ids \cup {0}
    BY <2>1, <2>3
  <2>13. previous' \in 0..Len(Targets) /\ FramesKnown'
    BY <1>2 DEF PoolInv, PoolTypes, FramesKnown, Generations
  <2> HIDE DEF table
  <2> QED
    BY <1>2, <2>4, <2>8, <2>9, <2>11, <2>12, <2>13, KeptInv
<1> QED
  BY <1>3, <1>4, <1>5 DEF Pool!UpdateOutput

\* Drawing that may not have ended spoils the surface and nothing else.
LEMMA LeaveInv ==
  ASSUME PoolInv, Pool!Leave
  PROVE  PoolInv'
<1>1. UNCHANGED <<generation, previous, slots, current, pending, acquired, returning>>
  BY DEF Pool!Leave, Pool!output, Pool!consumer
<1>2. /\ surface' \in [Pool!Ids -> PoolSurfaces]
      /\ \A s \in Pool!Ids : /\ surface'[s].reading = surface[s].reading
                             /\ surface'[s].fence = surface[s].fence
                             /\ surface[s].retired => surface'[s].retired
                             /\ surface'[s].generation = surface[s].generation
                             /\ surface'[s].size = surface[s].size
  <2>1. surface \in [Pool!Ids -> PoolSurfaces]
    BY DEF PoolInv, PoolTypes
  <2>2. CASE surface' = surface
    BY <2>1, <2>2
  <2>3. CASE surface' = [surface EXCEPT ![current].retired = TRUE]
    BY <2>1, <2>3 DEF PoolSurfaces
  <2> QED
    BY <2>2, <2>3 DEF Pool!Leave
<1>3. Pool!Frames' = Pool!Frames /\ Held' = Held /\ InFrames' = InFrames
  BY <1>1 DEF Pool!Frames, Held, InFrames
<1>4. PoolTypes'
  BY <1>1, <1>2 DEF PoolInv, PoolTypes, Pool!Ids, PoolSurfaces
<1>5. ReadersGuarded'
  BY <1>2, <1>3 DEF PoolInv, ReadersGuarded, Guarded
<1>6. Drawing'
  BY <1>1, <1>2, <1>3 DEF PoolInv, PoolTypes, Drawing, Claim, Generations
<1>7. FramesKnown'
  BY <1>3 DEF PoolInv, FramesKnown, Generations
<1> QED
  BY <1>4, <1>5, <1>6, <1>7 DEF PoolInv, PoolAssumption

\* Whoever begins to read has the surface in a frame.
LEMMA AcquireInv ==
  ASSUME PoolInv, Pool!Acquire
  PROVE  PoolInv'
<1>1. UNCHANGED <<generation, previous, slots, current, returning>>
      /\ acquired' = acquired \cup pending /\ pending' = {}
  BY DEF Pool!Acquire, Pool!output
<1>2. surface' = [s \in Pool!Ids |-> IF \E f \in pending : f.surface = s
                                THEN [surface[s] EXCEPT !.reading = TRUE] ELSE surface[s]]
  BY DEF Pool!Acquire
<1>3. Pool!Frames' = Pool!Frames /\ InFrames' = InFrames /\ Held \subseteq Held'
      /\ \A f \in pending : f.surface \in Held'
  BY <1>1 DEF Pool!Frames, InFrames, Held
<1>4. surface' \in [Pool!Ids -> PoolSurfaces]
  BY <1>2 DEF PoolInv, PoolTypes, PoolSurfaces
<1>5. PoolTypes'
  BY <1>1, <1>4 DEF PoolInv, PoolTypes, Pool!Ids, PoolSurfaces
<1>6. ReadersGuarded'
  <2> SUFFICES ASSUME NEW s \in Pool!Ids, surface'[s].reading
               PROVE  s \in Held' \/ surface'[s].fence \/ surface'[s].retired
    BY DEF ReadersGuarded, Guarded
  <2>1. CASE \E f \in pending : f.surface = s
    BY <1>3, <2>1
  <2>2. CASE ~\E f \in pending : f.surface = s
    BY <1>2, <1>3, <2>2 DEF PoolInv, ReadersGuarded, Guarded
  <2> QED
    BY <2>1, <2>2
<1>7. Drawing'
  <2> SUFFICES ASSUME current # 0
               PROVE  current \notin InFrames' /\ Claim(surface'[current])
    BY <1>1 DEF Drawing, Claim, Generations
  <2>1. current \in Pool!Ids /\ current \notin InFrames /\ Claim(surface[current])
    BY DEF PoolInv, PoolTypes, Drawing
  <2>2. surface'[current] = surface[current]
    BY <1>2, <2>1 DEF InFrames, Pool!Frames
  <2> QED
    BY <1>3, <2>1, <2>2
<1>8. FramesKnown'
  BY <1>3 DEF PoolInv, FramesKnown, Generations
<1> QED
  BY <1>5, <1>6, <1>7, <1>8 DEF PoolInv, PoolAssumption

\* Whoever gives a frame back has finished, has given a fence, or spoils the surface.
LEMMA ReleaseInv ==
  ASSUME PoolInv, NEW f \in acquired, Pool!Release(f)
  PROVE  PoolInv'
<1>1. UNCHANGED <<generation, previous, slots, current, pending>>
      /\ acquired' = acquired \ {f} /\ returning' = returning \cup {f}
  BY DEF Pool!Release, Pool!output
<1>2. Pool!Frames' = Pool!Frames /\ InFrames' = InFrames /\ f \in Pool!Frames
  BY <1>1 DEF Pool!Frames, InFrames
<1>3. f.surface \in Pool!Ids /\ f.generation \in Generations
  BY <1>2 DEF PoolInv, FramesKnown
<1>4. PICK given \in {FALSE, Targets[f.generation].releaseFences} :
         surface' = [surface EXCEPT ![f.surface] = Pool!Released(surface[f.surface], given)]
  BY DEF Pool!Release
<1>5. Targets[f.generation].releaseFences \in BOOLEAN
  <2>1. Targets[f.generation] \in PoolKinds
    BY <1>3 DEF PoolInv, PoolAssumption, Generations
  <2> QED
    BY <2>1 DEF PoolKinds
<1>6. surface[f.surface] \in PoolSurfaces
  BY <1>3 DEF PoolInv, PoolTypes
<1>7. /\ Pool!Released(surface[f.surface], given) \in PoolSurfaces
      /\ LET back == Pool!Released(surface[f.surface], given)
         IN back.reading => back.fence \/ back.retired
  BY <1>4, <1>5, <1>6 DEF Pool!Released, PoolSurfaces
<1>8. surface' \in [Pool!Ids -> PoolSurfaces]
  BY <1>3, <1>4, <1>7 DEF PoolInv, PoolTypes
<1>9. PoolTypes'
  BY <1>1, <1>8 DEF PoolInv, PoolTypes, Pool!Ids, PoolSurfaces
<1>10. ReadersGuarded'
  <2> SUFFICES ASSUME NEW s \in Pool!Ids, surface'[s].reading
               PROVE  s \in Held' \/ surface'[s].fence \/ surface'[s].retired
    BY DEF ReadersGuarded, Guarded
  <2>1. CASE s = f.surface
    BY <1>3, <1>4, <1>7, <2>1 DEF PoolInv, PoolTypes
  <2>2. CASE s # f.surface
    <3>1. surface'[s] = surface[s]
      BY <1>4, <2>2 DEF PoolInv, PoolTypes
    <3>2. s \in Held => s \in Held'
      BY <1>1, <2>2 DEF Held
    <3> QED
      BY <3>1, <3>2 DEF PoolInv, ReadersGuarded, Guarded
  <2> QED
    BY <2>1, <2>2
<1>11. Drawing'
  <2> SUFFICES ASSUME current # 0
               PROVE  current \notin InFrames' /\ Claim(surface'[current])
    BY <1>1 DEF Drawing, Claim, Generations
  <2>1. current \in Pool!Ids /\ current \notin InFrames /\ Claim(surface[current])
    BY DEF PoolInv, PoolTypes, Drawing
  <2>2. surface'[current] = surface[current]
    BY <1>2, <1>4, <2>1 DEF InFrames, PoolInv, PoolTypes
  <2> QED
    BY <1>2, <2>1, <2>2
<1>12. FramesKnown'
  BY <1>2 DEF PoolInv, FramesKnown, Generations
<1> QED
  BY <1>9, <1>10, <1>11, <1>12 DEF PoolInv, PoolAssumption

\* Every step of the output thread and of the application keeps the invariant.
LEMMA PoolNextInv ==
  ASSUME PoolInv, [Pool!Next]_(Pool!vars)
  PROVE  PoolInv'
<1> USE DEF Pool!consumer, Pool!output
<1>0. /\ generation \in 0..Len(Targets) /\ previous \in 0..Len(Targets)
      /\ slots \in Seq(Pool!Ids) /\ <<>> \in Seq(Pool!Ids)
  BY DEF PoolInv, PoolTypes
<1>1. CASE Pool!Setup
  BY <1>0, <1>1, QuietInv DEF Pool!Setup
<1>2. CASE Pool!Enter
  <2>1. CASE UNCHANGED <<slots, surface, current>>
    BY <1>0, <1>2, <2>1, QuietInv DEF Pool!Enter
  <2>2. CASE \E r \in Pool!Refusals : Pool!Bind(r.failing, r.unwaitable)
    BY <1>2, <2>2, BindKeepsInv DEF Pool!Enter
  <2> QED
    BY <1>2, <2>1, <2>2 DEF Pool!Enter
<1>3. CASE Pool!Leave
  BY <1>3, LeaveInv
<1>4. CASE Pool!UpdateOutput
  BY <1>4, UpdateOutputInv
<1>5. CASE Pool!Swap
  BY <1>5, SwapInv
<1>6. CASE Pool!Cleanup
  BY <1>0, <1>6, GivingUpInv DEF Pool!Cleanup, Pool!Frames
<1>7. CASE Pool!NewTarget
  <2>1. generation' \in 0..Len(Targets)
    BY <1>0, <1>7 DEF Pool!NewTarget, PoolInv, PoolAssumption
  <2> QED
    BY <1>0, <1>7, <2>1, QuietInv DEF Pool!NewTarget
<1>8. CASE Pool!AcceptTarget
  <2>1. CASE UNCHANGED <<context, slots, surface, current>>
    BY <1>0, <1>8, <2>1, QuietInv DEF Pool!AcceptTarget
  <2>2. CASE slots' = <<>> /\ current' = 0 /\ Pool!Keep(surface)
    BY <1>0, <1>8, <2>2, GivingUpInv DEF Pool!AcceptTarget, Pool!Frames
  <2> QED
    BY <1>8, <2>1, <2>2 DEF Pool!AcceptTarget
<1>9. CASE Pool!RejectTarget
  BY <1>0, <1>9, QuietInv DEF Pool!RejectTarget
<1>10. CASE Pool!Acquire
  BY <1>10, AcquireInv
<1>11. CASE \E f \in acquired : Pool!Release(f)
  BY <1>11, ReleaseInv
<1>12. CASE \E f \in returning : Pool!Delete(f)
  BY <1>0, <1>12, GivingUpInv DEF Pool!Delete, Pool!Frames
<1>13. CASE UNCHANGED (Pool!vars)
  BY <1>0, <1>13, QuietInv DEF Pool!vars
<1> QED
  BY <1>1, <1>2, <1>3, <1>4, <1>5, <1>6, <1>7, <1>8, <1>9, <1>10, <1>11, <1>12, <1>13 DEF Pool!Next

\* Under the invariant the surface that is drawn into is free, and the frames honest.
LEMMA PoolInvIsSafe == PoolInv => Pool!SurfacesAreExclusive /\ Pool!FramesAreHonest
  BY DEF PoolInv, Pool!SurfacesAreExclusive, Pool!FramesAreHonest, Drawing, Claim, InFrames, FramesKnown

-----------------------------------------------------------------------------
(* The parts *)

PlayerProofs == INSTANCE DesktopPlayerProofs WITH Frames <- PlayerFrames, Cpu <- FALSE
CpuPlayerProofs == INSTANCE DesktopPlayerProofs WITH Frames <- PlayerFrames, Cpu <- TRUE
ExtractionProofs == INSTANCE RuntimeExtractionProofs WITH External <- {}, pc <- stage
ReplacementProofs == INSTANCE RuntimeExtractionProofs WITH Processes <- {}, pc <- stage

(* The definitions that the proofs are about are those of the part. *)

\* The player's initial states and steps.
LEMMA SamePlayer ==
  /\ Player!Init => PlayerProofs!Init
  /\ [Player!Next]_(Player!vars) => [PlayerProofs!Next]_(PlayerProofs!vars)
BY DEF
     Player!vars, Player!life, Player!java, Player!Init, Player!Move, Player!Pending, Player!At,
     Player!Go, Player!Render, Player!Publish, Player!OutGoes, Player!Notify,
     Player!EnterListener,
     Player!LeaveListener, Player!AcquireHandle, Player!CpuFrameBuffer, Player!Wrap,
     Player!ClaimFence, Player!Release, Player!TakeFence, Player!ReleaseNative, Player!Close,
     Player!DisableSink, Player!Silence, Player!DeletePending, Player!Drain, Player!Join,
     Player!DeletePlayer, Player!Unlock, Player!OutputThread, Player!Application, Player!Next,
     PlayerProofs!vars, PlayerProofs!life, PlayerProofs!java, PlayerProofs!Init,
     PlayerProofs!Move,
     PlayerProofs!Pending, PlayerProofs!At, PlayerProofs!Go, PlayerProofs!Render,
     PlayerProofs!Publish, PlayerProofs!OutGoes, PlayerProofs!Notify, PlayerProofs!EnterListener,
     PlayerProofs!LeaveListener, PlayerProofs!AcquireHandle, PlayerProofs!CpuFrameBuffer,
     PlayerProofs!Wrap, PlayerProofs!ClaimFence, PlayerProofs!Release, PlayerProofs!TakeFence,
     PlayerProofs!ReleaseNative, PlayerProofs!Close, PlayerProofs!DisableSink,
     PlayerProofs!Silence,
     PlayerProofs!DeletePending, PlayerProofs!Drain, PlayerProofs!Join, PlayerProofs!DeletePlayer,
     PlayerProofs!Unlock, PlayerProofs!OutputThread, PlayerProofs!Application, PlayerProofs!Next

\* The same with frames that are pulled.
LEMMA SameCpuPlayer ==
  /\ CpuPlayer!Init => CpuPlayerProofs!Init
  /\ [CpuPlayer!Next]_(CpuPlayer!vars) => [CpuPlayerProofs!Next]_(CpuPlayerProofs!vars)
BY DEF
     CpuPlayer!vars, CpuPlayer!life, CpuPlayer!java, CpuPlayer!Init, CpuPlayer!Move,
     CpuPlayer!Pending, CpuPlayer!At, CpuPlayer!Go, CpuPlayer!Render, CpuPlayer!Publish,
     CpuPlayer!OutGoes, CpuPlayer!Notify, CpuPlayer!EnterListener, CpuPlayer!LeaveListener,
     CpuPlayer!AcquireHandle, CpuPlayer!CpuFrameBuffer, CpuPlayer!Wrap, CpuPlayer!ClaimFence,
     CpuPlayer!Release, CpuPlayer!TakeFence, CpuPlayer!ReleaseNative, CpuPlayer!Close,
     CpuPlayer!DisableSink, CpuPlayer!Silence, CpuPlayer!DeletePending, CpuPlayer!Drain,
     CpuPlayer!Join, CpuPlayer!DeletePlayer, CpuPlayer!Unlock, CpuPlayer!OutputThread,
     CpuPlayer!Application, CpuPlayer!Next, CpuPlayerProofs!vars, CpuPlayerProofs!life,
     CpuPlayerProofs!java, CpuPlayerProofs!Init, CpuPlayerProofs!Move, CpuPlayerProofs!Pending,
     CpuPlayerProofs!At, CpuPlayerProofs!Go, CpuPlayerProofs!Render, CpuPlayerProofs!Publish,
     CpuPlayerProofs!OutGoes, CpuPlayerProofs!Notify, CpuPlayerProofs!EnterListener,
     CpuPlayerProofs!LeaveListener, CpuPlayerProofs!AcquireHandle, CpuPlayerProofs!CpuFrameBuffer,
     CpuPlayerProofs!Wrap, CpuPlayerProofs!ClaimFence, CpuPlayerProofs!Release,
     CpuPlayerProofs!TakeFence, CpuPlayerProofs!ReleaseNative, CpuPlayerProofs!Close,
     CpuPlayerProofs!DisableSink, CpuPlayerProofs!Silence, CpuPlayerProofs!DeletePending,
     CpuPlayerProofs!Drain, CpuPlayerProofs!Join, CpuPlayerProofs!DeletePlayer,
     CpuPlayerProofs!Unlock, CpuPlayerProofs!OutputThread, CpuPlayerProofs!Application,
     CpuPlayerProofs!Next

\* The extraction's initial states and steps.
LEMMA SameExtraction ==
  /\ Extraction!Init => ExtractionProofs!Init
  /\ [Extraction!Next]_(Extraction!vars) => [ExtractionProofs!Next]_(ExtractionProofs!vars)
BY DEF
     Extraction!vars, Extraction!All, Extraction!Good, Extraction!Contents, Extraction!Ended,
     Extraction!Init, Extraction!Goto, Extraction!Done, Extraction!bundled, Extraction!others,
     Extraction!Look, Extraction!Verify, Extraction!Create, Extraction!Copy, Extraction!CopyFails,
     Extraction!Move, Extraction!DeleteTemporary, Extraction!ReadManifest, Extraction!VerifyLocal,
     Extraction!Walk, Extraction!ReadAgain, Extraction!Kill, Extraction!Damage, Extraction!Next,
     ExtractionProofs!vars, ExtractionProofs!All, ExtractionProofs!Good,
     ExtractionProofs!Contents,
     ExtractionProofs!Ended, ExtractionProofs!Init, ExtractionProofs!Goto, ExtractionProofs!Done,
     ExtractionProofs!bundled, ExtractionProofs!others, ExtractionProofs!Look,
     ExtractionProofs!Verify, ExtractionProofs!Create, ExtractionProofs!Copy,
     ExtractionProofs!CopyFails, ExtractionProofs!Move, ExtractionProofs!DeleteTemporary,
     ExtractionProofs!ReadManifest, ExtractionProofs!VerifyLocal, ExtractionProofs!Walk,
     ExtractionProofs!ReadAgain, ExtractionProofs!Kill, ExtractionProofs!Damage,
     ExtractionProofs!Next

\* The replacement's.
LEMMA SameReplacement ==
  /\ Replacement!Init => ReplacementProofs!Init
  /\ [Replacement!Next]_(Replacement!vars) => [ReplacementProofs!Next]_(ReplacementProofs!vars)
BY DEF
     Replacement!vars, Replacement!All, Replacement!Good, Replacement!Contents, Replacement!Ended,
     Replacement!Init, Replacement!Goto, Replacement!Done, Replacement!bundled,
     Replacement!others,
     Replacement!Look, Replacement!Verify, Replacement!Create, Replacement!Copy,
     Replacement!CopyFails, Replacement!Move, Replacement!DeleteTemporary,
     Replacement!ReadManifest,
     Replacement!VerifyLocal, Replacement!Walk, Replacement!ReadAgain, Replacement!Kill,
     Replacement!Damage, Replacement!Next, ReplacementProofs!vars, ReplacementProofs!All,
     ReplacementProofs!Good, ReplacementProofs!Contents, ReplacementProofs!Ended,
     ReplacementProofs!Init, ReplacementProofs!Goto, ReplacementProofs!Done,
     ReplacementProofs!bundled, ReplacementProofs!others, ReplacementProofs!Look,
     ReplacementProofs!Verify, ReplacementProofs!Create, ReplacementProofs!Copy,
     ReplacementProofs!CopyFails, ReplacementProofs!Move, ReplacementProofs!DeleteTemporary,
     ReplacementProofs!ReadManifest, ReplacementProofs!VerifyLocal, ReplacementProofs!Walk,
     ReplacementProofs!ReadAgain, ReplacementProofs!Kill, ReplacementProofs!Damage,
     ReplacementProofs!Next

-----------------------------------------------------------------------------
(* The runtime *)

\* What holds of the part that a behaviour belongs to, and of the sink in all of them.
PartsInv ==
  /\ IInv
  /\ part = "pool" => PoolInv
  /\ part = "player" => PlayerProofs!IInv
  /\ part = "cpuPlayer" => CpuPlayerProofs!IInv
  /\ part = "extraction" => ExtractionProofs!IInv
  /\ part = "replacement" => ReplacementProofs!IInv
  /\ part = "android" => WInv /\ IntentInv
  /\ part # "android" => step = "none"

\* A behaviour begins as its part does.
LEMMA PartBegins ==
  ASSUME RuntimeInit
  PROVE  /\ Init
         /\ part = "pool" => Pool!Init
         /\ part = "player" => Player!Init
         /\ part = "cpuPlayer" => CpuPlayer!Init
         /\ part = "extraction" => Extraction!Init
         /\ part = "replacement" => Replacement!Init
         /\ part = "android" => Android!Init
         /\ part # "android" => step = "none"
BY DEF RuntimeInit, NoAndroid

\* Every step is one of its part.
LEMMA PartSteps ==
  ASSUME [RuntimeNext]_allvars
  PROVE  /\ part' = part
         /\ [Next]_vars
         /\ part = "pool" => [Pool!Next]_(Pool!vars)
         /\ part = "player" => [Player!Next]_(Player!vars)
         /\ part = "cpuPlayer" => [CpuPlayer!Next]_(CpuPlayer!vars)
         /\ part = "extraction" => [Extraction!Next]_(Extraction!vars)
         /\ part = "replacement" => [Replacement!Next]_(Replacement!vars)
         /\ part = "android" => [Android!Next]_(Android!vars)
         /\ part # "android" => step' = step
<1>1. CASE RuntimeNext
  BY <1>1 DEF RuntimeNext, NotifyOrRelease, DrawAndRead, TakeAndClose, PullAndClose,
              ResolveBundled, ResolveExternal, PlayOnAndroid, ofAndroid
<1>2. CASE UNCHANGED allvars
  BY <1>2 DEF allvars, ofPool, ofPlayer, ofRuntime, ofAndroid, Pool!vars, Player!vars,
              CpuPlayer!vars, Extraction!vars, Replacement!vars, Android!vars
<1> QED
  BY <1>1, <1>2

\* Each part keeps what was proved of it.
LEMMA PartsKeep == PartsInv /\ [RuntimeNext]_allvars => PartsInv'
<1> SUFFICES ASSUME PartsInv, [RuntimeNext]_allvars
             PROVE  PartsInv'
  OBVIOUS
<1>1. part' = part
  BY PartSteps
<1>2. part = "pool" => PoolInv'
  BY PartSteps, PoolNextInv DEF PartsInv
<1>3. part = "player" => PlayerProofs!IInv'
  BY PartSteps, SamePlayer, PlayerProofs!NextOwns DEF PartsInv
<1>4. part = "cpuPlayer" => CpuPlayerProofs!IInv'
  BY PartSteps, SameCpuPlayer, CpuPlayerProofs!NextOwns DEF PartsInv
<1>5. part = "extraction" => ExtractionProofs!IInv'
  BY PartSteps, SameExtraction, ExtractionProofs!NextKnows DEF PartsInv
<1>6. part = "replacement" => ReplacementProofs!IInv'
  BY PartSteps, SameReplacement, ReplacementProofs!NextKnows DEF PartsInv
<1>7. part = "android" => WInv' /\ IntentInv'
  BY PartSteps, WindowsStep, IntentStep DEF PartsInv
<1>8. part # "android" => step' = "none"
  BY PartSteps DEF PartsInv
<1>9. IInv'
  BY PartSteps, IInvStep DEF PartsInv
<1> QED
  BY <1>1, <1>2, <1>3, <1>4, <1>5, <1>6, <1>7, <1>8, <1>9 DEF PartsInv

\* And begins with it.
LEMMA PartsInit == RuntimeInit => PartsInv
<1> SUFFICES ASSUME RuntimeInit
             PROVE  PartsInv
  OBVIOUS
<1>1. PoolAssumption
  BY RuntimeAssumption DEF PoolAssumption, PoolKinds
<1>2. PlayerProofs!PlayerAssumption /\ CpuPlayerProofs!PlayerAssumption
  BY RuntimeAssumption DEF PlayerProofs!PlayerAssumption, CpuPlayerProofs!PlayerAssumption
<1>3. ExtractionProofs!ExtractionAssumption /\ ReplacementProofs!ExtractionAssumption
  BY RuntimeAssumption DEF ExtractionProofs!ExtractionAssumption,
                           ReplacementProofs!ExtractionAssumption
<1>4. part = "pool" => PoolInv
  BY <1>1, PartBegins, PoolInitInv
<1>5. part = "player" => PlayerProofs!IInv
  BY <1>2, PartBegins, SamePlayer, PlayerProofs!InitOwns
<1>6. part = "cpuPlayer" => CpuPlayerProofs!IInv
  BY <1>2, PartBegins, SameCpuPlayer, CpuPlayerProofs!InitOwns
<1>7. part = "extraction" => ExtractionProofs!IInv
  BY <1>3, PartBegins, SameExtraction, ExtractionProofs!InitKnows
<1>8. part = "replacement" => ReplacementProofs!IInv
  BY <1>3, PartBegins, SameReplacement, ReplacementProofs!InitKnows
<1>9. part = "android" => WInv /\ IntentInv
  BY PartBegins, WindowsInit, IntentInit
<1>10. part # "android" => step = "none"
  BY PartBegins
<1>11. IInv
  BY PartBegins, InitIInv
<1> QED
  BY <1>4, <1>5, <1>6, <1>7, <1>8, <1>9, <1>10, <1>11 DEF PartsInv

\* The invariant of the native runtime, whichever part a behaviour belongs to.
THEOREM PartsAreSafe == RuntimeSpec => []PartsInv
  BY PartsInit, PartsKeep, PTL DEF RuntimeSpec

\* Next to the other parts the sink is what it is alone: its count is exact, its
\* reference outlives the calls through it, and no wake-up is lost.
THEOREM SinkIsSafe ==
  RuntimeSpec => [](TypeOK /\ CountExact /\ ReferenceOutlivesCalls /\ NoWakeupLost)
<1>1. PartsInv => TypeOK /\ CountExact /\ ReferenceOutlivesCalls /\ NoWakeupLost
  BY DEF PartsInv, IInv, GateOK, WakeupOK, ReferenceOutlivesCalls, NoWakeupLost
<1> QED
  BY <1>1, PartsAreSafe, PTL

\* The output thread draws into no surface that is in a frame or that the consumer may
\* still read, and each frame has the size of the target it names.
THEOREM SurfacesStayExclusive == RuntimeSpec => []SurfacesAreExclusive
<1>1. PartsInv => SurfacesAreExclusive
  <2> SUFFICES ASSUME PartsInv, part = "pool"
               PROVE  Pool!SurfacesAreExclusive /\ Pool!FramesAreHonest
    BY DEF SurfacesAreExclusive
  <2> QED
    BY PoolInvIsSafe DEF PartsInv
<1> QED
  BY <1>1, PartsAreSafe, PTL

\* However frames are taken, released and lost while another thread closes the player,
\* each is deleted once, its fence settled and nothing used after its end; and on
\* Android every window has the references of its users.
THEOREM PlayersAlwaysEndCleanly == RuntimeSpec => []PlayersEndCleanly
<1>1. PartsInv => PlayersEndCleanly
  <2> SUFFICES ASSUME PartsInv
               PROVE  PlayersEndCleanly
    OBVIOUS
  <2>1. ASSUME part = "player"
        PROVE  /\ Player!QuietAfterClose /\ Player!NoUseAfterDelete /\ Player!DeletedOnce
               /\ Player!LostOnlyByClose /\ Player!FencesSettled
    <3>1. /\ PlayerProofs!QuietAfterClose /\ PlayerProofs!NoUseAfterDelete
          /\ PlayerProofs!DeletedOnce /\ PlayerProofs!LostOnlyByClose
          /\ PlayerProofs!FencesSettled
      BY <2>1, PlayerProofs!InvIsClean DEF PartsInv
    <3> QED
      BY <3>1 DEF Player!QuietAfterClose, Player!NoUseAfterDelete, Player!DeletedOnce,
                  Player!LostOnlyByClose, Player!FencesSettled, Player!At,
                  PlayerProofs!QuietAfterClose, PlayerProofs!NoUseAfterDelete,
                  PlayerProofs!DeletedOnce, PlayerProofs!LostOnlyByClose,
                  PlayerProofs!FencesSettled, PlayerProofs!At
  <2>2. ASSUME part = "cpuPlayer"
        PROVE  /\ CpuPlayer!QuietAfterClose /\ CpuPlayer!NoUseAfterDelete
               /\ CpuPlayer!DeletedOnce /\ CpuPlayer!LostOnlyByClose /\ CpuPlayer!FencesSettled
    <3>1. /\ CpuPlayerProofs!QuietAfterClose /\ CpuPlayerProofs!NoUseAfterDelete
          /\ CpuPlayerProofs!DeletedOnce /\ CpuPlayerProofs!LostOnlyByClose
          /\ CpuPlayerProofs!FencesSettled
      BY <2>2, CpuPlayerProofs!InvIsClean DEF PartsInv
    <3> QED
      BY <3>1 DEF CpuPlayer!QuietAfterClose, CpuPlayer!NoUseAfterDelete, CpuPlayer!DeletedOnce,
                  CpuPlayer!LostOnlyByClose, CpuPlayer!FencesSettled, CpuPlayer!At,
                  CpuPlayerProofs!QuietAfterClose, CpuPlayerProofs!NoUseAfterDelete,
                  CpuPlayerProofs!DeletedOnce, CpuPlayerProofs!LostOnlyByClose,
                  CpuPlayerProofs!FencesSettled, CpuPlayerProofs!At
  <2>3. ASSUME part = "android"
        PROVE  Android!WindowsBalanced
    BY <2>3 DEF PartsInv, WInv
  <2> QED
    BY <2>1, <2>2, <2>3 DEF PlayersEndCleanly
<1> QED
  BY <1>1, PartsAreSafe, PTL

\* Whoever resolves a runtime has verified every file of it, and nobody overwrites or
\* removes the one that is in place.
THEOREM ResolvedIsAlwaysVerified == RuntimeSpec => OnlyVerifiedResolved
<1>1. PartsInv => (part = "extraction" => Extraction!OnlyVerifiedResolved)
  <2> SUFFICES ASSUME PartsInv, part = "extraction"
               PROVE  Extraction!OnlyVerifiedResolved
    OBVIOUS
  <2>1. ExtractionProofs!OnlyVerifiedResolved
    BY ExtractionProofs!InvIsVerified DEF PartsInv
  <2> QED
    BY <2>1 DEF Extraction!OnlyVerifiedResolved, ExtractionProofs!OnlyVerifiedResolved,
                Extraction!Good, ExtractionProofs!Good
<1>2. PartsInv => (part = "replacement" => Replacement!OnlyVerifiedResolved)
  <2> SUFFICES ASSUME PartsInv, part = "replacement"
               PROVE  Replacement!OnlyVerifiedResolved
    OBVIOUS
  <2>1. ReplacementProofs!OnlyVerifiedResolved
    BY ReplacementProofs!InvIsVerified DEF PartsInv
  <2> QED
    BY <2>1 DEF Replacement!OnlyVerifiedResolved, ReplacementProofs!OnlyVerifiedResolved,
                Replacement!Good, ReplacementProofs!Good
<1>3. PartsInv /\ [RuntimeNext]_allvars =>
        [runtime # <<>> => runtime' = runtime \/ damage' # damage]_(Extraction!vars)
  <2> SUFFICES ASSUME PartsInv, [RuntimeNext]_allvars
               PROVE  runtime # <<>> => runtime' = runtime \/ damage' # damage
    OBVIOUS
  <2>1. CASE part = "extraction"
    <3>1. [runtime # <<>> => runtime' = runtime \/ damage' # damage]_(ExtractionProofs!vars)
      BY <2>1, PartSteps, SameExtraction, ExtractionProofs!NextKnows DEF PartsInv
    <3> QED
      BY <3>1 DEF ExtractionProofs!vars
  <2>2. CASE part = "replacement"
    <3>1. [runtime # <<>> => runtime' = runtime \/ damage' # damage]_(ReplacementProofs!vars)
      BY <2>2, PartSteps, SameReplacement, ReplacementProofs!NextKnows DEF PartsInv
    <3> QED
      BY <3>1 DEF ReplacementProofs!vars
  <2>3. CASE part \notin {"extraction", "replacement"}
    BY <2>3 DEF RuntimeNext, NotifyOrRelease, DrawAndRead, TakeAndClose, PullAndClose,
                ResolveBundled, ResolveExternal, PlayOnAndroid, allvars, ofRuntime
  <2> QED
    BY <2>1, <2>2, <2>3
<1> QED
  BY <1>1, <1>2, <1>3, PartsAreSafe, PTL
     DEF RuntimeSpec, OnlyVerifiedResolved, Extraction!NeverOverwritten

\* A paused Android player does not play on in the media player made for its new
\* surfaces, and one that was stopped, or had ended when the transport was noted, is not
\* started in it.
THEOREM IntentIsKept == RuntimeSpec => ReplacementKeepsIntent
<1>1. PartsInv => (part = "android" => Android!PausedStaysPaused)
  BY DEF PartsInv, IntentInv, PauseKept, Android!PausedStaysPaused
<1>2. PartsInv /\ [RuntimeNext]_allvars =>
        [StartsAsMeant]_(Android!vars)
  <2> SUFFICES ASSUME PartsInv, [RuntimeNext]_allvars, ~UNCHANGED Android!vars
               PROVE  StartsAsMeant
    OBVIOUS
  <2>1. CASE part = "android"
    BY <2>1, PartSteps, IntentStep DEF PartsInv
  <2>2. CASE part # "android"
    <3>1. resumes' = resumes
      BY <2>2 DEF RuntimeNext, NotifyOrRelease, DrawAndRead, TakeAndClose, PullAndClose,
                  ResolveBundled, ResolveExternal, PlayOnAndroid, allvars, ofAndroid
    <3> QED
      BY <2>2, <3>1 DEF PartsInv, StartsAsMeant
  <2> QED
    BY <2>1, <2>2
<1> QED
  BY <1>1, <1>2, PartsAreSafe, PTL
     DEF StartsAsMeant, RuntimeSpec, ReplacementKeepsIntent, Android!ReplacementRestartsNothing
=============================================================================
