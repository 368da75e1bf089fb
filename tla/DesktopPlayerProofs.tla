------------------------- MODULE DesktopPlayerProofs -------------------------
(***************************************************************************)
(* Proofs about DesktopPlayer for any number of threads and frames, with   *)
(* delivery of GPU frames and of CPU frames: each native frame has one     *)
(* owner at a time, is deleted once, and nothing runs in a player that has *)
(* been closed.                                                            *)
(***************************************************************************)
EXTENDS DesktopPlayer, TLAPS

\* Nobody is no thread and no frame.
PlayerAssumption == Nobody \notin Apps /\ Nobody \notin Frames /\ Cpu \in BOOLEAN

Outs == [at : {"idle", "publish", "notify", "sink", "listener"}, frame : Frames \cup {Nobody}]
Threads == [at : AppPC, frame : Frames \cup {Nobody}]
Types ==
  /\ monitor \in Apps \cup {Nobody}
  /\ closed \in BOOLEAN /\ listening \in BOOLEAN /\ callbacks \in BOOLEAN
  /\ player \in {"running", "joined", "deleted"}
  /\ pending \in Frames \cup {Nobody}
  /\ out \in Outs
  /\ app \in [Apps -> Threads]
  /\ frame \in [Frames -> Places]
  /\ released \in [Frames -> BOOLEAN]
  /\ fence \in [Frames -> {"none", "frame", "claimed", "closed"}]
  /\ deletions \in [Frames -> Nat]

Taking == {"pixels", "wrap"}
Releasing == {"fence", "native"}
Closing == {"disable", "silence", "drain", "join", "delete", "unlock", "done"}

\* Who owns the frame at each place.
OutOwns ==
  /\ out.at = "publish" => out.frame \in Frames /\ frame[out.frame] = "rendered"
  /\ \A f \in Frames : frame[f] = "rendered" => out.at = "publish" /\ out.frame = f
PlaceOwns == \A f \in Frames : frame[f] = "pending" <=> pending = f
Owns(t) ==
  /\ app[t].at \in Taking => app[t].frame \in Frames /\ frame[app[t].frame] = "handle"
  /\ app[t].at = "pixels" => Cpu
  /\ app[t].at \in Releasing =>
       app[t].frame \in Frames /\ frame[app[t].frame] = "object" /\ released[app[t].frame]
  /\ app[t].at = "native" => fence[app[t].frame] # "frame"
ThreadOwns == \A t \in Apps : Owns(t)
OneOwner ==
  \A t, u \in Apps :
    app[t].at \in Taking \cup Releasing /\ app[u].at \in Taking \cup Releasing
      /\ app[t].frame = app[u].frame => t = u

\* How far the thread that closes the player has come, and with it the player.
ClosingOnce ==
  /\ \A t \in Apps : app[t].at \in Closing => closed
  /\ \A t, u \in Apps : app[t].at \in Closing /\ app[u].at \in Closing => t = u
Ending ==
  /\ player # "running" => out.at = "idle"
  /\ player = "deleted" => pending = Nobody
  /\ \A t \in Apps : /\ app[t].at = "delete" => player = "joined"
                     /\ app[t].at \in {"unlock", "done"} => player = "deleted"

Settled == DeletedOnce /\ LostOnlyByClose /\ FencesSettled

IInv ==
  /\ PlayerAssumption /\ Types /\ OutOwns /\ PlaceOwns /\ ThreadOwns /\ OneOwner
  /\ ClosingOnce /\ Ending /\ Settled

\* What the places, counts and fences are when some frames are deleted and one moves.
LEMMA MoveMoves ==
  ASSUME Types, Settled, NEW f, NEW place \in Places, NEW gone \in SUBSET Frames,
         Move(f, place, gone), \A g \in gone : frame[g] # "deleted",
         f \in Frames => frame[f] # "deleted" /\ (f \in gone \/ place # "deleted"),
         place = "lost" => Cpu /\ closed',
         closed => closed',
         fence' \in [Frames -> {"none", "frame", "claimed", "closed"}],
         \A g \in Frames : frame[g] = "deleted" \/ g \in gone =>
                             fence'[g] # "frame"
  PROVE  /\ frame' \in [Frames -> Places] /\ deletions' \in [Frames -> Nat]
         /\ Settled'
         /\ \A g \in gone : frame'[g] = "deleted"
         /\ f \in Frames /\ f \notin gone => frame'[f] = place
         /\ \A g \in Frames : g \notin gone /\ g # f => frame'[g] = frame[g]
<1>1. /\ frame' = [g \in Frames |-> IF g \in gone THEN "deleted" ELSE IF g = f THEN place ELSE frame[g]]
      /\ deletions' = [g \in Frames |-> deletions[g] + IF g \in gone THEN 1 ELSE 0]
  BY DEF Move
<1>2. frame' \in [Frames -> Places] /\ deletions' \in [Frames -> Nat]
  BY <1>1 DEF Types, Places
<1>3. DeletedOnce'
  BY <1>1 DEF Settled, DeletedOnce, Types
<1>4. LostOnlyByClose'
  BY <1>1 DEF Settled, LostOnlyByClose
<1>5. FencesSettled'
  BY <1>1 DEF Settled, FencesSettled
<1> QED
  BY <1>1, <1>2, <1>3, <1>4, <1>5 DEF Settled

\* Where a thread goes, and that the others stay.
LEMMA GoGoes ==
  ASSUME Types, NEW t \in Apps, NEW to \in AppPC, NEW f \in Frames \cup {Nobody}, Go(t, to, f)
  PROVE  /\ app' \in [Apps -> Threads]
         /\ app'[t].at = to /\ app'[t].frame = f
         /\ \A u \in Apps : u # t => app'[u] = app[u]
BY DEF Types, Go, Threads

\* The threads' frames do not change places, and neither do the frames' fences: what is
\* left to show of a step of the output thread.
LEMMA OutputKeeps ==
  ASSUME IInv, UNCHANGED <<monitor, life, app, released>>,
         out' \in Outs, pending' \in Frames \cup {Nobody},
         frame' \in [Frames -> Places], deletions' \in [Frames -> Nat],
         fence' \in [Frames -> {"none", "frame", "claimed", "closed"}],
         \A g \in Frames : frame[g] \in {"handle", "object"} => frame'[g] = frame[g] /\ fence'[g] = fence[g],
         OutOwns', PlaceOwns', Settled',
         player # "running" => out' = out /\ pending' = pending
  PROVE  IInv'
<1>1. UNCHANGED <<closed, listening, callbacks, player>>
  BY DEF life
<1>2. Types' /\ PlayerAssumption'
  BY <1>1 DEF IInv, Types, PlayerAssumption
<1>3. ThreadOwns' /\ OneOwner'
  <2>1. app' = app /\ released' = released
    OBVIOUS
  <2>2. ThreadOwns'
    <3> SUFFICES ASSUME NEW t \in Apps
                 PROVE  /\ app[t].at \in Taking => app[t].frame \in Frames /\ frame'[app[t].frame] = "handle"
                        /\ app[t].at = "pixels" => Cpu
                        /\ app[t].at \in Releasing =>
                             /\ app[t].frame \in Frames /\ frame'[app[t].frame] = "object"
                             /\ released[app[t].frame]
                        /\ app[t].at = "native" => fence'[app[t].frame] # "frame"
      BY <2>1 DEF ThreadOwns, Owns
    <3> QED
      BY DEF IInv, ThreadOwns, Owns, Releasing
  <2>3. OneOwner'
    BY <2>1 DEF IInv, OneOwner
  <2> QED
    BY <2>2, <2>3
<1>4. ClosingOnce' /\ Ending'
  BY <1>1 DEF IInv, ClosingOnce, Ending
<1> QED
  BY <1>2, <1>3, <1>4 DEF IInv

\* swap() or cpu_display(), publish_frame(), and the callback.
LEMMA OutputSteps ==
  ASSUME IInv, OutputThread
  PROVE  IInv'
<1>0. /\ PlayerAssumption /\ Types /\ OutOwns /\ PlaceOwns /\ ThreadOwns /\ Settled /\ Ending
      /\ out \in Outs /\ frame \in [Frames -> Places] /\ pending \in Frames \cup {Nobody}
      /\ fence \in [Frames -> {"none", "frame", "claimed", "closed"}]
      /\ deletions \in [Frames -> Nat]
  BY DEF IInv, Types
<1>1. ASSUME NEW f \in Frames, Render(f)
      PROVE  IInv'
  <2>1. /\ out.at = "idle" /\ player = "running" /\ frame[f] = "unborn"
        /\ out' = [at |-> "publish", frame |-> f] /\ Move(f, "rendered", {})
        /\ UNCHANGED <<monitor, life, pending, app, released>>
    BY <1>1 DEF Render
  <2>2. /\ fence' \in [Frames -> {"none", "frame", "claimed", "closed"}]
        /\ \A g \in Frames : g # f => fence'[g] = fence[g]
    BY <1>0, <1>1 DEF Render
  <2>3. \A g \in Frames : frame[g] = "deleted" => fence'[g] # "frame"
    BY <1>0, <2>1, <2>2 DEF Settled, FencesSettled
  <2>4. /\ frame' \in [Frames -> Places] /\ deletions' \in [Frames -> Nat] /\ Settled'
        /\ frame'[f] = "rendered"
        /\ \A g \in Frames : g # f => frame'[g] = frame[g]
    BY <1>0, <2>1, <2>2, <2>3, MoveMoves DEF life, Places
  <2>5. OutOwns' /\ PlaceOwns' /\ out' \in Outs
    BY <1>0, <2>1, <2>4 DEF OutOwns, PlaceOwns, Outs
  <2> QED
    BY <1>0, <2>1, <2>2, <2>4, <2>5, OutputKeeps
<1>2. CASE Publish
  <2>1. /\ out.at = "publish" /\ pending' = out.frame /\ out' = [out EXCEPT !.at = "notify"]
        /\ Move(out.frame, "pending", Pending)
        /\ UNCHANGED <<monitor, life, app, released>>
        /\ fence' = [f \in Frames |-> IF f \in Pending /\ fence[f] = "frame" THEN "closed" ELSE fence[f]]
    BY <1>2 DEF Publish
  <2>2. /\ out.frame \in Frames /\ frame[out.frame] = "rendered" /\ player = "running"
        /\ out' \in Outs /\ out'.at = "notify"
    BY <1>0, <2>1 DEF OutOwns, Ending, Outs
  <2>3. /\ Pending \in SUBSET Frames /\ out.frame \notin Pending
        /\ \A g \in Frames : g \in Pending <=> frame[g] = "pending"
    BY <1>0, <2>2 DEF Pending, PlaceOwns, PlayerAssumption
  <2>4. /\ fence' \in [Frames -> {"none", "frame", "claimed", "closed"}]
        /\ \A g \in Frames : g \in Pending => fence'[g] # "frame"
        /\ \A g \in Frames : g \notin Pending => fence'[g] = fence[g]
    BY <1>0, <2>1
  <2>5. \A g \in Frames : frame[g] = "deleted" \/ g \in Pending => fence'[g] # "frame"
    BY <1>0, <2>3, <2>4 DEF Settled, FencesSettled
  <2>6. /\ frame' \in [Frames -> Places] /\ deletions' \in [Frames -> Nat] /\ Settled'
        /\ \A g \in Pending : frame'[g] = "deleted"
        /\ frame'[out.frame] = "pending"
        /\ \A g \in Frames : g \notin Pending /\ g # out.frame => frame'[g] = frame[g]
    BY <1>0, <2>1, <2>2, <2>3, <2>4, <2>5, MoveMoves DEF life, Places
  <2>7. OutOwns' /\ PlaceOwns'
    BY <1>0, <2>1, <2>2, <2>3, <2>6 DEF OutOwns, PlaceOwns
  <2>8. \A g \in Frames : frame[g] \in {"handle", "object"} => frame'[g] = frame[g] /\ fence'[g] = fence[g]
    BY <2>2, <2>3, <2>4, <2>6
  <2> QED
    BY <1>0, <2>1, <2>2, <2>4, <2>6, <2>7, <2>8, OutputKeeps
<1>3. CASE Notify \/ EnterListener \/ LeaveListener
  <2>1. /\ out.at \in {"notify", "sink", "listener"} /\ out'.at \in {"idle", "sink", "listener"}
        /\ out' \in Outs
        /\ UNCHANGED <<monitor, life, pending, app, frame, java, deletions>>
    BY <1>0, <1>3 DEF Notify, EnterListener, LeaveListener, OutGoes, Outs
  <2>2. UNCHANGED <<monitor, life, pending, app, frame, released, fence, deletions>> /\ player = "running"
    BY <1>0, <2>1 DEF java, Ending
  <2>3. OutOwns' /\ PlaceOwns'
    BY <1>0, <2>1, <2>2 DEF OutOwns, PlaceOwns
  <2>4. Settled'
    BY <1>0, <2>2 DEF Settled, DeletedOnce, LostOnlyByClose, FencesSettled, life
  <2> QED
    BY <1>0, <2>1, <2>2, <2>3, <2>4, OutputKeeps
<1> QED
  BY <1>1, <1>2, <1>3 DEF OutputThread

\* What is left to show of a step of a thread that takes or releases a frame: it owns
\* what it has then, and the frames of the others are not touched.
LEMMA ThreadKeeps ==
  ASSUME IInv, NEW t \in Apps, UNCHANGED <<monitor, life, out>>,
         app' \in [Apps -> Threads], \A u \in Apps : u # t => app'[u] = app[u],
         app'[t].at \in {"idle"} \cup Taking \cup Releasing,
         pending' \in {pending, Nobody},
         frame' \in [Frames -> Places], deletions' \in [Frames -> Nat],
         released' \in [Frames -> BOOLEAN],
         fence' \in [Frames -> {"none", "frame", "claimed", "closed"}],
         OutOwns', PlaceOwns', Settled', Owns(t)',
         NEW f \in Frames, app'[t].at # "idle" => app'[t].frame = f,
         \A u \in Apps : u # t /\ app[u].at \in Taking \cup Releasing => app[u].frame # f,
         \A g \in Frames : g # f /\ frame[g] \in {"handle", "object"} =>
                             /\ frame'[g] = frame[g] /\ released'[g] = released[g]
                             /\ fence'[g] = fence[g]
  PROVE  IInv'
<1>1. UNCHANGED <<closed, listening, callbacks, player>>
  BY DEF life
<1>2. Types' /\ PlayerAssumption'
  BY <1>1 DEF IInv, Types, PlayerAssumption
<1>3. ThreadOwns'
  <2> SUFFICES ASSUME NEW u \in Apps, u # t
               PROVE  Owns(u)'
    BY DEF ThreadOwns
  <2>1. app'[u] = app[u] /\ Owns(u)
    BY DEF IInv, ThreadOwns
  <2> QED
    BY <2>1 DEF Owns, Releasing
<1>4. OneOwner'
  BY DEF IInv, OneOwner, Taking, Releasing
<1>5. ClosingOnce'
  BY <1>1 DEF IInv, ClosingOnce, Closing, Taking, Releasing
<1>6. Ending'
  BY <1>1 DEF IInv, Ending, Taking, Releasing
<1> QED
  BY <1>2, <1>3, <1>4, <1>5, <1>6 DEF IInv

\* The frame a busy thread has is nobody else's.
LEMMA MyFrame ==
  ASSUME IInv, NEW t \in Apps, app[t].at \in Taking \cup Releasing
  PROVE  /\ app[t].frame \in Frames /\ Owns(t)
         /\ \A u \in Apps : u # t /\ app[u].at \in Taking \cup Releasing => app[u].frame # app[t].frame
BY DEF IInv, ThreadOwns, Owns, OneOwner

\* The steps of acquireLatestFrame() and release().
LEMMA FrameSteps ==
  ASSUME IInv, NEW t \in Apps,
         \/ AcquireHandle(t) \/ CpuFrameBuffer(t) \/ Wrap(t) \/ TakeFence(t) \/ ReleaseNative(t)
         \/ \E f \in Frames : Release(t, f)
  PROVE  IInv'
<1>0. /\ PlayerAssumption /\ Types /\ OutOwns /\ PlaceOwns /\ ThreadOwns /\ Settled /\ Ending
      /\ out \in Outs /\ frame \in [Frames -> Places] /\ pending \in Frames \cup {Nobody}
      /\ fence \in [Frames -> {"none", "frame", "claimed", "closed"}]
      /\ deletions \in [Frames -> Nat] /\ released \in [Frames -> BOOLEAN]
      /\ app \in [Apps -> Threads]
  BY DEF IInv, Types
<1>a. {"pixels", "wrap", "native", "fence", "idle"} \subseteq AppPC
      /\ {"handle", "object", "deleted", "lost"} \subseteq Places
  BY DEF AppPC, Places
<1>1. CASE AcquireHandle(t)
  <2> DEFINE to == IF Cpu THEN "pixels" ELSE "wrap"
  <2>1. /\ pending # Nobody /\ pending' = Nobody /\ Go(t, to, pending) /\ Move(pending, "handle", {})
        /\ UNCHANGED <<monitor, life, out, released, fence>>
    BY <1>1 DEF AcquireHandle, java
  <2>2. pending \in Frames /\ frame[pending] = "pending" /\ to \in AppPC /\ to \in Taking
        /\ (to = "pixels" => Cpu)
    BY <1>0, <2>1 DEF PlaceOwns, AppPC, Taking
  <2> HIDE DEF to
  <2>3. /\ app' \in [Apps -> Threads] /\ app'[t].at = to /\ app'[t].frame = pending
        /\ \A u \in Apps : u # t => app'[u] = app[u]
    BY <1>0, <2>1, <2>2, GoGoes
  <2>4. \A g \in Frames : frame[g] = "deleted" => fence'[g] # "frame"
    BY <1>0, <2>1 DEF Settled, FencesSettled
  <2>5. /\ frame' \in [Frames -> Places] /\ deletions' \in [Frames -> Nat] /\ Settled'
        /\ frame'[pending] = "handle"
        /\ \A g \in Frames : g # pending => frame'[g] = frame[g]
    BY <1>0, <2>1, <2>2, <2>4, MoveMoves DEF Places, life
  <2>6. OutOwns' /\ PlaceOwns'
    BY <1>0, <2>1, <2>2, <2>5 DEF OutOwns, PlaceOwns, PlayerAssumption
  <2>7. Owns(t)'
    BY <2>2, <2>3, <2>5 DEF Owns, Taking, Releasing
  <2>8. \A u \in Apps : app[u].at \in Taking \cup Releasing => app[u].frame # pending
    BY <1>0, <2>2 DEF ThreadOwns, Owns
  <2> QED
    BY <1>0, <2>1, <2>2, <2>3, <2>5, <2>6, <2>7, <2>8, ThreadKeeps
<1>2. CASE CpuFrameBuffer(t)
  <2> DEFINE f == app[t].frame
  <2>1. app[t].at = "pixels" /\ UNCHANGED <<monitor, life, pending, out, released, fence>>
    BY <1>2 DEF CpuFrameBuffer, At, java
  <2>2. /\ f \in Frames /\ frame[f] = "handle" /\ Cpu
        /\ \A u \in Apps : u # t /\ app[u].at \in Taking \cup Releasing => app[u].frame # f
    BY <2>1, MyFrame DEF Owns, Taking
  <2> HIDE DEF f
  <2>3. CASE closed /\ Go(t, "idle", Nobody) /\ Move(f, "lost", {})
    <3>1. /\ app' \in [Apps -> Threads] /\ app'[t].at = "idle"
          /\ \A u \in Apps : u # t => app'[u] = app[u]
      BY <1>0, <1>a, <2>3, GoGoes
    <3>2. /\ \A g \in Frames : frame[g] = "deleted" => fence'[g] # "frame"
          /\ closed'
      BY <1>0, <2>1, <2>3 DEF Settled, FencesSettled, life
    <3>3. /\ frame' \in [Frames -> Places] /\ deletions' \in [Frames -> Nat] /\ Settled'
          /\ frame'[f] = "lost"
          /\ \A g \in Frames : g # f => frame'[g] = frame[g]
      BY <1>0, <2>1, <2>2, <2>3, <3>2, MoveMoves DEF Places
    <3>4. OutOwns' /\ PlaceOwns' /\ Owns(t)'
      BY <1>0, <2>1, <2>2, <3>1, <3>3 DEF OutOwns, PlaceOwns, Owns, Taking, Releasing
    <3> QED
      BY <1>0, <2>1, <2>2, <3>1, <3>3, <3>4, ThreadKeeps
  <2>4. CASE Go(t, "wrap", f) /\ UNCHANGED <<frame, deletions>>
    <3>1. /\ app' \in [Apps -> Threads] /\ app'[t].at = "wrap" /\ app'[t].frame = f
          /\ \A u \in Apps : u # t => app'[u] = app[u]
      BY <1>0, <1>a, <2>2, <2>4, GoGoes
    <3>2. Settled'
      BY <1>0, <2>1, <2>4 DEF Settled, DeletedOnce, LostOnlyByClose, FencesSettled, life
    <3>3. OutOwns' /\ PlaceOwns' /\ Owns(t)'
      BY <1>0, <2>1, <2>2, <2>4, <3>1 DEF OutOwns, PlaceOwns, Owns, Taking, Releasing
    <3>4. app'[t].at \in Taking
      BY <3>1 DEF Taking
    <3> QED
      BY <1>0, <2>1, <2>2, <2>4, <3>1, <3>2, <3>3, <3>4, ThreadKeeps
  <2> QED
    BY <1>2, <2>3, <2>4 DEF CpuFrameBuffer, f
<1>3. CASE Wrap(t)
  <2> DEFINE f == app[t].frame
  <2>1. /\ app[t].at = "wrap" /\ Go(t, "idle", Nobody)
        /\ UNCHANGED <<monitor, life, pending, out, released>>
        /\ \/ Move(f, "object", {}) /\ UNCHANGED fence
           \/ /\ Move(f, "deleted", {f})
              /\ fence' = [fence EXCEPT ![f] = IF fence[f] = "frame" THEN "closed" ELSE fence[f]]
    BY <1>3 DEF Wrap, At
  <2>2. /\ f \in Frames /\ frame[f] = "handle"
        /\ \A u \in Apps : u # t /\ app[u].at \in Taking \cup Releasing => app[u].frame # f
    BY <2>1, MyFrame DEF Owns, Taking
  <2> HIDE DEF f
  <2>3. /\ app' \in [Apps -> Threads] /\ app'[t].at = "idle"
        /\ \A u \in Apps : u # t => app'[u] = app[u]
    BY <1>0, <1>a, <2>1, GoGoes
  <2>4. /\ fence' \in [Frames -> {"none", "frame", "claimed", "closed"}]
        /\ \A g \in Frames : g # f => fence'[g] = fence[g]
        /\ Move(f, "deleted", {f}) => fence'[f] # "frame" \/ UNCHANGED fence
    BY <1>0, <2>1, <2>2
  <2>5. /\ frame' \in [Frames -> Places] /\ deletions' \in [Frames -> Nat] /\ Settled'
        /\ frame'[f] \in {"object", "deleted"}
        /\ \A g \in Frames : g # f => frame'[g] = frame[g]
    <3>1. CASE Move(f, "object", {}) /\ UNCHANGED fence
      <4>1. \A g \in Frames : frame[g] = "deleted" => fence'[g] # "frame"
        BY <1>0, <3>1 DEF Settled, FencesSettled
      <4> QED
        BY <1>0, <2>1, <2>2, <3>1, <4>1, MoveMoves DEF Places, life
    <3>2. CASE /\ Move(f, "deleted", {f})
               /\ fence' = [fence EXCEPT ![f] = IF fence[f] = "frame" THEN "closed" ELSE fence[f]]
      <4>1. \A g \in Frames : frame[g] = "deleted" \/ g \in {f} => fence'[g] # "frame"
        BY <1>0, <3>2 DEF Settled, FencesSettled
      <4> QED
        BY <1>0, <2>1, <2>2, <2>4, <3>2, <4>1, MoveMoves DEF Places, life
    <3> QED
      BY <2>1, <3>1, <3>2
  <2>6. OutOwns' /\ PlaceOwns' /\ Owns(t)'
    BY <1>0, <2>1, <2>2, <2>3, <2>5 DEF OutOwns, PlaceOwns, Owns, Taking, Releasing
  <2> QED
    BY <1>0, <2>1, <2>2, <2>3, <2>4, <2>5, <2>6, ThreadKeeps
<1>4. ASSUME NEW f \in Frames, Release(t, f)
      PROVE  IInv'
  <2>1. /\ frame[f] = "object" /\ ~released[f] /\ Go(t, "fence", f)
        /\ released' = [released EXCEPT ![f] = TRUE]
        /\ UNCHANGED <<monitor, life, pending, out, frame, fence, deletions>>
    BY <1>4 DEF Release
  <2>2. /\ app' \in [Apps -> Threads] /\ app'[t].at = "fence" /\ app'[t].frame = f
        /\ \A u \in Apps : u # t => app'[u] = app[u]
    BY <1>0, <1>a, <2>1, GoGoes
  <2>3. /\ released' \in [Frames -> BOOLEAN] /\ released'[f]
        /\ \A g \in Frames : g # f => released'[g] = released[g]
    BY <1>0, <2>1
  <2>4. Settled'
    BY <1>0, <2>1 DEF Settled, DeletedOnce, LostOnlyByClose, FencesSettled, life
  <2>5. OutOwns' /\ PlaceOwns' /\ Owns(t)' /\ app'[t].at \in Releasing
    BY <1>0, <2>1, <2>2, <2>3 DEF OutOwns, PlaceOwns, Owns, Taking, Releasing
  <2>6. \A u \in Apps : app[u].at \in Taking \cup Releasing => app[u].frame # f
    BY <1>0, <2>1 DEF ThreadOwns, Owns
  <2>7. /\ UNCHANGED <<monitor, life, out>> /\ pending' \in {pending, Nobody}
        /\ frame' \in [Frames -> Places] /\ deletions' \in [Frames -> Nat]
        /\ fence' \in [Frames -> {"none", "frame", "claimed", "closed"}]
        /\ \A g \in Frames : g # f => /\ frame'[g] = frame[g] /\ released'[g] = released[g]
                                     /\ fence'[g] = fence[g]
    BY <1>0, <2>1, <2>3
  <2> QED
    BY <2>2, <2>3, <2>4, <2>5, <2>6, <2>7, ThreadKeeps
<1>5. CASE TakeFence(t)
  <2> DEFINE f == app[t].frame
  <2>1. /\ app[t].at = "fence" /\ Go(t, "native", f)
        /\ fence' = [fence EXCEPT ![f] = IF fence[f] = "frame" THEN "closed" ELSE fence[f]]
        /\ UNCHANGED <<monitor, life, pending, out, frame, released, deletions>>
    BY <1>5 DEF TakeFence, At
  <2>2. /\ f \in Frames /\ frame[f] = "object" /\ released[f]
        /\ \A u \in Apps : u # t /\ app[u].at \in Taking \cup Releasing => app[u].frame # f
    BY <2>1, MyFrame DEF Owns, Releasing
  <2> HIDE DEF f
  <2>3. /\ app' \in [Apps -> Threads] /\ app'[t].at = "native" /\ app'[t].frame = f
        /\ \A u \in Apps : u # t => app'[u] = app[u]
    BY <1>0, <1>a, <2>1, <2>2, GoGoes
  <2>4. /\ fence' \in [Frames -> {"none", "frame", "claimed", "closed"}] /\ fence'[f] # "frame"
        /\ \A g \in Frames : g # f => fence'[g] = fence[g]
    BY <1>0, <2>1, <2>2
  <2>5. Settled'
    BY <1>0, <2>1, <2>2, <2>4 DEF Settled, DeletedOnce, LostOnlyByClose, FencesSettled, life
  <2>6. OutOwns' /\ PlaceOwns' /\ Owns(t)' /\ app'[t].at \in Releasing
    BY <1>0, <2>1, <2>2, <2>3, <2>4 DEF OutOwns, PlaceOwns, Owns, Taking, Releasing
  <2> QED
    BY <1>0, <2>1, <2>2, <2>3, <2>4, <2>5, <2>6, ThreadKeeps
<1>6. CASE ReleaseNative(t)
  <2> DEFINE f == app[t].frame
  <2>1. /\ app[t].at = "native" /\ Go(t, "idle", Nobody) /\ Move(f, "deleted", {f})
        /\ UNCHANGED <<monitor, life, pending, out, released, fence>>
    BY <1>6 DEF ReleaseNative, At, java
  <2>2. /\ f \in Frames /\ frame[f] = "object" /\ fence[f] # "frame"
        /\ \A u \in Apps : u # t /\ app[u].at \in Taking \cup Releasing => app[u].frame # f
    BY <2>1, MyFrame DEF Owns, Releasing
  <2> HIDE DEF f
  <2>3. /\ app' \in [Apps -> Threads] /\ app'[t].at = "idle"
        /\ \A u \in Apps : u # t => app'[u] = app[u]
    BY <1>0, <1>a, <2>1, GoGoes
  <2>4. \A g \in Frames : frame[g] = "deleted" \/ g \in {f} => fence'[g] # "frame"
    BY <1>0, <2>1, <2>2 DEF Settled, FencesSettled
  <2>5. /\ frame' \in [Frames -> Places] /\ deletions' \in [Frames -> Nat] /\ Settled'
        /\ frame'[f] = "deleted"
        /\ \A g \in Frames : g # f => frame'[g] = frame[g]
    BY <1>0, <2>1, <2>2, <2>4, MoveMoves DEF Places, life
  <2>6. OutOwns' /\ PlaceOwns' /\ Owns(t)'
    BY <1>0, <2>1, <2>2, <2>3, <2>5 DEF OutOwns, PlaceOwns, Owns, Taking, Releasing
  <2> QED
    BY <1>0, <2>1, <2>2, <2>3, <2>5, <2>6, ThreadKeeps
<1> QED
  BY <1>1, <1>2, <1>3, <1>4, <1>5, <1>6

\* The caller of acquireFenceFd() owns the descriptor from then on.
LEMMA ClaimStep ==
  ASSUME IInv, NEW f \in Frames, ClaimFence(f)
  PROVE  IInv'
<1>1. /\ fence[f] = "frame" /\ fence' = [fence EXCEPT ![f] = "claimed"]
      /\ UNCHANGED <<monitor, life, pending, out, app, frame, released, deletions>>
  BY DEF ClaimFence
<1>2. /\ fence' \in [Frames -> {"none", "frame", "claimed", "closed"}]
      /\ \A g \in Frames : fence[g] # "frame" => fence'[g] # "frame"
  BY <1>1 DEF IInv, Types
<1>3. Types' /\ PlayerAssumption'
  BY <1>1, <1>2 DEF IInv, Types, PlayerAssumption, life
<1>4. OutOwns' /\ PlaceOwns' /\ OneOwner' /\ ClosingOnce' /\ Ending'
  BY <1>1 DEF IInv, OutOwns, PlaceOwns, OneOwner, ClosingOnce, Ending, life
<1>5. ThreadOwns'
  BY <1>1, <1>2 DEF IInv, ThreadOwns, Owns, Releasing
<1>6. Settled'
  BY <1>1, <1>2 DEF IInv, Settled, DeletedOnce, LostOnlyByClose, FencesSettled, life
<1> QED
  BY <1>3, <1>4, <1>5, <1>6 DEF IInv

\* What is left to show of a step of close().
LEMMA CloserKeeps ==
  ASSUME IInv, NEW t \in Apps, out' = out, released' = released,
         app[t].at \in Closing \/ ~closed,
         app' \in [Apps -> Threads], \A u \in Apps : u # t => app'[u] = app[u],
         app'[t].at \in Closing, closed',
         monitor' \in Apps \cup {Nobody}, closed' \in BOOLEAN, listening' \in BOOLEAN,
         callbacks' \in BOOLEAN, player' \in {"running", "joined", "deleted"},
         pending' \in {pending, Nobody},
         frame' \in [Frames -> Places], deletions' \in [Frames -> Nat],
         fence' \in [Frames -> {"none", "frame", "claimed", "closed"}],
         OutOwns', PlaceOwns', Settled',
         player' # "running" => out.at = "idle",
         player' = "deleted" => pending' = Nobody,
         app'[t].at = "delete" => player' = "joined",
         app'[t].at \in {"unlock", "done"} => player' = "deleted",
         \A g \in Frames : frame[g] \in {"handle", "object"} =>
                             frame'[g] = frame[g] /\ fence'[g] = fence[g]
  PROVE  IInv'
<1>1. Types' /\ PlayerAssumption'
  BY DEF IInv, Types, PlayerAssumption
<1>2. app'[t].at \notin Taking \cup Releasing /\ app'[t].at \notin {"pixels", "native"}
  BY DEF Taking, Releasing, Closing
<1>3. ThreadOwns'
  <2> SUFFICES ASSUME NEW u \in Apps
               PROVE  Owns(u)'
    BY DEF ThreadOwns
  <2>1. CASE u = t
    BY <1>2, <2>1 DEF Owns
  <2>2. CASE u # t
    <3>1. app'[u] = app[u] /\ Owns(u)
      BY <2>2 DEF IInv, ThreadOwns
    <3> QED
      BY <3>1 DEF Owns, Releasing
  <2> QED
    BY <2>1, <2>2
<1>4. OneOwner'
  BY <1>2 DEF IInv, OneOwner
<1>5. \A u \in Apps : u # t => app[u].at \notin Closing
  BY DEF IInv, ClosingOnce
<1>6. ClosingOnce'
  BY <1>5 DEF ClosingOnce
<1>7. Ending'
  BY <1>5 DEF Ending, Closing
<1> QED
  BY <1>1, <1>3, <1>4, <1>6, <1>7 DEF IInv

\* The steps of close().
LEMMA CloseSteps ==
  ASSUME IInv, NEW t \in Apps,
         \/ Close(t) \/ DisableSink(t) \/ Silence(t) \/ Drain(t) \/ Join(t) \/ DeletePlayer(t)
         \/ Unlock(t)
  PROVE  IInv'
<1>0. /\ PlayerAssumption /\ Types /\ OutOwns /\ PlaceOwns /\ Settled /\ Ending /\ ClosingOnce
      /\ frame \in [Frames -> Places] /\ pending \in Frames \cup {Nobody}
      /\ fence \in [Frames -> {"none", "frame", "claimed", "closed"}]
      /\ deletions \in [Frames -> Nat] /\ monitor \in Apps \cup {Nobody}
      /\ closed \in BOOLEAN /\ listening \in BOOLEAN /\ callbacks \in BOOLEAN
      /\ player \in {"running", "joined", "deleted"}
  BY DEF IInv, Types
<1>1. app[t].at \in Closing => closed
  BY <1>0 DEF ClosingOnce
<1>2. CASE Close(t) \/ DisableSink(t) \/ Silence(t) \/ Join(t) \/ Unlock(t)
  <2>1. PICK to \in {"disable", "silence", "drain", "delete", "done"} :
          /\ Go(t, to, Nobody)
          /\ UNCHANGED <<pending, out, frame, released, fence, deletions>>
          /\ app[t].at \in Closing \/ ~closed
          /\ closed' \in BOOLEAN /\ closed'
          /\ monitor' \in Apps \cup {Nobody} /\ listening' \in BOOLEAN /\ callbacks' \in BOOLEAN
          /\ \/ player' = player /\ to # "delete"
             \/ player' = "joined" /\ out.at = "idle" /\ to = "delete"
          /\ to = "done" => app[t].at = "unlock"
    BY <1>0, <1>1, <1>2 DEF Close, DisableSink, Silence, Join, Unlock, At, Closing, java, life
  <2>2. to \in AppPC /\ to \in Closing
    BY DEF AppPC, Closing
  <2>3. /\ app' \in [Apps -> Threads] /\ app'[t].at = to
        /\ \A u \in Apps : u # t => app'[u] = app[u]
    BY <1>0, <2>1, <2>2, GoGoes
  <2>4. OutOwns' /\ PlaceOwns'
    BY <1>0, <2>1 DEF OutOwns, PlaceOwns
  <2>5. Settled'
    BY <1>0, <2>1 DEF Settled, DeletedOnce, LostOnlyByClose, FencesSettled
  <2>6. /\ player' \in {"running", "joined", "deleted"}
        /\ player' # "running" => out.at = "idle"
        /\ player' = "deleted" => pending' = Nobody
        /\ app'[t].at = "delete" => player' = "joined"
        /\ app'[t].at \in {"unlock", "done"} => player' = "deleted"
    BY <1>0, <2>1, <2>3 DEF Ending
  <2> QED
    BY <1>0, <2>1, <2>2, <2>3, <2>4, <2>5, <2>6, CloserKeeps
<1>3. CASE Drain(t) \/ DeletePlayer(t)
  <2>1. PICK to \in {"join", "unlock"} :
          /\ Go(t, to, Nobody) /\ DeletePending
          /\ UNCHANGED <<monitor, closed, listening, callbacks, out, released>>
          /\ app[t].at \in Closing
          /\ \/ player' = player /\ to = "join"
             \/ player' = "deleted" /\ to = "unlock" /\ app[t].at = "delete"
    BY <1>3 DEF Drain, DeletePlayer, At, Closing, life
  <2>2. /\ pending' = Nobody /\ Move(Nobody, "deleted", Pending)
        /\ fence' = [f \in Frames |-> IF f \in Pending /\ fence[f] = "frame" THEN "closed" ELSE fence[f]]
    BY <2>1 DEF DeletePending
  <2>3. to \in AppPC /\ to \in Closing
    BY DEF AppPC, Closing
  <2>4. /\ app' \in [Apps -> Threads] /\ app'[t].at = to
        /\ \A u \in Apps : u # t => app'[u] = app[u]
    BY <1>0, <2>1, <2>3, GoGoes
  <2>5. /\ Pending \in SUBSET Frames /\ Nobody \notin Frames
        /\ \A g \in Frames : g \in Pending <=> frame[g] = "pending"
    BY <1>0 DEF Pending, PlaceOwns, PlayerAssumption
  <2>6. /\ fence' \in [Frames -> {"none", "frame", "claimed", "closed"}]
        /\ \A g \in Frames : g \in Pending => fence'[g] # "frame"
        /\ \A g \in Frames : g \notin Pending => fence'[g] = fence[g]
    BY <1>0, <2>2
  <2>7. \A g \in Frames : frame[g] = "deleted" \/ g \in Pending => fence'[g] # "frame"
    BY <1>0, <2>5, <2>6 DEF Settled, FencesSettled
  <2>8. /\ frame' \in [Frames -> Places] /\ deletions' \in [Frames -> Nat] /\ Settled'
        /\ \A g \in Pending : frame'[g] = "deleted"
        /\ \A g \in Frames : g \notin Pending => frame'[g] = frame[g]
    <3>1. closed => closed'
      BY <2>1
    <3> QED
      BY <1>0, <2>2, <2>5, <2>6, <2>7, <3>1, MoveMoves DEF Places
  <2>9. OutOwns' /\ PlaceOwns'
    BY <1>0, <2>1, <2>2, <2>5, <2>8 DEF OutOwns, PlaceOwns
  <2>10. /\ player' \in {"running", "joined", "deleted"}
         /\ player' # "running" => out.at = "idle"
         /\ app'[t].at = "delete" => player' = "joined"
         /\ app'[t].at \in {"unlock", "done"} => player' = "deleted"
    BY <1>0, <2>1, <2>4 DEF Ending
  <2>11. \A g \in Frames : frame[g] \in {"handle", "object"} => frame'[g] = frame[g] /\ fence'[g] = fence[g]
    BY <2>5, <2>6, <2>8
  <2> QED
    BY <1>0, <1>1, <2>1, <2>2, <2>3, <2>4, <2>6, <2>8, <2>9, <2>10, <2>11, CloserKeeps
<1> QED
  BY <1>2, <1>3

\* A player that has just been made.
LEMMA InitOwns == PlayerAssumption /\ Init => IInv
<1> SUFFICES ASSUME PlayerAssumption, Init
             PROVE  IInv
  OBVIOUS
<1>1. Types
  BY DEF Init, Types, Outs, Threads, AppPC, Places
<1>2. OutOwns /\ PlaceOwns /\ Ending
  BY DEF Init, OutOwns, PlaceOwns, Ending, PlayerAssumption
<1>3. \A t \in Apps : app[t].at = "idle"
  BY DEF Init
<1>4. ThreadOwns /\ OneOwner /\ ClosingOnce
  BY <1>3 DEF ThreadOwns, Owns, OneOwner, ClosingOnce, Taking, Releasing, Closing
<1>5. Settled
  BY DEF Init, Settled, DeletedOnce, LostOnlyByClose, FencesSettled
<1> QED
  BY <1>1, <1>2, <1>4, <1>5 DEF IInv

\* Every step of the output thread and of the application keeps the invariant.
LEMMA NextOwns ==
  ASSUME IInv, [Next]_vars
  PROVE  IInv'
<1>1. CASE OutputThread
  BY <1>1, OutputSteps
<1>2. CASE Application
  BY <1>2, FrameSteps, CloseSteps, ClaimStep DEF Application
<1>3. CASE UNCHANGED vars
  BY <1>3 DEF vars, life, java, IInv, PlayerAssumption, Types, OutOwns, PlaceOwns, ThreadOwns,
                    Owns, OneOwner, ClosingOnce, Ending, Settled, DeletedOnce, LostOnlyByClose,
                    FencesSettled
<1> QED
  BY <1>1, <1>2, <1>3 DEF Next

\* Under the invariant nothing is left in use, and every frame is settled.
LEMMA InvIsClean ==
  IInv => QuietAfterClose /\ NoUseAfterDelete /\ DeletedOnce /\ LostOnlyByClose /\ FencesSettled
<1> SUFFICES ASSUME IInv
             PROVE  QuietAfterClose /\ NoUseAfterDelete
  BY DEF IInv, Settled
<1>1. NoUseAfterDelete
  BY DEF IInv, Ending, NoUseAfterDelete
<1>2. QuietAfterClose
  <2> SUFFICES ASSUME NEW t \in Apps, app[t].at = "done"
               PROVE  /\ out.at = "idle" /\ pending = Nobody
                      /\ \A f \in Frames : frame[f] \notin {"rendered", "pending"}
    BY DEF QuietAfterClose, At
  <2>1. player = "deleted" /\ out.at = "idle" /\ pending = Nobody
    BY DEF IInv, Ending
  <2> QED
    BY <2>1 DEF IInv, OutOwns, PlaceOwns, PlayerAssumption
<1> QED
  BY <1>1, <1>2

\* However acquisition, release, fences, publication and close() interleave: each native
\* frame is deleted once and its fence settled, only close() loses a CPU frame, no callback
\* runs in a deleted player, and after close() nothing is left (VlcDesktopPlayer,
\* VlcDesktopFrame, kmediavlc_player_destroy).
THEOREM PlayerEndsCleanly ==
  PlayerAssumption /\ Spec =>
    [](QuietAfterClose /\ NoUseAfterDelete /\ DeletedOnce /\ LostOnlyByClose /\ FencesSettled)
  BY NextOwns, InvIsClean, InitOwns, PTL DEF Spec
=============================================================================
