---------------------------- MODULE DesktopPlayer ----------------------------
(***************************************************************************)
(* VlcDesktopPlayer, VlcDesktopFrame and, below them, the life of a native *)
(* player (native/src/kmediavlc_jni.cpp, kmediavlc_bridge.cpp): threads of *)
(* the application take frames, release them and close the player, while   *)
(* libVLC's output thread publishes frames and calls the listener.         *)
(***************************************************************************)
EXTENDS Naturals, FiniteSets

CONSTANTS
  Apps,      \* threads of the application
  Frames,    \* native frames that are ever rendered (bound)
  Cpu,       \* is delivery by CPU pull?
  Nobody     \* no frame, no thread

VARIABLES
  monitor,    \* who is in synchronized (nativeCalls)
  closed,     \* VlcDesktopPlayer.closed
  listening,  \* NativeEventSink.enabled
  callbacks,  \* callbacks_enabled of the native player
  player,     \* the native player: "running", "joined" (libVLC released) or "deleted"
  pending,    \* pending_frame
  out,        \* the output thread: where it is, and with which frame
  app,        \* the same of each thread of the application
  frame,      \* where each native frame is
  released,   \* VlcDesktopFrame.released
  fence,      \* the acquire fence of each frame: in the frame, with whom, or closed
  deletions   \* how often each native frame was deleted (not in the code)

vars == <<monitor, closed, listening, callbacks, player, pending, out, app, frame,
          released, fence, deletions>>
life == <<closed, listening, callbacks, player>>
java == <<released, fence>>

Places == {"unborn", "rendered", "pending", "handle", "object", "lost", "deleted"}
AppPC == {"idle", "pixels", "wrap", "fence", "native",
          "disable", "silence", "drain", "join", "delete", "unlock", "done"}

TypeOK ==
  /\ monitor \in Apps \cup {Nobody}
  /\ closed \in BOOLEAN /\ listening \in BOOLEAN /\ callbacks \in BOOLEAN
  /\ player \in {"running", "joined", "deleted"}
  /\ pending \in Frames \cup {Nobody}
  /\ out \in [at : {"idle", "publish", "notify", "sink", "listener"}, frame : Frames \cup {Nobody}]
  /\ app \in [Apps -> [at : AppPC, frame : Frames \cup {Nobody}]]
  /\ frame \in [Frames -> Places]
  /\ released \in [Frames -> BOOLEAN]
  /\ fence \in [Frames -> {"none", "frame", "claimed", "closed"}]
  /\ deletions \in [Frames -> 0..2]

Init ==
  /\ monitor = Nobody
  /\ closed = FALSE /\ listening = TRUE /\ callbacks = TRUE /\ player = "running"
  /\ pending = Nobody
  /\ out = [at |-> "idle", frame |-> Nobody]
  /\ app = [t \in Apps |-> [at |-> "idle", frame |-> Nobody]]
  /\ frame = [f \in Frames |-> "unborn"]
  /\ released = [f \in Frames |-> FALSE]
  /\ fence = [f \in Frames |-> "none"]
  /\ deletions = [f \in Frames |-> 0]

\* Frame f goes to `place`, and the frames in `gone` are deleted.
Move(f, place, gone) ==
  /\ frame' = [g \in Frames |-> IF g \in gone THEN "deleted" ELSE IF g = f THEN place ELSE frame[g]]
  /\ deletions' = [g \in Frames |-> deletions[g] + IF g \in gone THEN 1 ELSE 0]

Pending == {pending} \ {Nobody}
At(t, from) == app[t].at = from
Go(t, to, f) == app' = [app EXCEPT ![t] = [at |-> to, frame |-> f]]

-----------------------------------------------------------------------------
(* libVLC's output thread; it lives until media_player_release() *)

\* swap() or cpu_display() makes a frame; GPU frames may carry an acquire fence.
Render(f) ==
  /\ out.at = "idle" /\ player = "running" /\ frame[f] = "unborn"
  /\ out' = [at |-> "publish", frame |-> f]
  /\ fence' \in {fence, [fence EXCEPT ![f] = IF Cpu THEN "none" ELSE "frame"]}
  /\ Move(f, "rendered", {})
  /\ UNCHANGED <<monitor, life, pending, app, released>>

\* publish_frame() under frame_mutex: the frame that waited is superseded, and its
\* destructor closes the fence.  (Which frames it retains or drops: BridgeTransport.)
Publish ==
  /\ out.at = "publish"
  /\ pending' = out.frame
  /\ out' = [out EXCEPT !.at = "notify"]
  /\ Move(out.frame, "pending", Pending)
  /\ fence' = [f \in Frames |-> IF f \in Pending /\ fence[f] = "frame" THEN "closed" ELSE fence[f]]
  /\ UNCHANGED <<monitor, life, app, released>>

OutGoes(from, to) ==
  /\ out.at = from
  /\ out' = IF to = "idle" THEN [at |-> to, frame |-> Nobody] ELSE [out EXCEPT !.at = to]
  /\ UNCHANGED <<monitor, life, pending, app, frame, java, deletions>>

\* callbacks_enabled; NativeEventSink.enabled; the listener returns at once and
\* calls nothing (VlcPlayerListener).
Notify == OutGoes("notify", IF callbacks THEN "sink" ELSE "idle")
EnterListener == OutGoes("sink", IF listening THEN "listener" ELSE "idle")
LeaveListener == OutGoes("listener", "idle")

-----------------------------------------------------------------------------
(* Threads of the application: acquireLatestFrame() *)

\* The first callNative().  A closed player throws, and nothing pending is null.
AcquireHandle(t) ==
  /\ At(t, "idle") /\ monitor = Nobody /\ ~closed /\ pending # Nobody
  /\ pending' = Nobody
  /\ Go(t, IF Cpu THEN "pixels" ELSE "wrap", pending)
  /\ Move(pending, "handle", {})
  /\ UNCHANGED <<monitor, life, out, java>>

\* The second callNative(), for CPU frames.  A closed player throws here too, and
\* then nobody knows the handle any more.
CpuFrameBuffer(t) ==
  /\ At(t, "pixels") /\ monitor = Nobody
  /\ IF closed THEN Go(t, "idle", Nobody) /\ Move(app[t].frame, "lost", {})
               ELSE Go(t, "wrap", app[t].frame) /\ UNCHANGED <<frame, deletions>>
  /\ UNCHANGED <<monitor, life, pending, out, java>>

\* new VlcDesktopFrame(): malformed metadata close the fence and release the frame.
Wrap(t) ==
  /\ At(t, "wrap")
  /\ Go(t, "idle", Nobody)
  /\ LET f == app[t].frame
     IN \/ Move(f, "object", {}) /\ UNCHANGED fence
        \/ Move(f, "deleted", {f}) /\ fence' = [fence EXCEPT ![f] = IF @ = "frame" THEN "closed" ELSE @]
  /\ UNCHANGED <<monitor, life, pending, out, released>>

\* acquireFenceFd(): the caller owns the descriptor from here on.
ClaimFence(f) ==
  /\ frame[f] = "object" /\ fence[f] = "frame"
  /\ fence' = [fence EXCEPT ![f] = "claimed"]
  /\ UNCHANGED <<monitor, life, pending, out, app, frame, released, deletions>>

\* A mutant of Release: the flag is read and written in two steps.
ReleaseUnguarded(t, f) ==
  /\ At(t, "idle") /\ frame[f] \in {"object", "deleted"}
  /\ Go(t, "fence", f)
  /\ released' = [released EXCEPT ![f] = TRUE]
  /\ UNCHANGED <<monitor, life, pending, out, frame, fence, deletions>>

\* release(), from any thread and as often as one likes: one compareAndSet wins.
Release(t, f) ==
  /\ At(t, "idle") /\ frame[f] = "object" /\ ~released[f]
  /\ Go(t, "fence", f)
  /\ released' = [released EXCEPT ![f] = TRUE]
  /\ UNCHANGED <<monitor, life, pending, out, frame, fence, deletions>>

\* acquireFenceFd.getAndSet(NO_FENCE), and closeFence().
TakeFence(t) ==
  /\ At(t, "fence")
  /\ Go(t, "native", app[t].frame)
  /\ fence' = [fence EXCEPT ![app[t].frame] = IF @ = "frame" THEN "closed" ELSE @]
  /\ UNCHANGED <<monitor, life, pending, out, frame, released, deletions>>

\* releaseFrame(), which needs neither the monitor nor the player.
ReleaseNative(t) ==
  /\ At(t, "native")
  /\ Go(t, "idle", Nobody)
  /\ Move(app[t].frame, "deleted", {app[t].frame})
  /\ UNCHANGED <<monitor, life, pending, out, java>>

-----------------------------------------------------------------------------
(* close(): all of it in the monitor *)

Close(t) ==
  /\ At(t, "idle") /\ monitor = Nobody /\ ~closed
  /\ monitor' = t /\ closed' = TRUE
  /\ Go(t, "disable", Nobody)
  /\ UNCHANGED <<listening, callbacks, player, pending, out, frame, java, deletions>>

DisableSink(t) ==
  /\ At(t, "disable") /\ Go(t, "silence", Nobody)
  /\ listening' = FALSE
  /\ UNCHANGED <<monitor, closed, callbacks, player, pending, out, frame, java, deletions>>

\* kmediavlc_player_destroy(): callbacks_enabled
Silence(t) ==
  /\ At(t, "silence") /\ Go(t, "drain", Nobody)
  /\ callbacks' = FALSE
  /\ UNCHANGED <<monitor, closed, listening, player, pending, out, frame, java, deletions>>

DeletePending ==
  /\ pending' = Nobody
  /\ Move(Nobody, "deleted", Pending)
  /\ fence' = [f \in Frames |-> IF f \in Pending /\ fence[f] = "frame" THEN "closed" ELSE fence[f]]

\* The pending frame is taken out; publish_frame() may put another in its place.
Drain(t) ==
  /\ At(t, "drain") /\ Go(t, "join", Nobody)
  /\ DeletePending
  /\ UNCHANGED <<monitor, life, out, released>>

\* A mutant of Join: libVLC is released without waiting for its threads.
JoinNobody(t) ==
  /\ At(t, "join") /\ Go(t, "delete", Nobody)
  /\ player' = "joined"
  /\ UNCHANGED <<monitor, closed, listening, callbacks, pending, out, frame, java, deletions>>

\* media_player_release() returns when the output thread has ended.
Join(t) ==
  /\ At(t, "join") /\ out.at = "idle" /\ Go(t, "delete", Nobody)
  /\ player' = "joined"
  /\ UNCHANGED <<monitor, closed, listening, callbacks, pending, out, frame, java, deletions>>

\* A mutant of DeletePlayer: nobody looks at the place again.
DeletePlayerOnly(t) ==
  /\ At(t, "delete") /\ Go(t, "unlock", Nobody)
  /\ player' = "deleted" /\ pending' = Nobody
  /\ UNCHANGED <<monitor, closed, listening, callbacks, out, frame, java, deletions>>

\* delete player, and with it whatever its pending_frame holds by now.
DeletePlayer(t) ==
  /\ At(t, "delete") /\ Go(t, "unlock", Nobody)
  /\ player' = "deleted"
  /\ DeletePending
  /\ UNCHANGED <<monitor, closed, listening, callbacks, out, released>>

\* disable_and_release() (JniEventSink), and the end of the synchronized block.
Unlock(t) ==
  /\ At(t, "unlock") /\ Go(t, "done", Nobody)
  /\ monitor' = Nobody
  /\ UNCHANGED <<life, pending, out, frame, java, deletions>>

-----------------------------------------------------------------------------
OutputThread == (\E f \in Frames : Render(f)) \/ Publish \/ Notify \/ EnterListener \/ LeaveListener

Application ==
  \/ \E t \in Apps : \/ AcquireHandle(t) \/ CpuFrameBuffer(t) \/ Wrap(t)
                     \/ TakeFence(t) \/ ReleaseNative(t)
                     \/ Close(t) \/ DisableSink(t) \/ Silence(t) \/ Drain(t)
                     \/ Join(t) \/ DeletePlayer(t) \/ Unlock(t)
                     \/ \E f \in Frames : Release(t, f)
  \/ \E f \in Frames : ClaimFence(f)

Next == OutputThread \/ Application

Spec == Init /\ [][Next]_vars

-----------------------------------------------------------------------------
(* Properties *)

\* When close() has returned nothing of the player is in use: libVLC's thread is in
\* no callback, the listener is not running and no frame has been left behind in the
\* place that destroy() emptied.
QuietAfterClose ==
  (\E t \in Apps : At(t, "done")) =>
    /\ out.at = "idle" /\ pending = Nobody
    /\ \A f \in Frames : frame[f] \notin {"rendered", "pending"}

\* The output thread never runs in a player that has been deleted.
NoUseAfterDelete == player = "deleted" => out.at = "idle"

\* Every native frame is deleted once, by whoever owns it: the player, the thread
\* that was taking it, or one of the threads that release its object.
DeletedOnce == \A f \in Frames : deletions[f] = IF frame[f] = "deleted" THEN 1 ELSE 0

\* A frame is lost only in one way: close() comes between the two native calls with
\* which a CPU frame is taken.
LostOnlyByClose == \A f \in Frames : frame[f] = "lost" => Cpu /\ closed

\* When a frame has been deleted, its acquire fence is closed or belongs to the
\* consumer.
FencesSettled == \A f \in Frames : frame[f] = "deleted" => fence[f] # "frame"
=============================================================================
