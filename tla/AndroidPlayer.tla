---------------------------- MODULE AndroidPlayer ----------------------------
(***************************************************************************)
(* native/android/kmediavlc_android_jni.cpp: the surfaces an Android       *)
(* player renders into, and the media player that has to be made anew when *)
(* they are replaced.  The calls of VlcAndroidPlayer come one after the    *)
(* other (synchronized); libVLC's input and output threads do not wait for *)
(* them.                                                                   *)
(***************************************************************************)
EXTENDS Naturals, FiniteSets

CONSTANTS
  Windows,      \* ANativeWindows
  Attachments,  \* the pairs of windows that are attached: <<video>> or <<video, subtitles>>
  MaxCalls      \* bound: calls of the application

VARIABLES
  surfaces,     \* video_surface and subtitle_surface; <<>> is none
  previous,     \* what replace_surfaces() has put aside
  binding,      \* what setup_anw() has taken for libVLC's output; <<>> is none
  references,   \* ANativeWindow references the native code holds
  step,         \* where replace_surfaces() is; "idle" between calls, "gone" after destroy
  alive,        \* is there a media_player?
  installed,    \* output_callbacks_installed
  media,        \* is there a current_media?
  input,        \* libVLC's input: "none", "opening", "playing", "paused", "stopped"
  state,        \* the public state
  intent,       \* transport_intent
  pausing,      \* pause_pending
  resumes,      \* resume_playback, of recreate_media_player()
  calls

vars == <<surfaces, previous, binding, references, step, alive, installed, media, input, state,
          intent, pausing, resumes, calls>>
windows == <<surfaces, previous, binding, references>>
transport == <<input, state, intent, pausing, resumes>>

InPair(w, pair) == \E i \in DOMAIN pair : pair[i] = w
Holds(pair) == [w \in Windows |-> IF InPair(w, pair) THEN 1 ELSE 0]
Plus(pair) == [w \in Windows |-> references[w] + Holds(pair)[w]]
Minus(pair) == [w \in Windows |-> references[w] - Holds(pair)[w]]

TypeOK ==
  /\ {surfaces, previous, binding} \subseteq Attachments \cup {<<>>}
  /\ references \in [Windows -> 0..4]
  /\ step \in {"idle", "recreate", "release", "create", "settle", "undo", "gone"}
  /\ alive \in BOOLEAN /\ installed \in BOOLEAN /\ media \in BOOLEAN /\ pausing \in BOOLEAN
  /\ resumes \in BOOLEAN
  /\ input \in {"none", "opening", "playing", "paused", "stopped"}
  /\ state \in {"idle", "active", "stopped", "ended", "error"}
  /\ intent \in {"stopped", "playing", "paused"}
  /\ calls \in 0..MaxCalls

Init ==
  /\ surfaces = <<>> /\ previous = <<>> /\ binding = <<>>
  /\ references = [w \in Windows |-> 0]
  /\ step = "idle" /\ alive = TRUE /\ installed = TRUE /\ media = FALSE
  /\ input = "none" /\ state = "idle" /\ intent = "stopped" /\ pausing = FALSE
  /\ resumes = FALSE /\ calls = 0

\* A call of the application begins.
Call == step = "idle" /\ calls < MaxCalls /\ calls' = calls + 1
Running == input \in {"opening", "playing", "paused"}

-----------------------------------------------------------------------------
(* replace_surfaces() *)

\* ANativeWindow_fromSurface() takes a reference of each; nothing to do if they are
\* the surfaces there are.  Otherwise they are exchanged before libVLC hears of it.
Replace(pair) ==
  /\ Call
  /\ IF pair = surfaces
     THEN UNCHANGED <<windows, step>>
     ELSE /\ surfaces' = pair /\ previous' = surfaces
          /\ references' = Plus(pair)
          /\ step' = IF pair # <<>> /\ media
                     THEN IF alive THEN "recreate" ELSE "undo"
                     ELSE IF installed THEN "settle" ELSE "undo"
          /\ UNCHANGED binding
  /\ UNCHANGED <<alive, installed, media, transport>>

Resumes == intent # "stopped" /\ state \notin {"ended", "error"}

\* A mutant of NoteTransport: a pause is not carried over.
NoteForgettingPause ==
  /\ step = "recreate" /\ step' = "release"
  /\ resumes' = Resumes /\ pausing' = FALSE
  /\ UNCHANGED <<windows, alive, installed, media, input, state, intent, calls>>

\* recreate_media_player() notes what is to be carried over.
NoteTransport ==
  /\ step = "recreate" /\ step' = "release"
  /\ resumes' = Resumes /\ pausing' = (Resumes /\ intent = "paused")
  /\ UNCHANGED <<windows, alive, installed, media, input, state, intent, calls>>

\* It has asked for time and tracks since; now the old media player is released, which
\* waits for its threads; its output gives its windows back.
ReleaseMediaPlayer ==
  /\ step = "release" /\ step' = "create"
  /\ alive' = FALSE /\ installed' = FALSE
  /\ binding' = <<>> /\ references' = Minus(binding)
  /\ input' = "none"
  /\ UNCHANGED <<surfaces, previous, media, state, intent, pausing, resumes, calls>>

\* A new media player plays the media if that was noted; either may fail.  Should the
\* input be ready by then, the pause is applied at once.
Recreate ==
  /\ step = "create" /\ resumes' = FALSE
  /\ \/ /\ alive' = TRUE /\ installed' = TRUE
        /\ \/ ~resumes /\ step' = "settle" /\ state' = "idle" /\ UNCHANGED <<input, pausing>>
           \/ resumes /\ step' = "settle" /\ input' = "opening" /\ UNCHANGED <<state, pausing>>
           \/ /\ resumes /\ pausing /\ step' = "settle" /\ input' = "paused" /\ pausing' = FALSE
              /\ UNCHANGED state
           \/ resumes /\ step' = "undo" /\ state' = "error" /\ UNCHANGED <<input, pausing>>
     \/ /\ step' = "undo" /\ state' = "error"
        /\ UNCHANGED <<alive, installed, input, pausing>>
  /\ UNCHANGED <<windows, media, intent, calls>>

\* The surfaces put aside are released.
Settle ==
  /\ step = "settle" /\ step' = "idle"
  /\ previous' = <<>> /\ references' = Minus(previous)
  /\ UNCHANGED <<surfaces, binding, alive, installed, media, transport, calls>>

\* A mutant of Undo: the rejected surfaces are kept, the former ones forgotten.
UndoNothing ==
  /\ step = "undo" /\ step' = "idle"
  /\ previous' = <<>>
  /\ UNCHANGED <<surfaces, binding, references, alive, installed, media, transport, calls>>

\* Or the rejected ones, and the former ones are in place again.
Undo ==
  /\ step = "undo" /\ step' = "idle"
  /\ surfaces' = previous /\ previous' = <<>>
  /\ references' = Minus(surfaces)
  /\ UNCHANGED <<binding, alive, installed, media, transport, calls>>

-----------------------------------------------------------------------------
(* The other calls; without a media player each of them returns false *)

\* libVLC goes on with the new media if it was playing the old one.
Open(autoplay) ==
  /\ Call /\ alive
  /\ media' = TRUE /\ pausing' = FALSE /\ state' = "idle"
  /\ intent' = IF autoplay THEN "playing" ELSE "stopped"
  /\ input' \in IF Running THEN {"opening"} ELSE IF autoplay THEN {"opening", input} ELSE {input}
  /\ UNCHANGED <<windows, step, alive, installed, resumes>>

Play ==
  /\ Call /\ alive /\ media
  /\ pausing' = FALSE /\ intent' = "playing"
  /\ input' = IF input \in {"opening", "playing"} THEN input
              ELSE IF input = "paused" THEN "playing" ELSE "opening"
  /\ UNCHANGED <<windows, step, alive, installed, media, state, resumes>>

\* set_pause() stops an input whose capabilities are not known yet.
Paused == IF input = "opening" THEN "stopped" ELSE IF input = "playing" THEN "paused" ELSE input
CanPause == input \in {"playing", "paused"}

\* apply_pending_pause(), if `asked`.
ApplyPendingPause(asked) ==
  IF asked /\ pausing /\ CanPause THEN pausing' = FALSE /\ input' = Paused
                                  ELSE UNCHANGED <<pausing, input>>

Pause ==
  /\ Call /\ alive
  /\ intent' = "paused"
  /\ IF pausing THEN ApplyPendingPause(TRUE) ELSE input' = Paused /\ UNCHANGED pausing
  /\ UNCHANGED <<windows, step, alive, installed, media, state, resumes>>

Stop ==
  /\ Call /\ alive
  /\ pausing' = FALSE /\ intent' = "stopped"
  /\ IF state \in {"ended", "stopped"}
     THEN state' = "stopped" /\ UNCHANGED input
     ELSE input' = (IF Running THEN "stopped" ELSE input) /\ UNCHANGED state
  /\ UNCHANGED <<windows, step, alive, installed, media, resumes>>

Snapshot ==
  /\ Call /\ alive
  /\ ApplyPendingPause(TRUE)
  /\ UNCHANGED <<windows, step, alive, installed, media, state, intent, resumes>>

\* close(): the media player goes before its windows do.
Destroy ==
  /\ step = "idle" /\ step' = "gone"
  /\ surfaces' = <<>> /\ binding' = <<>>
  /\ references' = [w \in Windows |-> references[w] - Holds(surfaces)[w] - Holds(binding)[w]]
  /\ alive' = FALSE /\ installed' = FALSE /\ media' = FALSE /\ input' = "none"
  /\ UNCHANGED <<previous, state, intent, pausing, calls, resumes>>

-----------------------------------------------------------------------------
(* libVLC's threads *)

\* A mutant of Setup: the windows are used without references of their own.
SetupBorrowing ==
  /\ alive /\ Running /\ binding = <<>> /\ surfaces # <<>>
  /\ binding' = surfaces
  /\ UNCHANGED <<surfaces, previous, references, step, alive, installed, media, transport, calls>>

\* setup_anw() and cleanup_anw(), whenever libVLC opens or closes its output.
Setup ==
  /\ alive /\ Running /\ binding = <<>> /\ surfaces # <<>>
  /\ binding' = surfaces /\ references' = Plus(surfaces)
  /\ UNCHANGED <<surfaces, previous, step, alive, installed, media, transport, calls>>

CloseOutput ==
  /\ binding # <<>>
  /\ binding' = <<>> /\ references' = Minus(binding)
  /\ UNCHANGED <<surfaces, previous, step, alive, installed, media, transport, calls>>

\* The input is ready, or comes to its end (on_media_stopping).
Advance ==
  /\ \/ input = "opening" /\ input' = "playing" /\ UNCHANGED state
     \/ Running /\ input' = "stopped" /\ state' \in {"ended", "error"}
  /\ UNCHANGED <<windows, step, alive, installed, media, intent, pausing, calls, resumes>>

\* on_state_changed(), late or not: it tells of any of the states there have been,
\* except that "stopped" never replaces the reason of the stop; on_media_stopping()
\* of a stop the user asked for does.
Report ==
  /\ alive /\ input # "none"
  /\ state' \in {"active"} \cup
               (IF state \in {"ended", "error"} /\ intent # "stopped" THEN {} ELSE {"stopped"})
  /\ UNCHANGED <<windows, step, alive, installed, media, input, intent, pausing, calls, resumes>>

Next ==
  \/ \E pair \in Attachments \cup {<<>>} : Replace(pair)
  \/ NoteTransport \/ ReleaseMediaPlayer \/ Recreate \/ Settle \/ Undo
  \/ \E autoplay \in BOOLEAN : Open(autoplay)
  \/ Play \/ Pause \/ Stop \/ Snapshot \/ Destroy
  \/ Setup \/ CloseOutput \/ Advance \/ Report

Spec == Init /\ [][Next]_vars

-----------------------------------------------------------------------------
(* Properties *)

\* Every window has exactly the references its users have taken: the player, its
\* output and a replacement under way, however the replacement ends.  So no user is
\* left with a window that was released, and none stays referenced after close().
WindowsBalanced ==
  references = [w \in Windows |-> Holds(surfaces)[w] + Holds(previous)[w] + Holds(binding)[w]]

\* A paused player does not play on after its surfaces were replaced: it is paused, or
\* its pause waits for the input's capabilities.  Only of an input that started when the
\* state still told of an earlier end is the pause dropped, when it is to be released.
PausedStaysPaused ==
  intent = "paused" => input # "playing" \/ pausing \/ (step = "release" /\ ~resumes)

\* A replacement never starts the input of a player that was stopped, or whose media had
\* ended when the transport was noted.  An end that comes after that, before the old
\* media player is released, is not seen: such a media starts again.
ReplacementRestartsNothing ==
  [][/\ step = "create" /\ input' \in {"opening", "paused"} => resumes /\ intent # "stopped"
     /\ ~resumes /\ resumes' => state # "ended"]_vars
=============================================================================
