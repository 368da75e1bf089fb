--------------------------- MODULE BridgeTransport ---------------------------
(***************************************************************************)
(* The transport commands of native/src/kmediavlc_bridge.cpp: open, play,  *)
(* pause, stop, seek and get_snapshot, against libVLC's callback thread    *)
(* (state and position events) and its video output thread                 *)
(* (publish_frame).  Commands hold the recursive transport_mutex, frame    *)
(* delivery lives under frame_mutex, and the rest is atomics; a step is a  *)
(* critical section of frame_mutex, a call of libVLC, or the accesses to   *)
(* atomics between two of them.                                            *)
(*                                                                         *)
(* A seek while paused resumes libVLC internally until a surface is        *)
(* rendered and the clock reaches the target, then pauses it again: this   *)
(* is what most properties are about.                                      *)
(***************************************************************************)
EXTENDS Integers, Sequences

CONSTANTS Callers,          \* threads calling the C ABI
          VlcThread,        \* the thread libVLC's event callbacks run on
          OutputThread,     \* the thread publish_frame runs on
          NoFrame,          \* a null kmediavlc_frame
          NoOwner,          \* transport_mutex is free
          MaxTime,          \* length of the media
          Targets,          \* times the callers seek to
          Tolerance,        \* kPausedSeekFrameToleranceMicroseconds
          MaximumOvershoot, \* kPausedSeekMaximumOvershootMicroseconds
          RunAhead,         \* may a paused libVLC still render surfaces?
          MayRefuse,        \* may libVLC refuse a call?
          MaxGeneration,    \* bound on transport_generation
          MaxSerial,        \* bound on the serial of a frame
          MaxEvents         \* bound on undelivered state events

ASSUME BridgeAssumption ==
  /\ Callers # {}
  /\ VlcThread \notin Callers /\ OutputThread \notin Callers
  /\ VlcThread # OutputThread
  /\ NoOwner \notin Callers \cup {VlcThread, OutputThread}
  /\ MaxTime \in Nat /\ Targets \subseteq 0 .. MaxTime
  /\ Tolerance \in Nat /\ MaximumOvershoot \in Nat
  /\ RunAhead \in BOOLEAN /\ MayRefuse \in BOOLEAN
  /\ MaxGeneration \in Nat /\ MaxSerial \in Nat /\ MaxEvents \in Nat

Threads == Callers \cup {VlcThread, OutputThread}
NoTime == -1
Times == 0 .. MaxTime
Frame == [serial : Nat, shows : Times, target : Times \cup {NoTime}]
PlaybackStates == {"IDLE", "PLAYING", "PAUSED", "STOPPED", "ENDED"}
VlcStates == {"stopped", "playing", "paused"}
Delivery == [continuous : BOOLEAN, budget : {0, 1},
             target : Times \cup {NoTime}, start : Times \cup {NoTime},
             repause : BOOLEAN, generation : 0 .. MaxGeneration + 1,
             candidate : Frame \cup {NoFrame}, pending : Frame \cup {NoFrame}]

\* What a thread keeps across its steps.
Locals == [flag : BOOLEAN, generation : 0 .. MaxGeneration + 1, time : Times,
           frame : Frame \cup {NoFrame}, event : PlaybackStates]

\* Where a thread can be: inside a command or a completion, which both hold
\* transport_mutex, or somewhere it need not be held.
LockedPC == {"play_deliver", "play_vlc", "play_publish", "pause_deliver", "pause_vlc",
             "stop_deliver", "stop_vlc", "seek_arm", "seek_gate", "seek_time",
             "seek_resume", "open_deliver", "open_media", "open_idle", "open_play",
             "fail_deliver", "repause"}
FreePC == {"idle", "state", "track", "complete", "publish"}

VARIABLES
  owner,               \* transport_mutex
  playWhenReady,       \* play_when_ready
  transportGeneration, \* transport_generation
  delivery,            \* the fields under frame_mutex
  position,            \* position_microseconds
  state,               \* the public playback state
  nextSerial,          \* next_serial
  canDeliver,          \* video_width > 0 and an output to render to
  pc,                  \* where each thread is; "idle" outside the bridge
  local,               \* its local variables
  vlcState,            \* libVLC: stopped, playing or paused
  vlcTime,             \* libVLC: the public clock
  vlcSeeking,          \* libVLC: a set_time not applied yet
  events,              \* libVLC: state events not delivered yet
  lastTarget,          \* history: what the latest command seeks to, if it does
  deliveries,          \* history: frames made pending since set_frame_delivery
  lastAcquired,        \* history: serial of the frame acquired last
  mishaps              \* history: what kept a seek or a command from its plan

transportVars == <<owner, playWhenReady, transportGeneration>>
publicVars == <<position, state>>
vlcVars == <<vlcState, vlcTime, vlcSeeking, events>>
historyVars == <<lastTarget, deliveries, lastAcquired, mishaps>>
vars == <<transportVars, delivery, publicVars, nextSerial, canDeliver, pc, local,
          vlcVars, historyVars>>

PlayerOK ==
  /\ owner \in Callers \cup {VlcThread, NoOwner}
  /\ playWhenReady \in BOOLEAN
  /\ transportGeneration \in 0 .. MaxGeneration + 1
  /\ delivery \in Delivery
  /\ position \in Times
  /\ state \in PlaybackStates
  /\ nextSerial \in Nat \ {0}
  /\ canDeliver \in BOOLEAN

ThreadsOK ==
  /\ pc \in [Threads -> LockedPC \cup FreePC]
  /\ local \in [Threads -> Locals]

VlcOK ==
  /\ vlcState \in VlcStates
  /\ vlcTime \in Times
  /\ vlcSeeking \in Times \cup {NoTime}
  /\ events \in Seq(PlaybackStates)

HistoryOK ==
  /\ lastTarget \in Times \cup {NoTime}
  /\ deliveries \in Nat
  /\ lastAcquired \in Nat
  /\ mishaps \subseteq {"refused", "stolen", "unstopped"}

TypeOK == PlayerOK /\ ThreadsOK /\ VlcOK /\ HistoryOK

Idle == [flag |-> FALSE, generation |-> 0, time |-> 0, frame |-> NoFrame, event |-> "IDLE"]

\* A new player, or one that earlier commands have left paused; generations
\* and serials are counted from there.
Init ==
  /\ owner = NoOwner
  /\ playWhenReady = FALSE
  /\ transportGeneration = 0
  /\ delivery = [continuous |-> FALSE, budget |-> 0, target |-> NoTime, start |-> NoTime,
                 repause |-> FALSE, generation |-> 0, candidate |-> NoFrame,
                 pending |-> NoFrame]
  /\ \/ vlcState = "stopped" /\ vlcTime = 0 /\ state = "IDLE"
     \/ vlcState = "paused" /\ vlcTime \in Times /\ state = "PAUSED"
  /\ position = vlcTime
  /\ nextSerial = 1
  /\ canDeliver \in BOOLEAN
  /\ pc = [t \in Threads |-> "idle"]
  /\ local = [t \in Threads |-> Idle]
  /\ vlcSeeking = NoTime /\ events = <<>>
  /\ lastTarget = NoTime /\ deliveries = 0 /\ lastAcquired = 0 /\ mishaps = {}

Goto(t, from, to) == pc[t] = from /\ pc' = [pc EXCEPT ![t] = to]

-----------------------------------------------------------------------------
(* set_frame_delivery and paused_seek_decode_in_progress *)

\* Mutant: a superseded frame is left for the consumer.
KeptForConsumer(continuous) == delivery.pending

\* The frame set_frame_delivery leaves for the consumer.
PendingAfter(continuous) == IF continuous THEN delivery.pending ELSE NoFrame

\* Mutant: the surface retained for an older seek is left in place.
CandidateKept == delivery.candidate

CandidateAfter == NoFrame

SetFrameDelivery(continuous, budget, target) ==
  /\ delivery' = [continuous |-> continuous,
                  budget |-> IF continuous THEN 0 ELSE budget,
                  target |-> IF continuous \/ budget = 0 THEN NoTime ELSE target,
                  start |-> NoTime, repause |-> FALSE, generation |-> 0,
                  candidate |-> CandidateAfter,
                  pending |-> PendingAfter(continuous)]
  /\ deliveries' = 0

\* The check as a caller sees it that read the two atomics `ready` and
\* `generation` before it took frame_mutex.
DecodeInProgress(ready, generation) ==
  /\ ~ready
  /\ delivery.repause
  /\ delivery.target >= 0
  /\ delivery.generation = generation

SeekInProgress == DecodeInProgress(playWhenReady, transportGeneration)

-----------------------------------------------------------------------------
(* libVLC, as the bridge uses it *)

VlcEnter(newState, event) ==
  /\ vlcState' = newState
  /\ events' = IF vlcState = newState THEN events ELSE Append(events, event)

VlcSetPause(paused) ==
  IF paused /\ vlcState = "playing" THEN VlcEnter("paused", "PAUSED")
  ELSE IF ~paused /\ vlcState = "paused" THEN VlcEnter("playing", "PLAYING")
  ELSE UNCHANGED <<vlcState, events>>

-----------------------------------------------------------------------------
(* Commands.  Each takes transport_mutex first and gives it back last. *)

Enter(c, to) ==
  /\ owner = NoOwner
  /\ owner' = c
  /\ Goto(c, "idle", to)

Return(t, from) ==
  /\ Goto(t, from, "idle")
  /\ local' = [local EXCEPT ![t] = Idle]

Leave(c, from) ==
  /\ Return(c, from)
  /\ owner' = NoOwner

\* transport_generation.fetch_add(1), with the guards that bound the model.
Command(ready) ==
  /\ transportGeneration < MaxGeneration
  /\ Len(events) < MaxEvents
  /\ playWhenReady' = ready
  /\ transportGeneration' = transportGeneration + 1
  /\ lastTarget' = NoTime

Refuse == MayRefuse /\ mishaps' = mishaps \cup {"refused"}

\* Mutant: a refused command leaves play_when_ready as it was set.
GiveUpKeepingIntent ==
  /\ Refuse
  /\ UNCHANGED playWhenReady
  /\ transportGeneration' = transportGeneration + 1

\* libVLC refused the command: no playback is wanted any more.
GiveUp ==
  /\ Refuse
  /\ playWhenReady' = FALSE
  /\ transportGeneration' = transportGeneration + 1

Play(c) ==
  /\ Enter(c, "play_deliver")
  /\ Command(TRUE)
  /\ local' = [local EXCEPT ![c].flag = SeekInProgress]   \* completing_paused_seek
  /\ UNCHANGED <<delivery, publicVars, nextSerial, canDeliver, vlcVars, deliveries,
                  lastAcquired, mishaps>>

PlayDeliver(c) ==
  /\ Goto(c, "play_deliver", "play_vlc")
  /\ SetFrameDelivery(TRUE, 0, NoTime)
  /\ UNCHANGED <<transportVars, publicVars, nextSerial, canDeliver, local, vlcVars,
                 lastTarget, lastAcquired, mishaps>>

PlayVlc(c) ==
  /\ \/ /\ Goto(c, "play_vlc", "play_publish")
        /\ VlcEnter("playing", "PLAYING")
        /\ UNCHANGED <<transportVars, mishaps>>
     \/ /\ Goto(c, "play_vlc", "fail_deliver")
        /\ GiveUp
        /\ UNCHANGED <<owner, vlcState, events>>
  /\ UNCHANGED <<delivery, publicVars, nextSerial, canDeliver, local, vlcTime,
                 vlcSeeking, lastTarget, deliveries, lastAcquired>>

\* Mutant: play() relies on libVLC to report PLAYING.
PlayPublishNothing(c) ==
  /\ Leave(c, "play_publish")
  /\ state' = state
  /\ UNCHANGED <<playWhenReady, transportGeneration, delivery, position, nextSerial,
                 canDeliver, vlcVars, historyVars>>

PlayPublish(c) ==
  /\ Leave(c, "play_publish")
  /\ state' = IF local[c].flag THEN "PLAYING" ELSE state
  /\ UNCHANGED <<playWhenReady, transportGeneration, delivery, position, nextSerial,
                 canDeliver, vlcVars, historyVars>>

\* The last step of every refused command.
FailDeliver(c) ==
  /\ Leave(c, "fail_deliver")
  /\ SetFrameDelivery(FALSE, 0, NoTime)
  /\ UNCHANGED <<playWhenReady, transportGeneration, publicVars, nextSerial,
                 canDeliver, vlcVars, lastTarget, lastAcquired, mishaps>>

Pause(c) ==
  /\ Enter(c, "pause_deliver")
  /\ Command(FALSE)
  /\ position' = IF vlcState = "stopped" THEN position ELSE vlcTime
  /\ UNCHANGED <<delivery, state, nextSerial, canDeliver, local, vlcVars, deliveries,
                  lastAcquired, mishaps>>

PauseDeliver(c) ==
  /\ Goto(c, "pause_deliver", "pause_vlc")
  /\ SetFrameDelivery(FALSE, 0, NoTime)
  /\ UNCHANGED <<transportVars, publicVars, nextSerial, canDeliver, local, vlcVars,
                 lastTarget, lastAcquired, mishaps>>

PauseVlc(c) ==
  /\ Leave(c, "pause_vlc")
  /\ VlcSetPause(TRUE)
  /\ UNCHANGED <<playWhenReady, transportGeneration, delivery, publicVars, nextSerial,
                 canDeliver, vlcTime, vlcSeeking, historyVars>>

Stop(c) ==
  /\ Enter(c, "stop_deliver")
  /\ Command(FALSE)
  /\ UNCHANGED <<delivery, publicVars, nextSerial, canDeliver, local, vlcVars,
                 deliveries, lastAcquired, mishaps>>

StopDeliver(c) ==
  /\ Goto(c, "stop_deliver", "stop_vlc")
  /\ SetFrameDelivery(FALSE, 0, NoTime)
  /\ UNCHANGED <<transportVars, publicVars, nextSerial, canDeliver, local, vlcVars,
                 lastTarget, lastAcquired, mishaps>>

StopVlc(c) ==
  /\ Leave(c, "stop_vlc")
  /\ \/ /\ state \in {"ENDED", "STOPPED"}
        /\ state' = "STOPPED"
        /\ mishaps' = IF vlcState = "stopped" THEN mishaps ELSE mishaps \cup {"unstopped"}
        /\ UNCHANGED vlcVars
     \/ /\ state \notin {"ENDED", "STOPPED"}
        /\ VlcEnter("stopped", "STOPPED")
        /\ vlcSeeking' = NoTime
        /\ UNCHANGED <<vlcTime, state, mishaps>>
     \/ /\ state \notin {"ENDED", "STOPPED"}
        /\ Refuse
        /\ UNCHANGED <<vlcVars, state>>
  /\ UNCHANGED <<playWhenReady, transportGeneration, delivery, position, nextSerial,
                 canDeliver, lastTarget, deliveries, lastAcquired>>

-----------------------------------------------------------------------------
(* seek: while paused, delivery is armed in two critical sections *)

Seek(c, time) ==
  /\ Enter(c, IF playWhenReady THEN "seek_time" ELSE "seek_arm")
  /\ Len(events) < MaxEvents
  /\ local' = [local EXCEPT ![c].time = time, ![c].flag = ~playWhenReady]
  /\ lastTarget' = IF playWhenReady THEN NoTime ELSE time
  /\ UNCHANGED <<playWhenReady, transportGeneration, delivery, publicVars, nextSerial,
                 canDeliver, vlcVars, deliveries, lastAcquired, mishaps>>

SeekArm(c) ==
  /\ Goto(c, "seek_arm", "seek_gate")
  /\ SetFrameDelivery(FALSE, 1, local[c].time)
  /\ UNCHANGED <<transportVars, publicVars, nextSerial, canDeliver, local, vlcVars,
                 lastTarget, lastAcquired, mishaps>>

SeekGate(c) ==
  /\ Goto(c, "seek_gate", "seek_time")
  /\ delivery' = [delivery EXCEPT !.start = position, !.repause = TRUE,
                                  !.generation = transportGeneration]
  /\ UNCHANGED <<transportVars, publicVars, nextSerial, canDeliver, local, vlcVars,
                 historyVars>>

SeekTime(c) ==
  /\ \/ /\ local[c].flag
        /\ Goto(c, "seek_time", "seek_resume")
        /\ UNCHANGED <<owner, local>>
     \/ /\ ~local[c].flag
        /\ Leave(c, "seek_time")
  /\ vlcSeeking' = IF vlcState = "stopped" THEN NoTime ELSE local[c].time
  /\ UNCHANGED <<playWhenReady, transportGeneration, delivery, publicVars, nextSerial,
                 canDeliver, vlcState, vlcTime, events, historyVars>>

SeekRefused(c) ==
  /\ Refuse
  /\ \/ /\ local[c].flag
        /\ Goto(c, "seek_time", "fail_deliver")
        /\ UNCHANGED <<owner, local>>
     \/ /\ ~local[c].flag
        /\ Leave(c, "seek_time")
  /\ lastTarget' = NoTime
  /\ UNCHANGED <<playWhenReady, transportGeneration, delivery, publicVars, nextSerial,
                 canDeliver, vlcVars, deliveries, lastAcquired>>

\* Mutant: libVLC is left paused after set_time.
SeekWithoutResume(c) ==
  /\ Leave(c, "seek_resume")
  /\ UNCHANGED <<vlcState, events>>
  /\ UNCHANGED <<playWhenReady, transportGeneration, delivery, publicVars, nextSerial,
                 canDeliver, vlcTime, vlcSeeking, historyVars>>

SeekResume(c) ==
  /\ Leave(c, "seek_resume")
  /\ VlcSetPause(FALSE)
  /\ UNCHANGED <<playWhenReady, transportGeneration, delivery, publicVars, nextSerial,
                 canDeliver, vlcTime, vlcSeeking, historyVars>>

-----------------------------------------------------------------------------
(* open *)

Open(c, autoplay) ==
  /\ Enter(c, "open_deliver")
  /\ Command(autoplay)
  /\ local' = [local EXCEPT ![c].flag = autoplay]
  /\ UNCHANGED <<delivery, publicVars, nextSerial, canDeliver, vlcVars, deliveries,
                  lastAcquired, mishaps>>

OpenDeliver(c) ==
  /\ Goto(c, "open_deliver", "open_media")
  /\ SetFrameDelivery(FALSE, 0, NoTime)
  /\ UNCHANGED <<transportVars, publicVars, nextSerial, canDeliver, local, vlcVars,
                 lastTarget, lastAcquired, mishaps>>

\* set_media stops what plays; a media or a header that cannot be used ends
\* the call before that.
OpenMedia(c) ==
  /\ \/ /\ Goto(c, "open_media", "open_idle")
        /\ VlcEnter("stopped", "STOPPED")
        /\ vlcTime' = 0 /\ vlcSeeking' = NoTime
        /\ UNCHANGED <<transportVars, local, mishaps>>
     \/ /\ Leave(c, "open_media")
        /\ GiveUp
        /\ UNCHANGED vlcVars
  /\ UNCHANGED <<delivery, publicVars, nextSerial, canDeliver, lastTarget,
                 deliveries, lastAcquired>>

OpenIdle(c) ==
  /\ position' = 0
  /\ state' = "IDLE"
  /\ IF local[c].flag
     THEN /\ Goto(c, "open_idle", "open_play")
          /\ SetFrameDelivery(TRUE, 0, NoTime)
          /\ UNCHANGED <<owner, local>>
     ELSE /\ Leave(c, "open_idle")
          /\ SetFrameDelivery(FALSE, 1, NoTime)
  /\ UNCHANGED <<playWhenReady, transportGeneration, nextSerial, canDeliver,
                 vlcVars, lastTarget, lastAcquired, mishaps>>

OpenPlay(c) ==
  /\ \/ /\ Leave(c, "open_play")
        /\ VlcEnter("playing", "PLAYING")
        /\ UNCHANGED <<playWhenReady, transportGeneration, mishaps>>
     \/ /\ Goto(c, "open_play", "fail_deliver")
        /\ GiveUp
        /\ UNCHANGED <<owner, local, vlcState, events>>
  /\ UNCHANGED <<delivery, publicVars, nextSerial, canDeliver, vlcTime,
                 vlcSeeking, lastTarget, deliveries, lastAcquired>>

-----------------------------------------------------------------------------
(* get_snapshot and on_position_changed: sample the clock, complete the seek *)

\* Both read play_when_ready and transport_generation first.
Sampled(t, time) ==
  local' = [local EXCEPT ![t].flag = playWhenReady,
                         ![t].generation = transportGeneration, ![t].time = time]

GetSnapshot(c) ==
  /\ Goto(c, "idle", "track")
  /\ Sampled(c, 0)
  /\ UNCHANGED <<transportVars, delivery, publicVars, nextSerial, canDeliver, vlcVars,
                 historyVars>>

\* libVLC's clock advances and is reported to on_position_changed.
PositionChanged ==
  /\ Goto(VlcThread, "idle", "track")
  /\ vlcState = "playing"
  /\ \/ vlcSeeking # NoTime /\ vlcTime' = vlcSeeking
     \/ vlcSeeking = NoTime /\ vlcTime < MaxTime /\ vlcTime' = vlcTime + 1
  /\ vlcSeeking' = NoTime
  /\ Sampled(VlcThread, vlcTime')
  /\ UNCHANGED <<transportVars, delivery, publicVars, nextSerial, canDeliver, vlcState,
                 events, historyVars>>

Track(t) ==
  LET tracked == /\ local[t].flag \/ DecodeInProgress(local[t].flag, local[t].generation)
                 /\ t = VlcThread \/ vlcState # "stopped"
      time == IF t = VlcThread THEN local[t].time ELSE vlcTime
  IN  /\ \/ /\ tracked
            /\ Goto(t, "track", "complete")
            /\ local' = [local EXCEPT ![t].time = time]
            /\ position' = time
         \/ /\ ~tracked
            /\ Return(t, "track")
            /\ UNCHANGED position
      /\ UNCHANGED <<transportVars, delivery, state, nextSerial, canDeliver, vlcVars,
                     historyVars>>

Distance(a, b) == IF a < b THEN b - a ELSE a - b

\* The clock is close to the target, or has gone past it from the side where
\* the seek started.
ReachedTarget(time, start, target) ==
  \/ Distance(time, target) <= Tolerance
  \/ /\ start < target /\ time >= target
     /\ time - target <= MaximumOvershoot
  \/ /\ start > target /\ time <= target
     /\ target - time <= MaximumOvershoot

CompletesSeek(time) ==
  /\ ~playWhenReady
  /\ ~delivery.continuous /\ delivery.budget # 0 /\ delivery.target >= 0
  /\ delivery.generation = transportGeneration
  /\ ReachedTarget(time, delivery.start, delivery.target)
  /\ delivery.repause
  /\ delivery.candidate # NoFrame \/ ~canDeliver

\* Mutant: transport_mutex is given back before libVLC is paused again.
UnlockEarly(t) == UNCHANGED owner

\* transport_mutex is held up to the end of Repause.
KeepLocked(t) == owner' = t

\* Mutant: the completion leaves the budget for the surfaces that follow.
BudgetKept == delivery.budget

BudgetSpent == 0

\* Mutant: the serial is read, not taken.
ReadSerial == UNCHANGED nextSerial

TakeSerial == nextSerial' = nextSerial + 1

\* publish_paused_seek_candidate_if_ready, up to the release of frame_mutex.
CompleteSeek(t) ==
  LET stamped == [delivery.candidate EXCEPT !.serial = nextSerial,
                                             !.target = delivery.target]
      published == delivery.candidate # NoFrame
  IN  /\ owner = NoOwner
      /\ CompletesSeek(local[t].time)
      /\ KeepLocked(t)
      /\ Goto(t, "complete", "repause")
      /\ delivery' = [delivery EXCEPT !.repause = FALSE, !.generation = 0, !.start = NoTime,
                                      !.target = NoTime, !.budget = BudgetSpent,
                                      !.candidate = NoFrame,
                                      !.pending = IF published THEN stamped ELSE @]
      /\ IF published THEN TakeSerial ELSE UNCHANGED nextSerial
      /\ deliveries' = IF published THEN deliveries + 1 ELSE deliveries
      /\ UNCHANGED <<playWhenReady, transportGeneration, publicVars, canDeliver, local,
                     vlcVars, lastTarget, lastAcquired, mishaps>>

LeaveSeekPending(t) ==
  /\ owner = NoOwner
  /\ ~CompletesSeek(local[t].time)
  /\ Return(t, "complete")
  /\ UNCHANGED <<transportVars, delivery, publicVars, nextSerial, canDeliver,
                 vlcVars, historyVars>>

\* Mutant: the completion forgets to pause libVLC again.
CompleteWithoutRepause(t) ==
  /\ Leave(t, "repause")
  /\ UNCHANGED <<vlcState, events>>
  /\ UNCHANGED <<playWhenReady, transportGeneration, delivery, publicVars, nextSerial,
                 canDeliver, vlcTime, vlcSeeking, historyVars>>

\* Still under transport_mutex.
Repause(t) ==
  /\ Leave(t, "repause")
  /\ VlcSetPause(TRUE)
  /\ UNCHANGED <<playWhenReady, transportGeneration, delivery, publicVars, nextSerial,
                 canDeliver, vlcTime, vlcSeeking, historyVars>>

-----------------------------------------------------------------------------
(* on_state_changed and on_media_stopping *)

DeliverEvent ==
  /\ events # <<>>
  /\ Goto(VlcThread, "idle", "state")
  /\ local' = [local EXCEPT ![VlcThread].flag = playWhenReady,
                            ![VlcThread].generation = transportGeneration,
                            ![VlcThread].event = Head(events)]
  /\ events' = Tail(events)
  /\ UNCHANGED <<transportVars, delivery, publicVars, nextSerial, canDeliver, vlcState,
                 vlcTime, vlcSeeking, historyVars>>

StateChanged ==
  LET event == local[VlcThread].event
      masked == \/ /\ event = "PLAYING"
                   /\ DecodeInProgress(local[VlcThread].flag, local[VlcThread].generation)
                \/ event = "STOPPED" /\ state = "ENDED"
  IN  /\ Return(VlcThread, "state")
      /\ state' = IF masked THEN state ELSE event
      /\ UNCHANGED <<transportVars, delivery, position, nextSerial, canDeliver,
                     vlcVars, historyVars>>

\* The media ends: on_media_stopping(eos), then the generic Stopped state.
EndOfMedia ==
  /\ vlcState = "playing" /\ vlcSeeking = NoTime /\ vlcTime = MaxTime
  /\ vlcState' = "stopped"
  /\ events' = events \o <<"ENDED", "STOPPED">>
  /\ UNCHANGED <<transportVars, delivery, publicVars, nextSerial, canDeliver, pc, local,
                 vlcTime, vlcSeeking, historyVars>>

-----------------------------------------------------------------------------
(* The video output and the consumer *)

\* libVLC has rendered a surface; it shows the media where the clock is.
Render ==
  /\ \/ vlcState = "playing"
     \/ vlcState = "paused" /\ RunAhead
  /\ canDeliver
  /\ nextSerial <= MaxSerial
  /\ Goto(OutputThread, "idle", "publish")
  /\ local' = [local EXCEPT ![OutputThread].frame =
                 [serial |-> 0, shows |-> vlcTime, target |-> NoTime]]
  /\ UNCHANGED <<transportVars, delivery, publicVars, nextSerial, canDeliver, vlcVars,
                 historyVars>>

\* Mutant: the budget is not looked at before it is decremented.
RefusesNothing == FALSE

RefusesSurface == ~delivery.continuous /\ delivery.budget = 0

RetainsSurface ==
  ~delivery.continuous /\ delivery.target >= 0 /\ delivery.repause

PublishFrame ==
  LET frame == local[OutputThread].frame
      numbered == [frame EXCEPT !.serial = nextSerial]
  IN  /\ Goto(OutputThread, "publish", "idle")
      /\ local' = [local EXCEPT ![OutputThread].frame = NoFrame]
      /\ \/ /\ RefusesSurface
            /\ UNCHANGED <<delivery, nextSerial, deliveries, mishaps>>
         \/ /\ ~RefusesSurface /\ RetainsSurface
            /\ delivery' = [delivery EXCEPT !.candidate = frame]
            /\ UNCHANGED <<nextSerial, deliveries, mishaps>>
         \/ /\ ~RefusesSurface /\ ~RetainsSurface
            /\ delivery' = IF delivery.continuous
                 THEN [delivery EXCEPT !.pending = numbered]
                 ELSE [delivery EXCEPT !.budget = @ - 1, !.target = NoTime,
                                       !.candidate = NoFrame, !.pending = numbered]
            /\ nextSerial' = nextSerial + 1
            /\ deliveries' = IF delivery.continuous THEN deliveries ELSE deliveries + 1
            /\ mishaps' = IF delivery.target >= 0 THEN mishaps \cup {"stolen"} ELSE mishaps
      /\ UNCHANGED <<transportVars, publicVars, canDeliver, vlcVars, lastTarget, lastAcquired>>

AcquireLatestFrame ==
  /\ delivery.pending # NoFrame
  /\ lastAcquired' = delivery.pending.serial
  /\ delivery' = [delivery EXCEPT !.pending = NoFrame]
  /\ UNCHANGED <<transportVars, publicVars, nextSerial, canDeliver, pc, local, vlcVars,
                 lastTarget, deliveries, mishaps>>

-----------------------------------------------------------------------------
CallerStep(c) ==
  \/ PlayDeliver(c) \/ PlayVlc(c) \/ PlayPublish(c) \/ FailDeliver(c)
  \/ PauseDeliver(c) \/ PauseVlc(c) \/ StopDeliver(c) \/ StopVlc(c)
  \/ SeekArm(c) \/ SeekGate(c) \/ SeekTime(c) \/ SeekRefused(c) \/ SeekResume(c)
  \/ OpenDeliver(c) \/ OpenMedia(c) \/ OpenIdle(c) \/ OpenPlay(c)

SampleStep(t) == Track(t) \/ CompleteSeek(t) \/ LeaveSeekPending(t) \/ Repause(t)

NewCommand(c) ==
  \/ Play(c) \/ Pause(c) \/ Stop(c) \/ GetSnapshot(c)
  \/ \E time \in Targets : Seek(c, time)
  \/ \E autoplay \in BOOLEAN : Open(c, autoplay)

Next ==
  \/ \E c \in Callers : NewCommand(c) \/ CallerStep(c)
  \/ \E t \in Callers \cup {VlcThread} : SampleStep(t)
  \/ PositionChanged \/ DeliverEvent \/ StateChanged \/ EndOfMedia
  \/ Render \/ PublishFrame
  \/ AcquireLatestFrame

\* Threads inside the bridge go on, whoever wins transport_mutex; libVLC
\* delivers its events, and while it plays its clock advances to the end.
Fairness ==
  /\ \A c \in Callers : WF_vars(CallerStep(c)) /\ SF_vars(SampleStep(c))
  /\ SF_vars(SampleStep(VlcThread))
  /\ WF_vars(DeliverEvent) /\ WF_vars(StateChanged)
  /\ SF_vars(PositionChanged) /\ WF_vars(EndOfMedia)
  /\ WF_vars(PublishFrame)

Spec == Init /\ [][Next]_vars
FairSpec == Spec /\ Fairness

-----------------------------------------------------------------------------
(* Properties *)

\* No command or completion holds transport_mutex.
Unlocked == owner = NoOwner

\* "Never let completion of an old paused seek pause a player after the
\* caller has resumed it": once the last command left playback wanted, no
\* thread of the bridge leaves libVLC paused.
PlayIntentWins == Unlocked /\ playWhenReady => vlcState # "paused"

\* While playback is not wanted, libVLC plays only for a paused seek that is
\* still going to pause it again.
PausedWhenSettled ==
  Unlocked /\ ~playWhenReady /\ vlcState = "playing" => SeekInProgress

\* The only ways to the opposite are a call refused by libVLC, a surface
\* published between the two critical sections of seek() (1019 and 1020), and a
\* stop() that trusts the stale STOPPED or ENDED of a media played before (999).
PausedUnlessMishap == mishaps = {} => PausedWhenSettled

\* "publish_paused_seek_candidate_if_ready re-pauses" (1028-1031): when libVLC
\* refuses nothing and stop() trusts nothing stale, every seek made while
\* paused is paused again.  An in-flight surface breaks it.
SeekRepauses == mishaps \subseteq {"stolen"} => PausedWhenSettled

\* Whatever the callers do, a paused player shows at most one new frame for
\* each command.
OneFramePerPausedCommand == ~delivery.continuous => deliveries <= 1

\* The frame a paused seek left for the consumer is the one of the latest
\* seek: a newer command withdraws it.
SupersededSeekPublishesNothing ==
  Unlocked /\ delivery.pending # NoFrame /\ delivery.pending.target # NoTime =>
    delivery.pending.target = lastTarget \/ delivery.continuous

\* A retained surface is never forgotten: it is there only while a seek that
\* will publish or drop it waits for the clock.
CandidateOnlyWhileSeeking ==
  delivery.candidate # NoFrame =>
    /\ delivery.repause /\ delivery.budget = 1 /\ delivery.target >= 0
    /\ ~delivery.continuous

\* Two threads publish, one consumer acquires: serials only grow.
SerialsGrow ==
  delivery.pending # NoFrame => /\ delivery.pending.serial > lastAcquired
                                /\ delivery.pending.serial < nextSerial

\* When every event is delivered and no call is under way, the public state
\* tells a paused player from a playing one, the internal resume of a paused
\* seek included.
SettledState ==
  /\ \A t \in Threads : pc[t] = "idle"
  /\ events = <<>> /\ ~SeekInProgress /\ mishaps = {}
  =>
    /\ vlcState = "paused" => state = "PAUSED"
    /\ vlcState = "playing" => state = "PLAYING"

\* The frame published for a paused seek shows the target, as far as the
\* clock does: the surface was rendered where the clock is.
SeekFrameShowsTarget ==
  delivery.pending # NoFrame /\ delivery.pending.target # NoTime =>
    Distance(delivery.pending.shows, delivery.pending.target) <= Tolerance + MaximumOvershoot

\* A paused seek does not decode for ever behind a player that says PAUSED.
SeekSettles ==
  (SeekInProgress /\ Unlocked) ~> (~SeekInProgress \/ vlcState = "stopped")
=============================================================================
