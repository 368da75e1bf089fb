------------------------ MODULE BridgeTransportProofs ------------------------
(***************************************************************************)
(* Proofs about BridgeTransport for any number of callers, any media and   *)
(* any bounds: the variables keep their types, the last command wins over  *)
(* the internal re-pause of a paused seek, and the frames a paused player  *)
(* shows are the ones its commands ask for.                                *)
(***************************************************************************)
EXTENDS BridgeTransport, TLAPS

\* A thread inside a command or a completion holds transport_mutex.
LockOK == \A t \in Threads : pc[t] \in LockedPC => owner = t

\* A command that can still give up has counted itself, and nothing else.
CanGiveUp == {"play_deliver", "play_vlc", "open_deliver", "open_media", "open_idle",
              "open_play"}
GenerationOK ==
  \A t \in Threads : pc[t] \in CanGiveUp => transportGeneration <= MaxGeneration

\* The output thread has a surface while it publishes.
SurfaceOK ==
  pc[OutputThread] = "publish" => local[OutputThread].frame \in Frame

\* What every other invariant starts from.
Shape == TypeOK /\ LockOK /\ GenerationOK /\ SurfaceOK

-----------------------------------------------------------------------------
(* Types and the mutex *)

\* The initial state has the types, and no thread is inside the bridge.
LEMMA InitShape == Init => Shape
<1> SUFFICES ASSUME Init PROVE Shape
  OBVIOUS
<1> USE BridgeAssumption DEF Init
<1>0. 0 \in Times /\ NoTime \in Times \cup {NoTime} /\ 0 \in 0 .. MaxGeneration + 1
  BY DEF Times
<1>1. Idle \in Locals
  BY <1>0 DEF Idle, Locals, PlaybackStates
<1>2. delivery \in Delivery
  BY <1>0 DEF Delivery
<1>3. PlayerOK
  <2>1. position \in Times
    BY <1>0
  <2>2. state \in PlaybackStates
    BY DEF PlaybackStates
  <2>3. nextSerial \in Nat \ {0}
    OBVIOUS
  <2>4. owner \in Callers \cup {VlcThread, NoOwner}
    OBVIOUS
  <2>5. playWhenReady \in BOOLEAN /\ canDeliver \in BOOLEAN
    OBVIOUS
  <2>6. transportGeneration \in 0 .. MaxGeneration + 1
    BY <1>0
  <2> QED
    BY <1>2, <2>1, <2>2, <2>3, <2>4, <2>5, <2>6 DEF PlayerOK
<1>4. ThreadsOK
  BY <1>1 DEF ThreadsOK, FreePC
<1>5. VlcOK
  BY <1>0 DEF VlcOK, VlcStates
<1>6. HistoryOK
  BY <1>0 DEF HistoryOK
<1>7. LockOK /\ GenerationOK /\ SurfaceOK
  BY DEF LockOK, LockedPC, GenerationOK, CanGiveUp, SurfaceOK, Threads
<1> QED
  BY <1>3, <1>4, <1>5, <1>6, <1>7 DEF Shape, TypeOK

\* set_frame_delivery leaves a record of the right shape.
LEMMA SetFrameDeliveryType ==
  ASSUME TypeOK, NEW continuous \in BOOLEAN, NEW budget \in {0, 1},
         NEW target \in Times \cup {NoTime},
         SetFrameDelivery(continuous, budget, target)
  PROVE  delivery' \in Delivery /\ deliveries' \in Nat
BY BridgeAssumption
   DEF TypeOK, PlayerOK, SetFrameDelivery, Delivery, PendingAfter, CandidateAfter

\* The record the completion of a seek leaves.
LEMMA CompletedType ==
  ASSUME NEW d \in Delivery, NEW f \in Frame \cup {NoFrame}
  PROVE  [d EXCEPT !.repause = FALSE, !.generation = 0, !.start = NoTime,
                   !.target = NoTime, !.budget = 0, !.candidate = NoFrame,
                   !.pending = f] \in Delivery
<1>1. 0 \in 0 .. MaxGeneration + 1
  BY BridgeAssumption
<1> QED
  BY <1>1 DEF Delivery

\* The records publish_frame leaves.
LEMMA PublishedType ==
  ASSUME NEW d \in Delivery, NEW f \in Frame
  PROVE  /\ [d EXCEPT !.candidate = f] \in Delivery
         /\ [d EXCEPT !.pending = f] \in Delivery
         /\ d.budget # 0 =>
              [d EXCEPT !.budget = @ - 1, !.target = NoTime, !.candidate = NoFrame,
                        !.pending = f] \in Delivery
<1>1. [d EXCEPT !.candidate = f] \in Delivery /\ [d EXCEPT !.pending = f] \in Delivery
  BY DEF Delivery
<1>2. ASSUME d.budget # 0
      PROVE  [d EXCEPT !.budget = @ - 1, !.target = NoTime, !.candidate = NoFrame,
                       !.pending = f] \in Delivery
  <2>1. d.budget - 1 = 0
    BY <1>2 DEF Delivery
  <2> QED
    BY <2>1 DEF Delivery
<1> QED
  BY <1>1, <1>2

\* A thread moves from one place of the code to another.
LEMMA GotoType ==
  ASSUME ThreadsOK, NEW t, NEW from, NEW to \in LockedPC \cup FreePC, Goto(t, from, to)
  PROVE  pc' \in [Threads -> LockedPC \cup FreePC]
BY DEF ThreadsOK, Goto

\* The values a thread outside the bridge starts from.
LEMMA IdleType == Idle \in Locals
BY BridgeAssumption DEF Idle, Locals, PlaybackStates, Times

\* A thread that returns forgets its local variables.
LEMMA ReturnType ==
  ASSUME ThreadsOK, NEW t, NEW from, Return(t, from)
  PROVE  ThreadsOK'
<1>2. pc' \in [Threads -> LockedPC \cup FreePC]
  BY GotoType DEF Return, FreePC
<1> QED
  BY <1>2, IdleType DEF Return, ThreadsOK

\* Both readers of the clock keep what they read first.
LEMMA SampledType ==
  ASSUME TypeOK, NEW t \in Threads, NEW time \in Times, Sampled(t, time)
  PROVE  local' \in [Threads -> Locals]
<1> DEFINE read == [local[t] EXCEPT !.flag = playWhenReady,
                                    !.generation = transportGeneration, !.time = time]
<1>1. read \in Locals
  BY DEF TypeOK, PlayerOK, ThreadsOK, Locals
<1>2. local' = [local EXCEPT ![t] = read]
  BY DEF Sampled, TypeOK, ThreadsOK, Locals
<1> QED
  BY <1>1, <1>2 DEF TypeOK, ThreadsOK

\* libVLC enters a state and queues the event for it.
LEMMA VlcEnterType ==
  ASSUME VlcOK, NEW newState \in VlcStates, NEW event \in PlaybackStates,
         VlcEnter(newState, event)
  PROVE  vlcState' \in VlcStates /\ events' \in Seq(PlaybackStates)
BY DEF VlcOK, VlcEnter

\* The same for set_pause.
LEMMA VlcSetPauseType ==
  ASSUME VlcOK, NEW paused \in BOOLEAN, VlcSetPause(paused)
  PROVE  vlcState' \in VlcStates /\ events' \in Seq(PlaybackStates)
<1>1. CASE VlcEnter("paused", "PAUSED")
  BY <1>1, VlcEnterType DEF VlcStates, PlaybackStates
<1>2. CASE VlcEnter("playing", "PLAYING")
  BY <1>2, VlcEnterType DEF VlcStates, PlaybackStates
<1>3. CASE UNCHANGED <<vlcState, events>>
  BY <1>3 DEF VlcOK
<1> QED
  BY <1>1, <1>2, <1>3 DEF VlcSetPause

\* A command counts itself; the guard that bounds the model leaves room for
\* one more step of transport_generation.
LEMMA CommandType ==
  ASSUME TypeOK, NEW ready \in BOOLEAN, Command(ready)
  PROVE  /\ playWhenReady' \in BOOLEAN /\ lastTarget' \in Times \cup {NoTime}
         /\ transportGeneration' \in 0 .. MaxGeneration + 1
         /\ transportGeneration' <= MaxGeneration
BY BridgeAssumption DEF TypeOK, PlayerOK, Command

\* A command that gives up has counted itself before.
LEMMA GiveUpType ==
  ASSUME TypeOK, transportGeneration <= MaxGeneration, GiveUp
  PROVE  /\ playWhenReady' \in BOOLEAN
         /\ transportGeneration' \in 0 .. MaxGeneration + 1
         /\ mishaps' \subseteq {"refused", "stolen", "unstopped"}
<1>1. mishaps' \subseteq {"refused", "stolen", "unstopped"}
  BY DEF TypeOK, HistoryOK, GiveUp, Refuse
<1>2. transportGeneration' \in 0 .. MaxGeneration + 1
  BY BridgeAssumption DEF TypeOK, PlayerOK, GiveUp
<1> QED
  BY <1>1, <1>2 DEF GiveUp

\* Every step keeps the types and the discipline of the mutex.
LEMMA ShapeStep == Shape /\ [Next]_vars => Shape'
<1> SUFFICES ASSUME Shape, [Next]_vars PROVE Shape'
  OBVIOUS
<1> USE BridgeAssumption DEF transportVars, publicVars, vlcVars, historyVars, Shape,
                             TypeOK
<1>1. ASSUME NEW c \in Callers, Play(c) PROVE Shape'
  <2>1. LockOK' /\ GenerationOK' /\ SurfaceOK'
    BY <1>1 DEF Play, PlayerOK, ThreadsOK, LockOK, GenerationOK, SurfaceOK, Goto,
                LockedPC, FreePC, CanGiveUp, Threads, Enter, Command
  <2>2. TypeOK'
    <3>1. SeekInProgress \in BOOLEAN
      BY DEF SeekInProgress, DecodeInProgress, PlayerOK, Delivery
    <3>2. local' \in [Threads -> Locals]
      BY <1>1, <3>1 DEF Play, ThreadsOK, Locals, Threads
    <3>3. ThreadsOK'
      BY <1>1, <3>2, GotoType DEF Play, Enter, ThreadsOK, LockedPC
    <3>4. PlayerOK' /\ VlcOK' /\ HistoryOK'
      BY <1>1, CommandType DEF Play, PlayerOK, VlcOK, HistoryOK, Enter
    <3> QED
      BY <3>1, <3>2, <3>3, <3>4 DEF TypeOK
  <2> QED
    BY <2>1, <2>2 DEF Shape
<1>2. ASSUME NEW c \in Callers, PlayDeliver(c) PROVE Shape'
  <2>1. LockOK' /\ GenerationOK' /\ SurfaceOK'
    BY <1>2 DEF PlayDeliver, PlayerOK, ThreadsOK, LockOK, GenerationOK, SurfaceOK, Goto,
                LockedPC, FreePC, CanGiveUp, Threads
  <2>2. TypeOK'
    BY <1>2, GotoType, SetFrameDeliveryType DEF PlayDeliver, PlayerOK, ThreadsOK, VlcOK,
                                                HistoryOK, LockedPC, FreePC
  <2> QED
    BY <2>1, <2>2 DEF Shape
<1>3. ASSUME NEW c \in Callers, PlayVlc(c) PROVE Shape'
  <2>1. LockOK' /\ GenerationOK' /\ SurfaceOK'
    BY <1>3 DEF PlayVlc, PlayerOK, ThreadsOK, LockOK, GenerationOK, SurfaceOK, Goto,
                LockedPC, FreePC, CanGiveUp, Threads
  <2>2. TypeOK'
    BY ZenonT(60), <1>3, GotoType, VlcEnterType, GiveUpType DEF PlayVlc, PlayerOK, ThreadsOK, VlcOK,
           HistoryOK, LockedPC, GenerationOK, CanGiveUp, Goto, Threads, VlcStates,
           PlaybackStates, GiveUp
  <2> QED
    BY <2>1, <2>2 DEF Shape
<1>4. ASSUME NEW c \in Callers, PlayPublish(c) PROVE Shape'
  <2>1. LockOK' /\ GenerationOK' /\ SurfaceOK'
    BY <1>4 DEF PlayPublish, PlayerOK, ThreadsOK, LockOK, GenerationOK, SurfaceOK, Goto,
                LockedPC, FreePC, CanGiveUp, Threads, Leave, Return
  <2>2. TypeOK'
    BY <1>4, ReturnType DEF PlayPublish, PlayerOK, ThreadsOK, VlcOK, HistoryOK, Leave,
                            PlaybackStates
  <2> QED
    BY <2>1, <2>2 DEF Shape
<1>5. ASSUME NEW c \in Callers, FailDeliver(c) PROVE Shape'
  <2>1. LockOK' /\ GenerationOK' /\ SurfaceOK'
    BY <1>5 DEF FailDeliver, PlayerOK, ThreadsOK, LockOK, GenerationOK, SurfaceOK, Goto,
                LockedPC, FreePC, CanGiveUp, Threads, Leave, Return
  <2>2. TypeOK'
    BY <1>5, ReturnType, SetFrameDeliveryType DEF FailDeliver, PlayerOK, ThreadsOK,
           VlcOK, HistoryOK, Leave
  <2> QED
    BY <2>1, <2>2 DEF Shape
<1>6. ASSUME NEW c \in Callers, Pause(c) PROVE Shape'
  <2>1. LockOK' /\ GenerationOK' /\ SurfaceOK'
    BY <1>6 DEF Pause, PlayerOK, ThreadsOK, LockOK, GenerationOK, SurfaceOK, Goto,
                LockedPC, FreePC, CanGiveUp, Threads, Enter, Command
  <2>2. TypeOK'
    BY <1>6, GotoType, CommandType DEF Pause, PlayerOK, ThreadsOK, VlcOK, HistoryOK,
                                       Enter, LockedPC
  <2> QED
    BY <2>1, <2>2 DEF Shape
<1>7. ASSUME NEW c \in Callers, PauseDeliver(c) PROVE Shape'
  <2>1. LockOK' /\ GenerationOK' /\ SurfaceOK'
    BY <1>7 DEF PauseDeliver, PlayerOK, ThreadsOK, LockOK, GenerationOK, SurfaceOK,
                Goto, LockedPC, FreePC, CanGiveUp, Threads
  <2>2. TypeOK'
    BY <1>7, GotoType, SetFrameDeliveryType DEF PauseDeliver, PlayerOK, ThreadsOK,
                                                VlcOK, HistoryOK, LockedPC
  <2> QED
    BY <2>1, <2>2 DEF Shape
<1>8. ASSUME NEW c \in Callers, PauseVlc(c) PROVE Shape'
  <2>1. LockOK' /\ GenerationOK' /\ SurfaceOK'
    BY <1>8 DEF PauseVlc, PlayerOK, ThreadsOK, LockOK, GenerationOK, SurfaceOK, Goto,
                LockedPC, FreePC, CanGiveUp, Threads, Leave, Return
  <2>2. TypeOK'
    BY <1>8, ReturnType, VlcSetPauseType DEF PauseVlc, PlayerOK, ThreadsOK, VlcOK,
                                             HistoryOK, Leave
  <2> QED
    BY <2>1, <2>2 DEF Shape
<1>9. ASSUME NEW c \in Callers, Stop(c) PROVE Shape'
  <2>1. LockOK' /\ GenerationOK' /\ SurfaceOK'
    BY <1>9 DEF Stop, PlayerOK, ThreadsOK, LockOK, GenerationOK, SurfaceOK, Goto,
                LockedPC, FreePC, CanGiveUp, Threads, Enter, Command
  <2>2. TypeOK'
    BY <1>9, GotoType, CommandType DEF Stop, PlayerOK, ThreadsOK, VlcOK, HistoryOK,
                                       Enter, LockedPC
  <2> QED
    BY <2>1, <2>2 DEF Shape
<1>10. ASSUME NEW c \in Callers, StopDeliver(c) PROVE Shape'
  <2>1. LockOK' /\ GenerationOK' /\ SurfaceOK'
    BY <1>10 DEF StopDeliver, PlayerOK, ThreadsOK, LockOK, GenerationOK, SurfaceOK,
                 Goto, LockedPC, FreePC, CanGiveUp, Threads
  <2>2. TypeOK'
    BY <1>10, GotoType, SetFrameDeliveryType DEF StopDeliver, PlayerOK, ThreadsOK,
                                                 VlcOK, HistoryOK, LockedPC
  <2> QED
    BY <2>1, <2>2 DEF Shape
<1>11. ASSUME NEW c \in Callers, StopVlc(c) PROVE Shape'
  <2>1. LockOK' /\ GenerationOK' /\ SurfaceOK'
    BY <1>11 DEF StopVlc, PlayerOK, ThreadsOK, LockOK, GenerationOK, SurfaceOK, Goto,
                 LockedPC, FreePC, CanGiveUp, Threads, Leave, Return
  <2>2. TypeOK'
    BY <1>11, ReturnType, VlcEnterType DEF StopVlc, PlayerOK, ThreadsOK, VlcOK,
                                           HistoryOK, Leave, VlcStates, PlaybackStates,
                                           Refuse
  <2> QED
    BY <2>1, <2>2 DEF Shape
<1>12. ASSUME NEW c \in Callers, SeekArm(c) PROVE Shape'
  <2>1. LockOK' /\ GenerationOK' /\ SurfaceOK'
    BY <1>12 DEF SeekArm, PlayerOK, ThreadsOK, LockOK, GenerationOK, SurfaceOK, Goto,
                 LockedPC, FreePC, CanGiveUp, Threads
  <2>2. TypeOK'
    BY <1>12, GotoType, SetFrameDeliveryType DEF SeekArm, PlayerOK, ThreadsOK, VlcOK,
                                                 HistoryOK, LockedPC, Locals, Threads
  <2> QED
    BY <2>1, <2>2 DEF Shape
<1>13. ASSUME NEW c \in Callers, SeekGate(c) PROVE Shape'
  <2>1. LockOK' /\ GenerationOK' /\ SurfaceOK'
    BY <1>13 DEF SeekGate, PlayerOK, ThreadsOK, LockOK, GenerationOK, SurfaceOK, Goto,
                 LockedPC, FreePC, CanGiveUp, Threads
  <2>2. TypeOK'
    BY <1>13, GotoType DEF SeekGate, PlayerOK, ThreadsOK, VlcOK, HistoryOK, LockedPC,
                           Delivery
  <2> QED
    BY <2>1, <2>2 DEF Shape
<1>14. ASSUME NEW c \in Callers, SeekTime(c) PROVE Shape'
  <2>1. LockOK' /\ GenerationOK' /\ SurfaceOK'
    BY <1>14 DEF SeekTime, PlayerOK, ThreadsOK, LockOK, GenerationOK, SurfaceOK, Goto,
                 LockedPC, FreePC, CanGiveUp, Threads, Leave, Return
  <2>2. TypeOK'
    BY <1>14, GotoType, ReturnType DEF SeekTime, PlayerOK, ThreadsOK, VlcOK, HistoryOK,
                                       Leave, LockedPC, Locals, Threads
  <2> QED
    BY <2>1, <2>2 DEF Shape
<1>15. ASSUME NEW c \in Callers, SeekRefused(c) PROVE Shape'
  <2>1. LockOK' /\ GenerationOK' /\ SurfaceOK'
    BY <1>15 DEF SeekRefused, PlayerOK, ThreadsOK, LockOK, GenerationOK, SurfaceOK,
                 Goto, LockedPC, FreePC, CanGiveUp, Threads, Leave, Return
  <2>2. TypeOK'
    BY <1>15, GotoType, ReturnType DEF SeekRefused, PlayerOK, ThreadsOK, VlcOK,
                                       HistoryOK, Leave, LockedPC, Refuse
  <2> QED
    BY <2>1, <2>2 DEF Shape
<1>16. ASSUME NEW c \in Callers, SeekResume(c) PROVE Shape'
  <2>1. LockOK' /\ GenerationOK' /\ SurfaceOK'
    BY <1>16 DEF SeekResume, PlayerOK, ThreadsOK, LockOK, GenerationOK, SurfaceOK, Goto,
                 LockedPC, FreePC, CanGiveUp, Threads, Leave, Return
  <2>2. TypeOK'
    BY <1>16, ReturnType, VlcSetPauseType DEF SeekResume, PlayerOK, ThreadsOK, VlcOK,
                                              HistoryOK, Leave
  <2> QED
    BY <2>1, <2>2 DEF Shape
<1>17. ASSUME NEW c \in Callers, OpenDeliver(c) PROVE Shape'
  <2>1. LockOK' /\ GenerationOK' /\ SurfaceOK'
    BY <1>17 DEF OpenDeliver, PlayerOK, ThreadsOK, LockOK, GenerationOK, SurfaceOK,
                 Goto, LockedPC, FreePC, CanGiveUp, Threads
  <2>2. TypeOK'
    BY <1>17, GotoType, SetFrameDeliveryType DEF OpenDeliver, PlayerOK, ThreadsOK,
                                                 VlcOK, HistoryOK, LockedPC
  <2> QED
    BY <2>1, <2>2 DEF Shape
<1>18. ASSUME NEW c \in Callers, OpenMedia(c) PROVE Shape'
  <2>1. LockOK' /\ GenerationOK' /\ SurfaceOK'
    BY <1>18 DEF OpenMedia, PlayerOK, ThreadsOK, LockOK, GenerationOK, SurfaceOK, Goto,
                 LockedPC, FreePC, CanGiveUp, Threads, Leave, Return
  <2>2. TypeOK'
    <3>1. ASSUME GiveUp, Leave(c, "open_media") PROVE PlayerOK' /\ ThreadsOK' /\ HistoryOK'
      <4>1. transportGeneration <= MaxGeneration
        BY <3>1 DEF Shape, GenerationOK, CanGiveUp, Leave, Return, Goto, Threads
      <4> QED
        BY <1>18, <3>1, <4>1, ReturnType, GiveUpType DEF OpenMedia, PlayerOK, ThreadsOK,
               VlcOK, HistoryOK, Leave
    <3>2. VlcOK'
      BY <1>18, VlcEnterType DEF OpenMedia, VlcOK, VlcStates, PlaybackStates, Times
    <3>3. CASE Goto(c, "open_media", "open_idle")
      BY <1>18, <3>1, <3>2, <3>3, GotoType DEF OpenMedia, PlayerOK, ThreadsOK, VlcOK,
                                               HistoryOK, LockedPC
    <3> QED
      BY <1>18, <3>1, <3>2, <3>3 DEF OpenMedia, TypeOK
  <2> QED
    BY <2>1, <2>2 DEF Shape
<1>19. ASSUME NEW c \in Callers, OpenIdle(c) PROVE Shape'
  <2>1. LockOK' /\ GenerationOK' /\ SurfaceOK'
    <3>1. CASE local[c].flag
      BY <1>19, <3>1 DEF OpenIdle, ThreadsOK, LockOK, GenerationOK, SurfaceOK, Goto,
                         LockedPC, CanGiveUp, Threads
    <3>2. CASE ~local[c].flag
      BY <1>19, <3>2 DEF OpenIdle, ThreadsOK, LockOK, GenerationOK, SurfaceOK, Goto,
                         LockedPC, CanGiveUp, Threads, Leave, Return
    <3> QED
      BY <3>1, <3>2
  <2>2. TypeOK'
    <3>1. delivery' \in Delivery /\ deliveries' \in Nat
      BY <1>19, SetFrameDeliveryType DEF OpenIdle, Shape
    <3>2. ThreadsOK' /\ owner' \in {owner, NoOwner}
      BY <1>19, GotoType, ReturnType DEF OpenIdle, ThreadsOK, Leave, LockedPC
    <3>3. PlayerOK' /\ VlcOK' /\ HistoryOK'
      BY <1>19, <3>1, <3>2 DEF OpenIdle, PlayerOK, VlcOK, HistoryOK, PlaybackStates, Times
    <3> QED
      BY <3>1, <3>2, <3>3 DEF TypeOK
  <2> QED
    BY <2>1, <2>2 DEF Shape
<1>20. ASSUME NEW c \in Callers, OpenPlay(c) PROVE Shape'
  <2>1. LockOK' /\ GenerationOK' /\ SurfaceOK'
    BY <1>20 DEF OpenPlay, PlayerOK, ThreadsOK, LockOK, GenerationOK, SurfaceOK, Goto,
                 LockedPC, FreePC, CanGiveUp, Threads, Leave, Return
  <2>2. TypeOK'
    BY ZenonT(60), <1>20, GotoType, ReturnType, VlcEnterType, GiveUpType
       DEF OpenPlay, PlayerOK, ThreadsOK, VlcOK, HistoryOK, Leave, LockedPC,
           GenerationOK, CanGiveUp, Goto, Threads, VlcStates, PlaybackStates, GiveUp
  <2> QED
    BY <2>1, <2>2 DEF Shape
<1>21. ASSUME NEW c \in Callers, GetSnapshot(c) PROVE Shape'
  <2>1. LockOK' /\ GenerationOK' /\ SurfaceOK'
    BY <1>21 DEF GetSnapshot, PlayerOK, ThreadsOK, LockOK, GenerationOK, SurfaceOK,
                 Goto, LockedPC, FreePC, CanGiveUp, Threads, Sampled
  <2>2. TypeOK'
    <3>1. ThreadsOK'
      BY <1>21, GotoType, SampledType DEF GetSnapshot, ThreadsOK, FreePC, Times, Threads
    <3>2. PlayerOK' /\ VlcOK' /\ HistoryOK'
      BY <1>21 DEF GetSnapshot, PlayerOK, VlcOK, HistoryOK
    <3> QED
      BY <3>1, <3>2 DEF TypeOK
  <2> QED
    BY <2>1, <2>2 DEF Shape
<1>22. ASSUME NEW c \in Callers, NEW time \in Targets, Seek(c, time) PROVE Shape'
  <2>1. LockOK' /\ GenerationOK' /\ SurfaceOK'
    BY <1>22 DEF Seek, PlayerOK, ThreadsOK, LockOK, GenerationOK, SurfaceOK, Goto,
                 LockedPC, FreePC, CanGiveUp, Threads, Enter
  <2>2. TypeOK'
    BY ZenonT(60), <1>22, GotoType DEF Seek, PlayerOK, ThreadsOK, VlcOK, HistoryOK, Enter, LockedPC,
                           Locals, Times
  <2> QED
    BY <2>1, <2>2 DEF Shape
<1>23. ASSUME NEW c \in Callers, NEW autoplay \in BOOLEAN, Open(c, autoplay) PROVE Shape'
  <2>1. LockOK' /\ GenerationOK' /\ SurfaceOK'
    BY <1>23 DEF Open, PlayerOK, ThreadsOK, LockOK, GenerationOK, SurfaceOK, Goto,
                 LockedPC, FreePC, CanGiveUp, Threads, Enter, Command
  <2>2. TypeOK'
    BY ZenonT(60), <1>23, GotoType, CommandType DEF Open, PlayerOK, ThreadsOK, VlcOK, HistoryOK,
                                        Enter, LockedPC, Locals
  <2> QED
    BY <2>1, <2>2 DEF Shape
<1>24. ASSUME NEW t \in Callers \cup {VlcThread}, Track(t) PROVE Shape'
  <2>1. LockOK' /\ GenerationOK' /\ SurfaceOK'
    BY <1>24 DEF Track, PlayerOK, ThreadsOK, LockOK, GenerationOK, SurfaceOK, Goto,
                 LockedPC, FreePC, CanGiveUp, Threads, Return
  <2>2. TypeOK'
    <3> DEFINE time == IF t = VlcThread THEN local[t].time ELSE vlcTime
    <3>1. time \in Times
      BY DEF ThreadsOK, VlcOK, Locals, Threads
    <3>2. CASE /\ Goto(t, "track", "complete")
               /\ local' = [local EXCEPT ![t].time = time]
               /\ position' = time
      <4> HIDE DEF time
      <4>1. local' \in [Threads -> Locals]
        BY <3>1, <3>2 DEF ThreadsOK, Locals, Threads
      <4> QED
        BY <1>24, <3>1, <3>2, <4>1, GotoType DEF Track, PlayerOK, ThreadsOK, VlcOK,
                                                 HistoryOK, FreePC
    <3>3. CASE Return(t, "track") /\ UNCHANGED position
      BY <1>24, <3>3, ReturnType DEF Track, PlayerOK, ThreadsOK, VlcOK, HistoryOK
    <3> QED
      BY <1>24, <3>2, <3>3 DEF Track
  <2> QED
    BY <2>1, <2>2 DEF Shape
<1>25. ASSUME NEW t \in Callers \cup {VlcThread}, CompleteSeek(t) PROVE Shape'
  <2>1. LockOK' /\ GenerationOK' /\ SurfaceOK'
    BY <1>25 DEF CompleteSeek, PlayerOK, ThreadsOK, LockOK, GenerationOK, SurfaceOK,
                 Goto, LockedPC, FreePC, CanGiveUp, Threads, KeepLocked
  <2>2. TypeOK'
    <3> DEFINE stamped == [delivery.candidate EXCEPT !.serial = nextSerial,
                                                     !.target = delivery.target]
    <3>1. delivery.candidate # NoFrame => stamped \in Frame
      BY DEF PlayerOK, Delivery, Frame
    <3>2. delivery' \in Delivery
      <4> DEFINE left == IF delivery.candidate # NoFrame THEN stamped ELSE delivery.pending
      <4>1. left \in Frame \cup {NoFrame}
        BY <3>1 DEF PlayerOK, Delivery
      <4>2. delivery' = [delivery EXCEPT !.repause = FALSE, !.generation = 0, !.start = NoTime,
                                         !.target = NoTime, !.budget = 0, !.candidate = NoFrame,
                                         !.pending = left]
        BY <1>25 DEF CompleteSeek, BudgetSpent, PlayerOK, Delivery
      <4> QED
        BY <4>1, <4>2, CompletedType DEF PlayerOK
    <3>3. nextSerial' \in Nat \ {0} /\ deliveries' \in Nat
      BY <1>25 DEF CompleteSeek, TakeSerial, PlayerOK, HistoryOK
    <3>4. ThreadsOK'
      BY <1>25, GotoType DEF CompleteSeek, ThreadsOK, LockedPC
    <3> QED
      BY <1>25, <3>2, <3>3, <3>4 DEF CompleteSeek, KeepLocked, PlayerOK, VlcOK, HistoryOK
  <2> QED
    BY <2>1, <2>2 DEF Shape
<1>26. ASSUME NEW t \in Callers \cup {VlcThread}, LeaveSeekPending(t) PROVE Shape'
  <2>1. LockOK' /\ GenerationOK' /\ SurfaceOK'
    BY <1>26 DEF LeaveSeekPending, PlayerOK, ThreadsOK, LockOK, GenerationOK, SurfaceOK,
                 Goto, LockedPC, FreePC, CanGiveUp, Threads, Return
  <2>2. TypeOK'
    BY <1>26, ReturnType DEF LeaveSeekPending, PlayerOK, ThreadsOK, VlcOK, HistoryOK
  <2> QED
    BY <2>1, <2>2 DEF Shape
<1>27. ASSUME NEW t \in Callers \cup {VlcThread}, Repause(t) PROVE Shape'
  <2>1. LockOK' /\ GenerationOK' /\ SurfaceOK'
    BY <1>27 DEF Repause, PlayerOK, ThreadsOK, LockOK, GenerationOK, SurfaceOK, Goto,
                 LockedPC, FreePC, CanGiveUp, Threads, Leave, Return
  <2>2. TypeOK'
    BY <1>27, ReturnType, VlcSetPauseType DEF Repause, PlayerOK, ThreadsOK, VlcOK,
                                              HistoryOK, Leave
  <2> QED
    BY <2>1, <2>2 DEF Shape
<1>28. ASSUME PositionChanged PROVE Shape'
  <2>1. LockOK' /\ GenerationOK' /\ SurfaceOK'
    BY <1>28 DEF PositionChanged, PlayerOK, ThreadsOK, LockOK, GenerationOK, SurfaceOK,
                 Goto, LockedPC, FreePC, CanGiveUp, Threads, Sampled
  <2>2. TypeOK'
    <3>1. vlcTime' \in Times
      BY <1>28 DEF PositionChanged, VlcOK, Times
    <3>2. ThreadsOK'
      BY <1>28, <3>1, GotoType, SampledType DEF PositionChanged, ThreadsOK, FreePC,
                                                Threads
    <3>3. PlayerOK' /\ VlcOK' /\ HistoryOK'
      BY <1>28, <3>1 DEF PositionChanged, PlayerOK, VlcOK, HistoryOK
    <3> QED
      BY <3>1, <3>2, <3>3 DEF TypeOK
  <2> QED
    BY <2>1, <2>2 DEF Shape
<1>29. ASSUME DeliverEvent PROVE Shape'
  <2>1. LockOK' /\ GenerationOK' /\ SurfaceOK'
    BY <1>29 DEF DeliverEvent, PlayerOK, ThreadsOK, LockOK, GenerationOK, SurfaceOK,
                 Goto, LockedPC, FreePC, CanGiveUp, Threads
  <2>2. TypeOK'
    <3>1. Head(events) \in PlaybackStates /\ Tail(events) \in Seq(PlaybackStates)
      BY <1>29 DEF DeliverEvent, VlcOK
    <3>2. local' \in [Threads -> Locals]
      <4> DEFINE seen == [local[VlcThread] EXCEPT
                             !.flag = playWhenReady,
                             !.generation = transportGeneration,
                             !.event = Head(events)]
      <4>1. seen \in Locals
        BY ZenonT(60), <3>1 DEF PlayerOK, ThreadsOK, Locals, Threads
      <4>2. local' = [local EXCEPT ![VlcThread] = seen]
        BY <1>29 DEF DeliverEvent, ThreadsOK, Locals, Threads
      <4> QED
        BY <4>1, <4>2 DEF ThreadsOK
    <3>3. ThreadsOK'
      BY <1>29, <3>2, GotoType DEF DeliverEvent, ThreadsOK, FreePC
    <3>4. PlayerOK' /\ VlcOK' /\ HistoryOK'
      BY <1>29, <3>1 DEF DeliverEvent, PlayerOK, VlcOK, HistoryOK
    <3> QED
      BY <3>1, <3>2, <3>3, <3>4 DEF TypeOK
  <2> QED
    BY <2>1, <2>2 DEF Shape
<1>30. ASSUME StateChanged PROVE Shape'
  <2>1. LockOK' /\ GenerationOK' /\ SurfaceOK'
    BY <1>30 DEF StateChanged, PlayerOK, ThreadsOK, LockOK, GenerationOK, SurfaceOK,
                 Goto, LockedPC, FreePC, CanGiveUp, Threads, Return
  <2>2. TypeOK'
    BY <1>30, ReturnType DEF StateChanged, PlayerOK, ThreadsOK, VlcOK, HistoryOK,
                             Locals, Threads
  <2> QED
    BY <2>1, <2>2 DEF Shape
<1>31. ASSUME EndOfMedia PROVE Shape'
  <2>1. LockOK' /\ GenerationOK' /\ SurfaceOK'
    BY <1>31 DEF EndOfMedia, PlayerOK, ThreadsOK, LockOK, GenerationOK, SurfaceOK, Goto,
                 LockedPC, FreePC, CanGiveUp, Threads
  <2>2. TypeOK'
    BY <1>31 DEF EndOfMedia, PlayerOK, ThreadsOK, VlcOK, HistoryOK, VlcStates,
                 PlaybackStates
  <2> QED
    BY <2>1, <2>2 DEF Shape
<1>32. ASSUME Render PROVE Shape'
  <2> DEFINE surface == [serial |-> 0, shows |-> vlcTime, target |-> NoTime]
  <2>0. /\ surface \in Frame
        /\ local' = [local EXCEPT ![OutputThread].frame = surface]
    BY <1>32 DEF Render, Frame, VlcOK
  <2> HIDE DEF surface
  <2>1. LockOK' /\ GenerationOK' /\ SurfaceOK'
    <3>1. local'[OutputThread].frame = surface
      BY <2>0 DEF ThreadsOK, Locals, Threads
    <3> QED
      BY <1>32, <2>0, <3>1 DEF Render, ThreadsOK, LockOK, GenerationOK, SurfaceOK, Goto,
                               LockedPC, CanGiveUp, Threads
  <2>2. TypeOK'
    <3>1. local' \in [Threads -> Locals]
      BY <2>0 DEF ThreadsOK, Locals, Threads
    <3>2. ThreadsOK'
      BY <1>32, <3>1, GotoType DEF Render, ThreadsOK, FreePC
    <3>3. PlayerOK' /\ VlcOK' /\ HistoryOK'
      BY <1>32 DEF Render, PlayerOK, VlcOK, HistoryOK
    <3> QED
      BY <3>1, <3>2, <3>3 DEF TypeOK
  <2> QED
    BY <2>1, <2>2 DEF Shape
<1>33. ASSUME PublishFrame PROVE Shape'
  <2>1. LockOK' /\ GenerationOK' /\ SurfaceOK'
    BY <1>33 DEF PublishFrame, PlayerOK, ThreadsOK, LockOK, GenerationOK, SurfaceOK,
                 Goto, LockedPC, FreePC, CanGiveUp, Threads
  <2>2. TypeOK'
    <3> DEFINE frame == local[OutputThread].frame
               numbered == [frame EXCEPT !.serial = nextSerial]
    <3>1. frame \in Frame /\ numbered \in Frame
      BY <1>33 DEF PublishFrame, Goto, Shape, SurfaceOK, TypeOK, PlayerOK, Frame
    <3>2. ThreadsOK'
      BY <1>33, GotoType DEF PublishFrame, ThreadsOK, FreePC, Locals, Threads
    <3>3. delivery' \in Delivery
      <4>1. \/ delivery' = delivery
            \/ delivery' = [delivery EXCEPT !.candidate = frame]
            \/ delivery' = [delivery EXCEPT !.pending = numbered]
            \/ /\ delivery.budget # 0
               /\ delivery' = [delivery EXCEPT !.budget = @ - 1, !.target = NoTime,
                                               !.candidate = NoFrame, !.pending = numbered]
        BY <1>33 DEF PublishFrame, RefusesSurface, RetainsSurface
      <4> HIDE DEF frame, numbered
      <4> QED
        BY <3>1, <4>1, PublishedType DEF PlayerOK
    <3>4. nextSerial' \in Nat \ {0} /\ deliveries' \in Nat
      BY <1>33 DEF PublishFrame, PlayerOK, HistoryOK
    <3>5. mishaps' \subseteq {"refused", "stolen", "unstopped"}
      BY <1>33 DEF PublishFrame, HistoryOK
    <3> QED
      BY <1>33, <3>2, <3>3, <3>4, <3>5 DEF PublishFrame, PlayerOK, VlcOK, HistoryOK
  <2> QED
    BY <2>1, <2>2 DEF Shape
<1>34. ASSUME AcquireLatestFrame PROVE Shape'
  <2>1. LockOK' /\ GenerationOK' /\ SurfaceOK'
    BY <1>34 DEF AcquireLatestFrame, PlayerOK, ThreadsOK, LockOK, GenerationOK,
                 SurfaceOK, Goto, LockedPC, FreePC, CanGiveUp, Threads
  <2>2. TypeOK'
    BY <1>34 DEF AcquireLatestFrame, PlayerOK, ThreadsOK, VlcOK, HistoryOK, Delivery,
                 Frame
  <2> QED
    BY <2>1, <2>2 DEF Shape
<1>35. CASE UNCHANGED vars
  BY <1>35 DEF vars, Shape, TypeOK, PlayerOK, ThreadsOK, VlcOK, HistoryOK, LockOK,
               GenerationOK, SurfaceOK
<1> QED
  BY <1>1, <1>2, <1>3, <1>4, <1>5, <1>6, <1>7, <1>8, <1>9, <1>10, <1>11, <1>12,
     <1>13, <1>14, <1>15, <1>16, <1>17, <1>18, <1>19, <1>20, <1>21, <1>22, <1>23,
     <1>24, <1>25, <1>26, <1>27, <1>28, <1>29, <1>30, <1>31, <1>32, <1>33, <1>34,
     <1>35
     DEF Next, NewCommand, CallerStep, SampleStep

-----------------------------------------------------------------------------
(* The intent of the last command *)

\* Whoever is going to pause libVLC does it while playback is not wanted.
PausersOK ==
  \A t \in Threads : pc[t] \in {"pause_deliver", "pause_vlc", "repause"} => ~playWhenReady

\* A command that has loaded or started a media has left libVLC not paused.
StartersOK ==
  \A t \in Threads : pc[t] \in {"play_publish", "open_idle", "open_play"} => vlcState # "paused"

\* libVLC is paused while playback is wanted only until the command that
\* wants it has reached libVLC.
ReadyOK ==
  playWhenReady /\ vlcState = "paused" =>
    \E t \in Threads :
      owner = t /\ pc[t] \in {"play_deliver", "play_vlc", "open_deliver", "open_media"}

IntentOK == PausersOK /\ StartersOK /\ ReadyOK

\* Every step keeps to the intent.
LEMMA IntentStep == Shape /\ IntentOK /\ [Next]_vars => IntentOK'
<1> SUFFICES ASSUME Shape, IntentOK, [Next]_vars PROVE IntentOK'
  OBVIOUS
<1> USE BridgeAssumption DEF IntentOK, PausersOK, StartersOK, ReadyOK, Shape, TypeOK,
                             PlayerOK,
         ThreadsOK, VlcOK, VlcStates, LockOK, LockedPC, Goto, Threads,
         transportVars, publicVars, vlcVars, historyVars
<1>1. ASSUME NEW c \in Callers, Play(c) PROVE IntentOK'
  BY <1>1 DEF Play, Enter, Command
<1>2. ASSUME NEW c \in Callers, PlayDeliver(c) PROVE IntentOK'
  BY <1>2 DEF PlayDeliver
<1>3. ASSUME NEW c \in Callers, PlayVlc(c) PROVE IntentOK'
  BY <1>3 DEF PlayVlc, VlcEnter, GiveUp
<1>4. ASSUME NEW c \in Callers, PlayPublish(c) PROVE IntentOK'
  BY <1>4 DEF PlayPublish, Leave, Return
<1>5. ASSUME NEW c \in Callers, FailDeliver(c) PROVE IntentOK'
  BY <1>5 DEF FailDeliver, Leave, Return
<1>6. ASSUME NEW c \in Callers, Pause(c) PROVE IntentOK'
  BY <1>6 DEF Pause, Enter, Command
<1>7. ASSUME NEW c \in Callers, PauseDeliver(c) PROVE IntentOK'
  BY <1>7 DEF PauseDeliver
<1>8. ASSUME NEW c \in Callers, PauseVlc(c) PROVE IntentOK'
  BY <1>8 DEF PauseVlc, Leave, Return, VlcSetPause, VlcEnter
<1>9. ASSUME NEW c \in Callers, Stop(c) PROVE IntentOK'
  BY <1>9 DEF Stop, Enter, Command
<1>10. ASSUME NEW c \in Callers, StopDeliver(c) PROVE IntentOK'
  BY <1>10 DEF StopDeliver
<1>11. ASSUME NEW c \in Callers, StopVlc(c) PROVE IntentOK'
  BY <1>11 DEF StopVlc, Leave, Return, VlcEnter
<1>12. ASSUME NEW c \in Callers, SeekArm(c) PROVE IntentOK'
  BY <1>12 DEF SeekArm
<1>13. ASSUME NEW c \in Callers, SeekGate(c) PROVE IntentOK'
  BY <1>13 DEF SeekGate
<1>14. ASSUME NEW c \in Callers, SeekTime(c) PROVE IntentOK'
  BY <1>14 DEF SeekTime, Leave, Return
<1>15. ASSUME NEW c \in Callers, SeekRefused(c) PROVE IntentOK'
  BY <1>15 DEF SeekRefused, Leave, Return
<1>16. ASSUME NEW c \in Callers, SeekResume(c) PROVE IntentOK'
  BY <1>16 DEF SeekResume, Leave, Return, VlcSetPause, VlcEnter
<1>17. ASSUME NEW c \in Callers, OpenDeliver(c) PROVE IntentOK'
  BY <1>17 DEF OpenDeliver
<1>18. ASSUME NEW c \in Callers, OpenMedia(c) PROVE IntentOK'
  BY <1>18 DEF OpenMedia, Leave, Return, VlcEnter, GiveUp
<1>19. ASSUME NEW c \in Callers, OpenIdle(c) PROVE IntentOK'
  BY ZenonT(60), <1>19 DEF OpenIdle, Leave, Return
<1>20. ASSUME NEW c \in Callers, OpenPlay(c) PROVE IntentOK'
  BY <1>20 DEF OpenPlay, Leave, Return, VlcEnter, GiveUp
<1>21. ASSUME NEW c \in Callers, GetSnapshot(c) PROVE IntentOK'
  BY <1>21 DEF GetSnapshot, Sampled
<1>22. ASSUME NEW c \in Callers, NEW time \in Targets, Seek(c, time) PROVE IntentOK'
  BY <1>22 DEF Seek, Enter
<1>23. ASSUME NEW c \in Callers, NEW autoplay \in BOOLEAN, Open(c, autoplay) PROVE IntentOK'
  BY <1>23 DEF Open, Enter, Command
<1>24. ASSUME NEW t \in Callers \cup {VlcThread}, Track(t) PROVE IntentOK'
  BY <1>24 DEF Track, Return
<1>25. ASSUME NEW t \in Callers \cup {VlcThread}, CompleteSeek(t) PROVE IntentOK'
  BY <1>25 DEF CompleteSeek, CompletesSeek, KeepLocked
<1>26. ASSUME NEW t \in Callers \cup {VlcThread}, LeaveSeekPending(t) PROVE IntentOK'
  BY <1>26 DEF LeaveSeekPending, Return
<1>27. ASSUME NEW t \in Callers \cup {VlcThread}, Repause(t) PROVE IntentOK'
  BY <1>27 DEF Repause, Leave, Return, VlcSetPause, VlcEnter
<1>28. ASSUME PositionChanged PROVE IntentOK'
  BY <1>28 DEF PositionChanged, Sampled
<1>29. ASSUME DeliverEvent PROVE IntentOK'
  BY <1>29 DEF DeliverEvent
<1>30. ASSUME StateChanged PROVE IntentOK'
  BY <1>30 DEF StateChanged, Return
<1>31. ASSUME EndOfMedia PROVE IntentOK'
  BY <1>31 DEF EndOfMedia
<1>32. ASSUME Render PROVE IntentOK'
  BY <1>32 DEF Render
<1>33. ASSUME PublishFrame PROVE IntentOK'
  BY <1>33 DEF PublishFrame
<1>34. ASSUME AcquireLatestFrame PROVE IntentOK'
  BY <1>34 DEF AcquireLatestFrame
<1>35. CASE UNCHANGED vars
  BY <1>35 DEF vars
<1> QED
  BY <1>1, <1>2, <1>3, <1>4, <1>5, <1>6, <1>7, <1>8, <1>9, <1>10, <1>11, <1>12,
     <1>13, <1>14, <1>15, <1>16, <1>17, <1>18, <1>19, <1>20, <1>21, <1>22, <1>23,
     <1>24, <1>25, <1>26, <1>27, <1>28, <1>29, <1>30, <1>31, <1>32, <1>33, <1>34,
     <1>35
     DEF Next, NewCommand, CallerStep, SampleStep

-----------------------------------------------------------------------------
(* The frames a paused player shows *)

\* What is left of the budget and what has been shown make at most one frame.
BudgetOK == ~delivery.continuous => deliveries + delivery.budget <= 1

SerialsOK == SerialsGrow /\ lastAcquired < nextSerial

FramesOK == CandidateOnlyWhileSeeking /\ BudgetOK /\ SerialsOK

\* What publish_frame does with a surface: nothing, keep it for a paused seek,
\* or number it and leave it for the consumer.
PublishCases(frame, numbered) ==
  \/ UNCHANGED <<delivery, nextSerial, deliveries>>
  \/ /\ ~delivery.continuous /\ delivery.budget = 1
     /\ delivery.target >= 0 /\ delivery.repause
     /\ delivery' = [delivery EXCEPT !.candidate = frame]
     /\ UNCHANGED <<nextSerial, deliveries>>
  \/ /\ delivery.continuous
     /\ delivery' = [delivery EXCEPT !.pending = numbered]
     /\ nextSerial' = nextSerial + 1
     /\ UNCHANGED deliveries
  \/ /\ ~delivery.continuous /\ delivery.budget = 1
     /\ delivery' = [delivery EXCEPT !.budget = 0, !.target = NoTime,
                                     !.candidate = NoFrame, !.pending = numbered]
     /\ nextSerial' = nextSerial + 1
     /\ deliveries' = deliveries + 1

\* publish_frame takes one of these cases; a published surface gets next_serial.
LEMMA PublishFrameCases ==
  ASSUME Shape, PublishFrame
  PROVE  \E numbered \in Frame :
           /\ numbered.serial = nextSerial
           /\ numbered.target = local[OutputThread].frame.target
           /\ PublishCases(local[OutputThread].frame, numbered)
<1> DEFINE numbered == [local[OutputThread].frame EXCEPT !.serial = nextSerial]
<1>1. local[OutputThread].frame \in Frame
  BY DEF PublishFrame, Goto, Shape, SurfaceOK
<1>2. /\ numbered \in Frame /\ numbered.serial = nextSerial
      /\ numbered.target = local[OutputThread].frame.target
  BY <1>1 DEF Frame, Shape, TypeOK, PlayerOK
<1>3. delivery.budget \in {0, 1} /\ delivery.continuous \in BOOLEAN
  BY DEF Shape, TypeOK, PlayerOK, Delivery
<1>4. PublishCases(local[OutputThread].frame, numbered)
  <2>1. CASE RefusesSurface
    BY <2>1 DEF PublishFrame, PublishCases
  <2>2. CASE ~RefusesSurface /\ RetainsSurface
    BY <2>2, <1>3 DEF PublishFrame, PublishCases, RefusesSurface, RetainsSurface
  <2>3. CASE ~RefusesSurface /\ ~RetainsSurface /\ delivery.continuous
    BY <2>3 DEF PublishFrame, PublishCases
  <2>4. CASE ~RefusesSurface /\ ~RetainsSurface /\ ~delivery.continuous
    <3>1. delivery.budget = 1 /\ delivery.budget - 1 = 0
      BY <2>4, <1>3 DEF RefusesSurface
    <3> QED
      BY <2>4, <3>1 DEF PublishFrame, PublishCases
  <2> QED
    BY <2>1, <2>2, <2>3, <2>4
<1> QED
  BY <1>2, <1>4

\* Every step keeps the account of frames.
LEMMA FramesStep == Shape /\ FramesOK /\ [Next]_vars => FramesOK'
<1> SUFFICES ASSUME Shape, FramesOK, [Next]_vars PROVE FramesOK'
  OBVIOUS
<1> USE BridgeAssumption DEF FramesOK, BudgetOK, SerialsOK, SerialsGrow,
                             CandidateOnlyWhileSeeking,
         Shape, TypeOK, PlayerOK, HistoryOK, Delivery, Frame, Times, NoTime,
         transportVars, publicVars, vlcVars, historyVars
<1>1. ASSUME NEW c \in Callers, PlayDeliver(c) PROVE FramesOK'
  BY <1>1 DEF PlayDeliver, SetFrameDelivery, PendingAfter, CandidateAfter
<1>2. ASSUME NEW c \in Callers, FailDeliver(c) PROVE FramesOK'
  BY <1>2 DEF FailDeliver, SetFrameDelivery, PendingAfter, CandidateAfter
<1>3. ASSUME NEW c \in Callers, PauseDeliver(c) PROVE FramesOK'
  BY <1>3 DEF PauseDeliver, SetFrameDelivery, PendingAfter, CandidateAfter
<1>4. ASSUME NEW c \in Callers, StopDeliver(c) PROVE FramesOK'
  BY <1>4 DEF StopDeliver, SetFrameDelivery, PendingAfter, CandidateAfter
<1>5. ASSUME NEW c \in Callers, SeekArm(c) PROVE FramesOK'
  BY <1>5 DEF SeekArm, SetFrameDelivery, PendingAfter, CandidateAfter
<1>6. ASSUME NEW c \in Callers, SeekGate(c) PROVE FramesOK'
  BY <1>6 DEF SeekGate
<1>7. ASSUME NEW c \in Callers, OpenDeliver(c) PROVE FramesOK'
  BY <1>7 DEF OpenDeliver, SetFrameDelivery, PendingAfter, CandidateAfter
<1>8. ASSUME NEW c \in Callers, OpenIdle(c) PROVE FramesOK'
  BY <1>8 DEF OpenIdle, SetFrameDelivery, PendingAfter, CandidateAfter
<1>9. ASSUME NEW t \in Callers \cup {VlcThread}, CompleteSeek(t) PROVE FramesOK'
  BY <1>9 DEF CompleteSeek, CompletesSeek, BudgetSpent, TakeSerial
<1>10. ASSUME PublishFrame PROVE FramesOK'
  <2> DEFINE frame == local[OutputThread].frame
  <2>1. PICK numbered \in Frame : /\ numbered.serial = nextSerial
                                  /\ numbered.target = frame.target
                                  /\ PublishCases(frame, numbered)
    BY <1>10, PublishFrameCases
  <2>2. lastAcquired' = lastAcquired
    BY <1>10 DEF PublishFrame
  <2> HIDE DEF frame
  <2>3. CandidateOnlyWhileSeeking'
    BY ZenonT(60), <2>1 DEF PublishCases
  <2>4. BudgetOK'
    <3>1. \/ delivery'.continuous
          \/ /\ ~delivery.continuous
             /\ delivery'.budget = delivery.budget /\ deliveries' = deliveries
          \/ /\ ~delivery.continuous /\ delivery.budget = 1
             /\ delivery'.budget = 0 /\ deliveries' = deliveries + 1
      BY ZenonT(60), <2>1 DEF PublishCases
    <3>2. delivery.budget \in {0, 1} /\ deliveries \in Nat
      OBVIOUS
    <3> QED
      BY <3>1, <3>2
  <2>5. SerialsOK'
    <3>1. \/ delivery'.pending = delivery.pending /\ nextSerial' = nextSerial
          \/ delivery'.pending = numbered /\ nextSerial' = nextSerial + 1
      BY <2>1 DEF PublishCases
    <3> QED
      BY <2>1, <2>2, <3>1
  <2> QED
    BY <2>3, <2>4, <2>5
<1>11. ASSUME AcquireLatestFrame PROVE FramesOK'
  BY <1>11 DEF AcquireLatestFrame
<1>12. ASSUME NEW c \in Callers,
              \/ Play(c) \/ PlayVlc(c) \/ PlayPublish(c) \/ Pause(c) \/ PauseVlc(c)
              \/ Stop(c) \/ StopVlc(c) \/ SeekTime(c) \/ SeekRefused(c)
              \/ SeekResume(c) \/ OpenMedia(c) \/ OpenPlay(c) \/ GetSnapshot(c)
      PROVE  FramesOK'
  BY <1>12 DEF Play, PlayVlc, PlayPublish, Pause, PauseVlc, Stop, StopVlc, SeekTime,
         SeekRefused, SeekResume, OpenMedia, OpenPlay, GetSnapshot
<1>13. ASSUME NEW c \in Callers, NEW time \in Targets, Seek(c, time)
      PROVE  FramesOK'
  BY <1>13 DEF Seek
<1>14. ASSUME NEW c \in Callers, NEW autoplay \in BOOLEAN, Open(c, autoplay)
      PROVE  FramesOK'
  BY <1>14 DEF Open
<1>15. ASSUME NEW t \in Callers \cup {VlcThread},
              Track(t) \/ LeaveSeekPending(t) \/ Repause(t)
      PROVE  FramesOK'
  BY <1>15 DEF Track, LeaveSeekPending, Repause
<1>16. ASSUME PositionChanged \/ DeliverEvent \/ StateChanged \/ EndOfMedia \/ Render
      PROVE  FramesOK'
  BY <1>16 DEF PositionChanged, DeliverEvent, StateChanged, EndOfMedia, Render
<1>17. CASE UNCHANGED vars
  BY <1>17 DEF vars
<1> QED
  BY <1>1, <1>2, <1>3, <1>4, <1>5, <1>6, <1>7, <1>8, <1>9, <1>10, <1>11, <1>12,
     <1>13, <1>14, <1>15, <1>16, <1>17
     DEF Next, NewCommand, CallerStep, SampleStep

-----------------------------------------------------------------------------
(* Superseded seeks *)

\* Here a command has not yet replaced the delivery of the one before it.
Delivering == {"play_deliver", "pause_deliver", "stop_deliver", "open_deliver", "seek_arm",
               "fail_deliver"}

\* What a command believes of play_when_ready is so while it holds the mutex.
BeliefOK ==
  \A t \in Threads :
    /\ pc[t] \in {"pause_deliver", "stop_deliver", "seek_arm", "seek_gate", "fail_deliver"}
         => ~playWhenReady
    /\ pc[t] \in {"seek_arm", "seek_gate", "seek_time"} => (local[t].flag <=> ~playWhenReady)
    /\ pc[t] \in {"open_deliver", "open_media", "open_idle"}
         => (local[t].flag <=> playWhenReady)
    /\ pc[t] = "seek_arm" => local[t].time = lastTarget

\* While playback is wanted every frame is delivered, but for a command that
\* is just about to say so.
ContinuousOK ==
  playWhenReady =>
    \/ delivery.continuous
    \/ \E t \in Threads :
         owner = t /\ pc[t] \in {"play_deliver", "open_deliver", "open_media", "open_idle"}

\* A surface on its way has no target of its own.
UntargetedOK ==
  pc[OutputThread] = "publish" => local[OutputThread].frame.target = NoTime

\* The target waited for, and the one of a frame that was published for a
\* seek, are those of the last command.
TargetOK ==
  (\A t \in Threads : pc[t] \notin Delivering) /\ ~delivery.continuous =>
    /\ delivery.target # NoTime => delivery.target = lastTarget
    /\ delivery.pending # NoFrame /\ delivery.pending.target # NoTime
         => delivery.pending.target = lastTarget

SupersededOK == BeliefOK /\ ContinuousOK /\ UntargetedOK /\ TargetOK

\* Every step leaves only the last seek's target behind.
LEMMA SupersededStep == Shape /\ SupersededOK /\ [Next]_vars => SupersededOK'
<1> SUFFICES ASSUME Shape, SupersededOK, [Next]_vars PROVE SupersededOK'
  OBVIOUS
<1> USE BridgeAssumption DEF SupersededOK, BeliefOK, ContinuousOK, UntargetedOK,
                             TargetOK, Delivering,
         Shape, TypeOK, PlayerOK, ThreadsOK, Delivery, Frame, Locals, LockOK,
         LockedPC, Goto, Threads, transportVars, publicVars, vlcVars, historyVars
<1>1. ASSUME NEW c \in Callers, Play(c) PROVE SupersededOK'
  BY ZenonT(60), <1>1 DEF Play, Enter, Command
<1>2. ASSUME NEW c \in Callers, PlayDeliver(c) PROVE SupersededOK'
  BY <1>2 DEF PlayDeliver, SetFrameDelivery, PendingAfter, CandidateAfter
<1>3. ASSUME NEW c \in Callers, PlayVlc(c) PROVE SupersededOK'
  BY SMTT(60), <1>3 DEF PlayVlc, VlcEnter, GiveUp
<1>4. ASSUME NEW c \in Callers, PlayPublish(c) PROVE SupersededOK'
  BY <1>4 DEF PlayPublish, Leave, Return
<1>5. ASSUME NEW c \in Callers, FailDeliver(c) PROVE SupersededOK'
  BY <1>5 DEF FailDeliver, SetFrameDelivery, PendingAfter, CandidateAfter, Leave, Return
<1>6. ASSUME NEW c \in Callers, Pause(c) PROVE SupersededOK'
  BY <1>6 DEF Pause, Enter, Command
<1>7. ASSUME NEW c \in Callers, PauseDeliver(c) PROVE SupersededOK'
  BY <1>7 DEF PauseDeliver, SetFrameDelivery, PendingAfter, CandidateAfter
<1>8. ASSUME NEW c \in Callers, PauseVlc(c) PROVE SupersededOK'
  BY <1>8 DEF PauseVlc, Leave, Return, VlcSetPause, VlcEnter
<1>9. ASSUME NEW c \in Callers, Stop(c) PROVE SupersededOK'
  BY <1>9 DEF Stop, Enter, Command
<1>10. ASSUME NEW c \in Callers, StopDeliver(c) PROVE SupersededOK'
  BY <1>10 DEF StopDeliver, SetFrameDelivery, PendingAfter, CandidateAfter
<1>11. ASSUME NEW c \in Callers, StopVlc(c) PROVE SupersededOK'
  BY <1>11 DEF StopVlc, Leave, Return, VlcEnter
<1>12. ASSUME NEW c \in Callers, SeekArm(c) PROVE SupersededOK'
  BY <1>12 DEF SeekArm, SetFrameDelivery, PendingAfter, CandidateAfter
<1>13. ASSUME NEW c \in Callers, SeekGate(c) PROVE SupersededOK'
  BY <1>13 DEF SeekGate
<1>14. ASSUME NEW c \in Callers, SeekTime(c) PROVE SupersededOK'
  BY <1>14 DEF SeekTime, Leave, Return
<1>15. ASSUME NEW c \in Callers, SeekRefused(c) PROVE SupersededOK'
  BY <1>15 DEF SeekRefused, Refuse, Leave, Return
<1>16. ASSUME NEW c \in Callers, SeekResume(c) PROVE SupersededOK'
  BY <1>16 DEF SeekResume, Leave, Return, VlcSetPause, VlcEnter
<1>17. ASSUME NEW c \in Callers, OpenDeliver(c) PROVE SupersededOK'
  BY <1>17 DEF OpenDeliver, SetFrameDelivery, PendingAfter, CandidateAfter
<1>18. ASSUME NEW c \in Callers, OpenMedia(c) PROVE SupersededOK'
  BY SMTT(60), <1>18 DEF OpenMedia, Leave, Return, VlcEnter, GiveUp
<1>19. ASSUME NEW c \in Callers, OpenIdle(c) PROVE SupersededOK'
  BY <1>19 DEF OpenIdle, SetFrameDelivery, PendingAfter, CandidateAfter, Leave, Return
<1>20. ASSUME NEW c \in Callers, OpenPlay(c) PROVE SupersededOK'
  BY SMTT(60), <1>20 DEF OpenPlay, Leave, Return, VlcEnter, GiveUp
<1>21. ASSUME NEW c \in Callers, GetSnapshot(c) PROVE SupersededOK'
  BY <1>21 DEF GetSnapshot, Sampled
<1>22. ASSUME NEW c \in Callers, NEW time \in Targets, Seek(c, time) PROVE SupersededOK'
  BY SMTT(60), <1>22 DEF Seek, Enter
<1>23. ASSUME NEW c \in Callers, NEW autoplay \in BOOLEAN, Open(c, autoplay) PROVE SupersededOK'
  BY ZenonT(60), <1>23 DEF Open, Enter, Command
<1>24. ASSUME NEW t \in Callers \cup {VlcThread}, Track(t) PROVE SupersededOK'
  BY <1>24 DEF Track, Return
<1>25. ASSUME NEW t \in Callers \cup {VlcThread}, CompleteSeek(t) PROVE SupersededOK'
  BY <1>25 DEF CompleteSeek, CompletesSeek, KeepLocked
<1>26. ASSUME NEW t \in Callers \cup {VlcThread}, LeaveSeekPending(t) PROVE SupersededOK'
  BY <1>26 DEF LeaveSeekPending, Return
<1>27. ASSUME NEW t \in Callers \cup {VlcThread}, Repause(t) PROVE SupersededOK'
  BY <1>27 DEF Repause, Leave, Return, VlcSetPause, VlcEnter
<1>28. ASSUME PositionChanged PROVE SupersededOK'
  BY <1>28 DEF PositionChanged, Sampled
<1>29. ASSUME DeliverEvent PROVE SupersededOK'
  BY <1>29 DEF DeliverEvent
<1>30. ASSUME StateChanged PROVE SupersededOK'
  BY <1>30 DEF StateChanged, Return
<1>31. ASSUME EndOfMedia PROVE SupersededOK'
  BY <1>31 DEF EndOfMedia
<1>32. ASSUME Render PROVE SupersededOK'
  BY <1>32 DEF Render
<1>33. ASSUME PublishFrame PROVE SupersededOK'
  <2> DEFINE frame == local[OutputThread].frame
  <2>1. PICK numbered \in Frame : /\ numbered.serial = nextSerial
                                  /\ numbered.target = frame.target
                                  /\ PublishCases(frame, numbered)
    BY <1>33, PublishFrameCases
  <2>2. frame.target = NoTime
    BY <1>33 DEF PublishFrame
  <2> HIDE DEF frame
  <2>3. TargetOK'
    BY ZenonT(60), <1>33, <2>1, <2>2 DEF PublishFrame, PublishCases
  <2>4. BeliefOK' /\ UntargetedOK'
    BY <1>33 DEF PublishFrame
  <2>5. ContinuousOK'
    BY <1>33, <2>1 DEF PublishFrame, PublishCases
  <2> QED
    BY <2>3, <2>4, <2>5
<1>34. ASSUME AcquireLatestFrame PROVE SupersededOK'
  BY <1>34 DEF AcquireLatestFrame
<1>35. CASE UNCHANGED vars
  BY <1>35 DEF vars
<1> HIDE DEF SupersededOK, BeliefOK, ContinuousOK, UntargetedOK, TargetOK, Shape
<1> QED
  BY <1>1, <1>2, <1>3, <1>4, <1>5, <1>6, <1>7, <1>8, <1>9, <1>10, <1>11, <1>12,
     <1>13, <1>14, <1>15, <1>16, <1>17, <1>18, <1>19, <1>20, <1>21, <1>22, <1>23,
     <1>24, <1>25, <1>26, <1>27, <1>28, <1>29, <1>30, <1>31, <1>32, <1>33, <1>34,
     <1>35
     DEF Next, NewCommand, CallerStep, SampleStep

-----------------------------------------------------------------------------
(* A paused seek is paused again *)

\* A thread is at one of these places, with the mutex.
AtMutex(places) == \E t \in Threads : owner = t /\ pc[t] \in places

\* A command here is going to pause or stop libVLC, or has just done it.
Quieting == {"pause_deliver", "pause_vlc", "repause", "stop_deliver", "stop_vlc",
             "open_deliver", "open_media"}

\* Only a call that libVLC refuses leads to the last step of a failed command.
RefusalsOK == \A t \in Threads : pc[t] = "fail_deliver" => mishaps # {}

\* open() has stopped libVLC before it starts it again.
LoadedOK == \A t \in Threads : pc[t] \in {"open_idle", "open_play"} => vlcState = "stopped"

\* A seek made while paused has armed the delivery before it resumes libVLC.
ArmedOK ==
  \A t \in Threads :
    /\ pc[t] = "seek_gate" /\ mishaps = {} => delivery.target >= 0
    /\ pc[t] = "seek_resume" => local[t].flag
    /\ pc[t] \in {"seek_time", "seek_resume"} /\ local[t].flag /\ mishaps = {}
         => SeekInProgress

\* libVLC plays without being wanted to only for a seek, or until the command
\* that holds the mutex has reached libVLC.
QuietOK ==
  mishaps = {} /\ ~playWhenReady /\ vlcState = "playing" =>
    SeekInProgress \/ AtMutex(Quieting \cup {"seek_gate"})

\* A command that starts libVLC still wants playback.
WantingOK ==
  \A t \in Threads : pc[t] \in {"play_deliver", "play_vlc", "open_play"} => playWhenReady

RepauseOK == RefusalsOK /\ LoadedOK /\ ArmedOK /\ QuietOK /\ WantingOK

\* Every step keeps it: whoever resumes libVLC has armed the seek that pauses it.
LEMMA RepauseStep == Shape /\ SupersededOK /\ RepauseOK /\ [Next]_vars => RepauseOK'
<1> SUFFICES ASSUME Shape, SupersededOK, RepauseOK, [Next]_vars PROVE RepauseOK'
  OBVIOUS
<1> USE BridgeAssumption DEF RepauseOK, RefusalsOK, LoadedOK, ArmedOK, QuietOK, WantingOK,
         AtMutex, Quieting, SeekInProgress, DecodeInProgress, SupersededOK, BeliefOK,
         Shape, TypeOK, PlayerOK, ThreadsOK, VlcOK, VlcStates, Delivery, Locals, LockOK,
         LockedPC, Goto, Threads, Times, NoTime, transportVars, publicVars, vlcVars, historyVars
<1>1. ASSUME NEW c \in Callers, Play(c) PROVE RepauseOK'
  BY ZenonT(60), <1>1 DEF Play, Enter, Command
<1>2. ASSUME NEW c \in Callers, PlayDeliver(c) PROVE RepauseOK'
  BY <1>2 DEF PlayDeliver, SetFrameDelivery, PendingAfter, CandidateAfter
<1>3. ASSUME NEW c \in Callers, PlayVlc(c) PROVE RepauseOK'
  <2>1. RefusalsOK'
    BY ZenonT(60), <1>3 DEF PlayVlc, VlcEnter, GiveUp, Refuse
  <2>2. LoadedOK'
    BY SMTT(60), <1>3 DEF PlayVlc, VlcEnter, GiveUp, Refuse
  <2>3. ArmedOK'
    BY SMTT(60), <1>3 DEF PlayVlc, VlcEnter, GiveUp, Refuse
  <2>4. QuietOK'
    BY <1>3 DEF PlayVlc, VlcEnter, GiveUp, Refuse
  <2>5. WantingOK'
    BY SMTT(60), <1>3 DEF PlayVlc, VlcEnter, GiveUp, Refuse
  <2> QED
    BY <2>1, <2>2, <2>3, <2>4, <2>5
<1>4. ASSUME NEW c \in Callers, PlayPublish(c) PROVE RepauseOK'
  BY <1>4 DEF PlayPublish, Leave, Return
<1>5. ASSUME NEW c \in Callers, FailDeliver(c) PROVE RepauseOK'
  BY <1>5 DEF FailDeliver, SetFrameDelivery, PendingAfter, CandidateAfter, Leave, Return
<1>6. ASSUME NEW c \in Callers, Pause(c) PROVE RepauseOK'
  BY ZenonT(60), <1>6 DEF Pause, Enter, Command
<1>7. ASSUME NEW c \in Callers, PauseDeliver(c) PROVE RepauseOK'
  BY ZenonT(60), <1>7 DEF PauseDeliver, SetFrameDelivery, PendingAfter, CandidateAfter
<1>8. ASSUME NEW c \in Callers, PauseVlc(c) PROVE RepauseOK'
  BY <1>8 DEF PauseVlc, Leave, Return, VlcSetPause, VlcEnter
<1>9. ASSUME NEW c \in Callers, Stop(c) PROVE RepauseOK'
  BY ZenonT(60), <1>9 DEF Stop, Enter, Command
<1>10. ASSUME NEW c \in Callers, StopDeliver(c) PROVE RepauseOK'
  BY SMTT(60), <1>10 DEF StopDeliver, SetFrameDelivery, PendingAfter, CandidateAfter
<1>11. ASSUME NEW c \in Callers, StopVlc(c) PROVE RepauseOK'
  BY ZenonT(60), <1>11 DEF StopVlc, Leave, Return, VlcEnter, Refuse
<1>12. ASSUME NEW c \in Callers, SeekArm(c) PROVE RepauseOK'
  BY SMTT(60), <1>12 DEF SeekArm, SetFrameDelivery, PendingAfter, CandidateAfter
<1>13. ASSUME NEW c \in Callers, SeekGate(c) PROVE RepauseOK'
  BY <1>13 DEF SeekGate
<1>14. ASSUME NEW c \in Callers, SeekTime(c) PROVE RepauseOK'
  <2>1. RefusalsOK'
    BY ZenonT(60), <1>14 DEF SeekTime, Leave, Return
  <2>2. LoadedOK'
    BY SMTT(60), <1>14 DEF SeekTime, Leave, Return
  <2>3. ArmedOK'
    BY SMTT(60), <1>14 DEF SeekTime, Leave, Return
  <2>4. QuietOK'
    BY <1>14 DEF SeekTime, Leave, Return
  <2>5. WantingOK'
    BY <1>14 DEF SeekTime, Leave, Return
  <2> QED
    BY <2>1, <2>2, <2>3, <2>4, <2>5
<1>15. ASSUME NEW c \in Callers, SeekRefused(c) PROVE RepauseOK'
  BY SMTT(60), <1>15 DEF SeekRefused, Refuse, Leave, Return
<1>16. ASSUME NEW c \in Callers, SeekResume(c) PROVE RepauseOK'
  BY ZenonT(60), <1>16 DEF SeekResume, Leave, Return, VlcSetPause, VlcEnter
<1>17. ASSUME NEW c \in Callers, OpenDeliver(c) PROVE RepauseOK'
  BY ZenonT(60), <1>17 DEF OpenDeliver, SetFrameDelivery, PendingAfter, CandidateAfter
<1>18. ASSUME NEW c \in Callers, OpenMedia(c) PROVE RepauseOK'
  <2>1. RefusalsOK'
    BY ZenonT(60), <1>18 DEF OpenMedia, Leave, Return, VlcEnter, GiveUp, Refuse
  <2>2. LoadedOK'
    BY ZenonT(60), <1>18 DEF OpenMedia, Leave, Return, VlcEnter, GiveUp, Refuse
  <2>3. ArmedOK'
    <3>1. pc[c] = "open_media" /\ owner = c
      BY <1>18 DEF OpenMedia, Leave, Return
    <3>2. \A t \in Threads : pc'[t] = IF t = c THEN pc'[c] ELSE pc[t]
      BY <1>18 DEF OpenMedia, Leave, Return
    <3>3. pc'[c] \in {"open_idle", "idle"}
      BY <1>18 DEF OpenMedia, Leave, Return
    <3> QED
      BY ZenonT(60), <3>1, <3>2, <3>3
  <2>4. QuietOK'
    BY <1>18 DEF OpenMedia, Leave, Return, VlcEnter, GiveUp, Refuse
  <2>5. WantingOK'
    BY ZenonT(60), <1>18 DEF OpenMedia, Leave, Return, VlcEnter, GiveUp, Refuse
  <2> QED
    BY <2>1, <2>2, <2>3, <2>4, <2>5
<1>19. ASSUME NEW c \in Callers, OpenIdle(c) PROVE RepauseOK'
  BY SMTT(60), <1>19 DEF OpenIdle, SetFrameDelivery, PendingAfter, CandidateAfter, Leave, Return
<1>20. ASSUME NEW c \in Callers, OpenPlay(c) PROVE RepauseOK'
  <2>1. RefusalsOK'
    BY ZenonT(60), <1>20 DEF OpenPlay, Leave, Return, VlcEnter, GiveUp, Refuse
  <2>2. LoadedOK'
    BY ZenonT(60), <1>20 DEF OpenPlay, Leave, Return, VlcEnter, GiveUp, Refuse
  <2>3. ArmedOK'
    <3>1. \A t \in Threads : pc'[t] \notin {"seek_gate", "seek_time", "seek_resume"}
      BY SMTT(60), <1>20 DEF OpenPlay, Leave, Return
    <3> QED
      BY <3>1
  <2>4. QuietOK'
    BY <1>20 DEF OpenPlay, Leave, Return, VlcEnter, GiveUp, Refuse
  <2>5. WantingOK'
    BY ZenonT(60), <1>20 DEF OpenPlay, Leave, Return, VlcEnter, GiveUp, Refuse
  <2> QED
    BY <2>1, <2>2, <2>3, <2>4, <2>5
<1>21. ASSUME NEW c \in Callers, GetSnapshot(c) PROVE RepauseOK'
  BY <1>21 DEF GetSnapshot, Sampled
<1>22. ASSUME NEW c \in Callers, NEW time \in Targets, Seek(c, time) PROVE RepauseOK'
  <2>1. RefusalsOK'
    BY <1>22 DEF Seek, Enter
  <2>2. LoadedOK'
    BY <1>22 DEF Seek, Enter
  <2>3. ArmedOK'
    <3>1. \A t \in Threads : pc'[t] \notin {"seek_gate", "seek_resume"}
      BY <1>22 DEF Seek, Enter
    <3>2. \A t \in Threads : pc'[t] = "seek_time" => t = c /\ playWhenReady
      BY <1>22 DEF Seek, Enter
    <3>3. playWhenReady => ~local'[c].flag
      <4>1. local'[c] = [local[c] EXCEPT !.time = time, !.flag = ~playWhenReady]
        BY <1>22 DEF Seek
      <4>2. local[c] \in Locals
        OBVIOUS
      <4> QED
        BY <4>1, <4>2
    <3> QED
      BY ZenonT(60), <3>1, <3>2, <3>3
  <2>4. QuietOK'
    BY <1>22 DEF Seek, Enter
  <2>5. WantingOK'
    BY <1>22 DEF Seek, Enter
  <2> QED
    BY <2>1, <2>2, <2>3, <2>4, <2>5
<1>23. ASSUME NEW c \in Callers, NEW autoplay \in BOOLEAN, Open(c, autoplay) PROVE RepauseOK'
  BY ZenonT(60), <1>23 DEF Open, Enter, Command
<1>24. ASSUME NEW t \in Callers \cup {VlcThread}, Track(t) PROVE RepauseOK'
  <2>1. RefusalsOK'
    BY ZenonT(60), <1>24 DEF Track, Return
  <2>2. LoadedOK'
    BY ZenonT(60), <1>24 DEF Track, Return
  <2>3. ArmedOK'
    <3>1. UNCHANGED <<delivery, mishaps, playWhenReady, transportGeneration>>
      BY <1>24 DEF Track
    <3>2. \A u \in Threads : pc'[u] \in {"seek_gate", "seek_time", "seek_resume"} =>
            pc'[u] = pc[u] /\ local'[u] = local[u]
      BY ZenonT(60), <1>24 DEF Track, Return
    <3> QED
      BY SMTT(60), <3>1, <3>2
  <2>4. QuietOK'
    BY ZenonT(60), <1>24 DEF Track, Return
  <2>5. WantingOK'
    BY ZenonT(60), <1>24 DEF Track, Return
  <2> QED
    BY <2>1, <2>2, <2>3, <2>4, <2>5
<1>25. ASSUME NEW t \in Callers \cup {VlcThread}, CompleteSeek(t) PROVE RepauseOK'
  BY ZenonT(60), <1>25 DEF CompleteSeek, CompletesSeek, KeepLocked
<1>26. ASSUME NEW t \in Callers \cup {VlcThread}, LeaveSeekPending(t) PROVE RepauseOK'
  BY SMTT(60), <1>26 DEF LeaveSeekPending, Return
<1>27. ASSUME NEW t \in Callers \cup {VlcThread}, Repause(t) PROVE RepauseOK'
  BY <1>27 DEF Repause, Leave, Return, VlcSetPause, VlcEnter
<1>28. ASSUME PositionChanged PROVE RepauseOK'
  BY <1>28 DEF PositionChanged, Sampled
<1>29. ASSUME DeliverEvent PROVE RepauseOK'
  BY <1>29 DEF DeliverEvent
<1>30. ASSUME StateChanged PROVE RepauseOK'
  BY <1>30 DEF StateChanged, Return
<1>31. ASSUME EndOfMedia PROVE RepauseOK'
  BY <1>31 DEF EndOfMedia
<1>32. ASSUME Render PROVE RepauseOK'
  BY <1>32 DEF Render
<1>33. ASSUME PublishFrame PROVE RepauseOK'
  BY ZenonT(60), <1>33 DEF PublishFrame, RefusesSurface, RetainsSurface
<1>34. ASSUME AcquireLatestFrame PROVE RepauseOK'
  BY <1>34 DEF AcquireLatestFrame
<1>35. CASE UNCHANGED vars
  BY <1>35 DEF vars
<1> HIDE DEF RepauseOK
<1> QED
  BY <1>1, <1>2, <1>3, <1>4, <1>5, <1>6, <1>7, <1>8, <1>9, <1>10, <1>11, <1>12,
     <1>13, <1>14, <1>15, <1>16, <1>17, <1>18, <1>19, <1>20, <1>21, <1>22, <1>23,
     <1>24, <1>25, <1>26, <1>27, <1>28, <1>29, <1>30, <1>31, <1>32, <1>33, <1>34,
     <1>35
     DEF Next, NewCommand, CallerStep, SampleStep


-----------------------------------------------------------------------------
(* The public state tells a paused player from a playing one *)

\* The event libVLC queues for each of its states.
EventFor == [stopped |-> "STOPPED", playing |-> "PLAYING", paused |-> "PAUSED"]

\* libVLC has reported something the public state does not show yet: the last event it
\* has queued, or the one on_state_changed is working on.
Undelivered == events # <<>> \/ pc[VlcThread] = "state"
Newest == IF events # <<>> THEN events[Len(events)] ELSE local[VlcThread].event

\* The last event not delivered yet is the one for the state libVLC is in.
NewestOK == Undelivered => Newest = EventFor[vlcState]

\* What a step leaves to deliver.
Reported ==
  ~Undelivered' =>
    /\ UNCHANGED vlcState
    /\ \/ ~Undelivered
       \/ /\ pc[VlcThread] = "state" /\ pc'[VlcThread] = "idle"
          /\ local[VlcThread].event = EventFor[vlcState]

\* libVLC's thread is delivering the same event as before, or none.
SameEvent ==
  /\ pc'[VlcThread] = "state" <=> pc[VlcThread] = "state"
  /\ pc[VlcThread] = "state" => local'[VlcThread] = local[VlcThread]

\* A step in which libVLC reports nothing.
LEMMA SilentReports ==
  ASSUME Shape, NewestOK, SameEvent, UNCHANGED <<events, vlcState>>
  PROVE  NewestOK' /\ Reported
BY DEF NewestOK, Reported, Undelivered, Newest, SameEvent

\* A step in which libVLC enters a state.
LEMMA EnteringReports ==
  ASSUME Shape, NewestOK, SameEvent, NEW new \in VlcStates, VlcEnter(new, EventFor[new])
  PROVE  NewestOK' /\ Reported
<1>1. CASE vlcState = new
  BY <1>1, SilentReports DEF VlcEnter
<1>2. CASE vlcState # new
  <2>1. EventFor[new] \in PlaybackStates
    BY DEF EventFor, VlcStates, PlaybackStates
  <2>2. /\ events' # <<>> /\ events'[Len(events')] = EventFor[new]
        /\ vlcState' = new
    BY <1>2, <2>1 DEF VlcEnter, Shape, TypeOK, VlcOK
  <2> QED
    BY <2>2 DEF NewestOK, Reported, Undelivered, Newest
<1> QED
  BY <1>1, <1>2

\* A step in which libVLC is paused or resumed.
LEMMA SetPauseReports ==
  ASSUME Shape, NewestOK, SameEvent, NEW paused \in BOOLEAN, VlcSetPause(paused)
  PROVE  NewestOK' /\ Reported
<1>1. /\ EventFor["paused"] = "PAUSED" /\ EventFor["playing"] = "PLAYING"
      /\ "paused" \in VlcStates /\ "playing" \in VlcStates
  BY DEF EventFor, VlcStates
<1>2. \/ VlcEnter("paused", "PAUSED") \/ VlcEnter("playing", "PLAYING")
      \/ UNCHANGED <<events, vlcState>>
  BY DEF VlcSetPause
<1> QED
  BY <1>1, <1>2, SilentReports, EnteringReports

\* The event taken from the queue is delivered before the others.
LEMMA TakenReports ==
  ASSUME NEW s \in Seq(PlaybackStates), s # <<>>
  PROVE  s[Len(s)] = IF Tail(s) # <<>> THEN Tail(s)[Len(Tail(s))] ELSE Head(s)
<1>1. Len(s) \in Nat /\ Len(s) > 0 /\ Len(Tail(s)) = Len(s) - 1
  OBVIOUS
<1>2. CASE Tail(s) = <<>>
  <2>1. Len(<<>>) = 0
    OBVIOUS
  <2>2. Len(Tail(s)) = 0
    BY <1>2, <2>1, Zenon
  <2>3. \A n \in Nat : 0 = n - 1 => n = 1
    OBVIOUS
  <2>4. Len(s) = 1
    BY <1>1, <2>2, <2>3, Zenon
  <2> QED
    BY <1>2, <2>4
<1>3. CASE Tail(s) # <<>>
  <2>1. Tail(s) \in Seq(PlaybackStates) /\ Len(Tail(s)) > 0
    BY <1>3
  <2>2. Tail(s)[Len(Tail(s))] = s[Len(Tail(s)) + 1]
    BY <1>1, <2>1
  <2> QED
    BY <1>1, <1>3, <2>2
<1> QED
  BY <1>2, <1>3

\* Every step keeps the queue's end up to date.
LEMMA ReportStep == Shape /\ NewestOK /\ [Next]_vars => NewestOK' /\ Reported
<1> SUFFICES ASSUME Shape, NewestOK, [Next]_vars PROVE NewestOK' /\ Reported
  OBVIOUS
<1> USE BridgeAssumption DEF SameEvent, Goto, Threads, vlcVars
<1>0. pc \in [Threads -> LockedPC \cup FreePC] /\ local \in [Threads -> Locals]
  BY DEF Shape, TypeOK, ThreadsOK
<1>1. ASSUME NEW c \in Callers,
             \/ Play(c) \/ PlayDeliver(c) \/ PlayPublish(c) \/ FailDeliver(c) \/ Pause(c)
             \/ PauseDeliver(c) \/ Stop(c) \/ StopDeliver(c) \/ SeekArm(c) \/ SeekGate(c)
             \/ SeekTime(c) \/ SeekRefused(c) \/ OpenDeliver(c) \/ OpenIdle(c) \/ GetSnapshot(c)
      PROVE  NewestOK' /\ Reported
  <2>1. SameEvent /\ UNCHANGED <<events, vlcState>>
    BY <1>0, <1>1 DEF Play, PlayDeliver, PlayPublish, FailDeliver, Pause, PauseDeliver, Stop,
       StopDeliver, SeekArm, SeekGate, SeekTime, SeekRefused, OpenDeliver, OpenIdle, GetSnapshot,
       Enter, Leave, Return, Sampled
  <2> QED
    BY <2>1, SilentReports
<1>2. ASSUME NEW c \in Callers, NEW time \in Targets, Seek(c, time)
      PROVE  NewestOK' /\ Reported
  <2>1. SameEvent /\ UNCHANGED <<events, vlcState>>
    BY <1>0, <1>2 DEF Seek, Enter
  <2> QED
    BY <2>1, SilentReports
<1>3. ASSUME NEW c \in Callers, NEW autoplay \in BOOLEAN, Open(c, autoplay)
      PROVE  NewestOK' /\ Reported
  <2>1. SameEvent /\ UNCHANGED <<events, vlcState>>
    BY <1>0, <1>3 DEF Open, Enter
  <2> QED
    BY <2>1, SilentReports
<1>4. ASSUME NEW t \in Callers \cup {VlcThread},
             Track(t) \/ CompleteSeek(t) \/ LeaveSeekPending(t)
      PROVE  NewestOK' /\ Reported
  <2>1. SameEvent /\ UNCHANGED <<events, vlcState>>
    BY <1>0, <1>4 DEF Track, CompleteSeek, LeaveSeekPending, Return
  <2> QED
    BY <2>1, SilentReports
<1>5. ASSUME PositionChanged \/ Render \/ PublishFrame \/ AcquireLatestFrame
      PROVE  NewestOK' /\ Reported
  <2>1. SameEvent /\ UNCHANGED <<events, vlcState>>
    BY <1>0, <1>5 DEF PositionChanged, Render, PublishFrame, AcquireLatestFrame, Sampled
  <2> QED
    BY <2>1, SilentReports
<1>6. ASSUME NEW c \in Callers, PauseVlc(c) \/ SeekResume(c)
      PROVE  NewestOK' /\ Reported
  <2>1. SameEvent
    BY <1>0, <1>6 DEF PauseVlc, SeekResume, Leave, Return
  <2> QED
    BY <1>6, <2>1, SetPauseReports DEF PauseVlc, SeekResume
<1>7. ASSUME NEW t \in Callers \cup {VlcThread}, Repause(t)
      PROVE  NewestOK' /\ Reported
  <2>1. SameEvent
    BY <1>0, <1>7 DEF Repause, Leave, Return
  <2> QED
    BY <1>7, <2>1, SetPauseReports DEF Repause
<1>8. ASSUME NEW c \in Callers, PlayVlc(c) \/ StopVlc(c) \/ OpenMedia(c) \/ OpenPlay(c)
      PROVE  NewestOK' /\ Reported
  <2>1. SameEvent
    BY <1>0, <1>8 DEF PlayVlc, StopVlc, OpenMedia, OpenPlay, Leave, Return
  <2>2. \/ VlcEnter("playing", "PLAYING") \/ VlcEnter("stopped", "STOPPED")
        \/ UNCHANGED <<events, vlcState>>
    BY <1>8 DEF PlayVlc, StopVlc, OpenMedia, OpenPlay
  <2>3. /\ EventFor["stopped"] = "STOPPED" /\ EventFor["playing"] = "PLAYING"
        /\ "stopped" \in VlcStates /\ "playing" \in VlcStates
    BY DEF EventFor, VlcStates
  <2> QED
    BY <2>1, <2>2, <2>3, SilentReports, EnteringReports
<1>9. ASSUME EndOfMedia PROVE NewestOK' /\ Reported
  <2>1. events \in Seq(PlaybackStates)
    BY DEF Shape, TypeOK, VlcOK
  <2>2. events' # <<>> /\ events'[Len(events')] = "STOPPED" /\ vlcState' = "stopped"
    BY <1>9, <2>1 DEF EndOfMedia, PlaybackStates
  <2> QED
    BY <2>2 DEF NewestOK, Reported, Undelivered, Newest, EventFor
<1>10. ASSUME DeliverEvent PROVE NewestOK' /\ Reported
  <2>1. /\ events \in Seq(PlaybackStates) /\ events # <<>> /\ events' = Tail(events)
        /\ pc'[VlcThread] = "state" /\ vlcState' = vlcState
    BY <1>0, <1>10 DEF DeliverEvent, Shape, TypeOK, VlcOK
  <2>2. local'[VlcThread].event = Head(events)
    BY <1>0, <1>10 DEF DeliverEvent, Locals
  <2>3. Newest' = Newest
    BY <2>1, <2>2, TakenReports DEF Newest
  <2> QED
    BY <2>1, <2>3 DEF NewestOK, Reported, Undelivered
<1>11. ASSUME StateChanged PROVE NewestOK' /\ Reported
  <2>1. pc[VlcThread] = "state" /\ pc'[VlcThread] = "idle" /\ UNCHANGED <<events, vlcState>>
    BY <1>0, <1>11 DEF StateChanged, Return
  <2> QED
    BY <2>1 DEF NewestOK, Reported, Undelivered, Newest
<1>12. CASE UNCHANGED vars
  BY <1>12, SilentReports DEF vars
<1> QED
  BY <1>1, <1>2, <1>3, <1>4, <1>5, <1>6, <1>7, <1>8, <1>9, <1>10, <1>11, <1>12
     DEF Next, NewCommand, CallerStep, SampleStep


\* A seek that will pause libVLC again belongs to the current generation, unless the command
\* that supersedes it has not reached the delivery yet.
CurrentOK ==
  delivery.repause /\ delivery.target >= 0 =>
    \/ ~playWhenReady /\ delivery.generation = transportGeneration
    \/ AtMutex({"pause_deliver", "stop_deliver", "open_deliver"})
    \/ \E t \in Threads : owner = t /\ pc[t] = "play_deliver" /\ local[t].flag

\* A play() that ends a paused seek is going to publish PLAYING itself.
Publishing ==
  \E t \in Threads :
    owner = t /\ local[t].flag /\ pc[t] \in {"play_deliver", "play_vlc", "play_publish"}

\* What the public state shows when all events have been delivered.
PausedShown == mishaps = {} /\ ~Undelivered /\ vlcState = "paused" => state = "PAUSED"
PlayingShown ==
  mishaps = {} /\ ~Undelivered /\ vlcState = "playing" =>
    \/ state = "PLAYING" \/ SeekInProgress
    \/ AtMutex(Quieting \cup {"seek_gate"}) \/ Publishing

\* The clock's reader goes on to the completion or returns.
LEMMA TrackMoves ==
  ASSUME Shape, NEW t \in Threads, Track(t)
  PROVE  \A u \in Threads : pc'[u] = pc[u] \/ pc'[u] \in {"complete", "idle"}
BY DEF Shape, TypeOK, ThreadsOK, Track, Return, Goto

\* A surface does not disarm a seek, unless it takes its target.
LEMMA PublishedKeepsSeek ==
  ASSUME Shape, PublishFrame
  PROVE  /\ delivery'.repause = delivery.repause /\ delivery'.generation = delivery.generation
         /\ delivery'.target \in {delivery.target, NoTime}
<1>1. PICK numbered \in Frame : PublishCases(local[OutputThread].frame, numbered)
  BY PublishFrameCases
<1>2. delivery \in Delivery
  BY DEF Shape, TypeOK, PlayerOK
<1> HIDE DEF NoTime
<1> QED
  BY <1>1, <1>2 DEF PublishCases, Delivery

\* on_state_changed keeps PLAYING back only while a seek is armed.
LEMMA MaskedWhileArmed ==
  ASSUME StateChanged, local[VlcThread].event = "PLAYING"
  PROVE  state' = "PLAYING" \/ (delivery.repause /\ delivery.target >= 0)
BY DEF StateChanged, DecodeInProgress

\* No seek is armed any more when open() loads a media.
DisarmedOK == \A t \in Threads : pc[t] = "open_media" => ~delivery.repause

ShownOK == CurrentOK /\ DisarmedOK /\ PausedShown /\ PlayingShown

\* Every step keeps the public state honest.
LEMMA ShownStep ==
  Shape /\ IntentOK /\ SupersededOK /\ RepauseOK /\ ShownOK /\ Reported /\ [Next]_vars => ShownOK'
<1> SUFFICES ASSUME Shape, IntentOK, SupersededOK, RepauseOK, ShownOK, Reported, [Next]_vars
             PROVE  ShownOK'
  OBVIOUS
<1> USE BridgeAssumption DEF ShownOK, CurrentOK, DisarmedOK, PausedShown, PlayingShown,
         Publishing, AtMutex, Quieting, Reported, SeekInProgress, DecodeInProgress,
         SupersededOK, BeliefOK, IntentOK, StartersOK,
         RepauseOK, RefusalsOK, LoadedOK, ArmedOK, WantingOK,
         Shape, TypeOK, PlayerOK, ThreadsOK, VlcOK, VlcStates, Delivery, Locals, LockOK,
         LockedPC, Goto, Threads, Times, NoTime, transportVars, publicVars, vlcVars, historyVars
<1>1. ASSUME NEW c \in Callers, Play(c) PROVE ShownOK'
  <2>1. CurrentOK'
    BY <1>1 DEF Play, Enter, Command
  <2>2. DisarmedOK'
    BY <1>1 DEF Play, Enter, Command
  <2>3. PausedShown'
    BY <1>1 DEF Play, Enter, Command
  <2>4. PlayingShown'
    BY <1>1 DEF Play, Enter, Command
  <2> QED
    BY <2>1, <2>2, <2>3, <2>4
<1>2. ASSUME NEW c \in Callers, PlayDeliver(c) PROVE ShownOK'
  BY <1>2 DEF PlayDeliver, SetFrameDelivery, PendingAfter, CandidateAfter
<1>3. ASSUME NEW c \in Callers, PlayVlc(c) PROVE ShownOK'
  <2>1. CurrentOK'
    BY <1>3 DEF PlayVlc, VlcEnter, GiveUp, Refuse
  <2>2. DisarmedOK'
    BY SMTT(60), <1>3 DEF PlayVlc, VlcEnter, GiveUp, Refuse
  <2>3. PausedShown'
    BY <1>3 DEF PlayVlc, VlcEnter, GiveUp, Refuse
  <2>4. PlayingShown'
    BY SMTT(60), <1>3 DEF PlayVlc, VlcEnter, GiveUp, Refuse
  <2> QED
    BY <2>1, <2>2, <2>3, <2>4
<1>4. ASSUME NEW c \in Callers, PlayPublish(c) PROVE ShownOK'
  BY SMTT(60), <1>4 DEF PlayPublish, Leave, Return
<1>5. ASSUME NEW c \in Callers, FailDeliver(c) PROVE ShownOK'
  BY <1>5 DEF FailDeliver, SetFrameDelivery, PendingAfter, CandidateAfter, Leave, Return
<1>6. ASSUME NEW c \in Callers, Pause(c) PROVE ShownOK'
  BY <1>6 DEF Pause, Enter, Command
<1>7. ASSUME NEW c \in Callers, PauseDeliver(c) PROVE ShownOK'
  BY <1>7 DEF PauseDeliver, SetFrameDelivery, PendingAfter, CandidateAfter
<1>8. ASSUME NEW c \in Callers, PauseVlc(c) PROVE ShownOK'
  BY SMTT(60), <1>8 DEF PauseVlc, Leave, Return, VlcSetPause, VlcEnter
<1>9. ASSUME NEW c \in Callers, Stop(c) PROVE ShownOK'
  BY SMTT(60), <1>9 DEF Stop, Enter, Command
<1>10. ASSUME NEW c \in Callers, StopDeliver(c) PROVE ShownOK'
  BY <1>10 DEF StopDeliver, SetFrameDelivery, PendingAfter, CandidateAfter
<1>11. ASSUME NEW c \in Callers, StopVlc(c) PROVE ShownOK'
  <2>1. CurrentOK'
    BY SMTT(60), <1>11 DEF StopVlc, Leave, Return, VlcEnter, Refuse
  <2>2. DisarmedOK'
    BY <1>11 DEF StopVlc, Leave, Return, VlcEnter, Refuse
  <2>3. PausedShown'
    BY <1>11 DEF StopVlc, Leave, Return, VlcEnter, Refuse
  <2>4. PlayingShown'
    BY <1>11 DEF StopVlc, Leave, Return, VlcEnter, Refuse
  <2> QED
    BY <2>1, <2>2, <2>3, <2>4
<1>12. ASSUME NEW c \in Callers, SeekArm(c) PROVE ShownOK'
  BY <1>12 DEF SeekArm, SetFrameDelivery, PendingAfter, CandidateAfter
<1>13. ASSUME NEW c \in Callers, SeekGate(c) PROVE ShownOK'
  BY ZenonT(60), <1>13 DEF SeekGate
<1>14. ASSUME NEW c \in Callers, SeekTime(c) PROVE ShownOK'
  <2>1. CurrentOK'
    BY SMTT(60), <1>14 DEF SeekTime, Leave, Return
  <2>2. DisarmedOK'
    BY SMTT(60), <1>14 DEF SeekTime, Leave, Return
  <2>3. PausedShown'
    BY ZenonT(60), <1>14 DEF SeekTime, Leave, Return
  <2>4. PlayingShown'
    BY SMTT(60), <1>14 DEF SeekTime, Leave, Return
  <2> QED
    BY <2>1, <2>2, <2>3, <2>4
<1>15. ASSUME NEW c \in Callers, SeekRefused(c) PROVE ShownOK'
  BY SMTT(60), <1>15 DEF SeekRefused, Refuse, Leave, Return
<1>16. ASSUME NEW c \in Callers, SeekResume(c) PROVE ShownOK'
  BY SMTT(60), <1>16 DEF SeekResume, Leave, Return, VlcSetPause, VlcEnter
<1>17. ASSUME NEW c \in Callers, OpenDeliver(c) PROVE ShownOK'
  BY <1>17 DEF OpenDeliver, SetFrameDelivery, PendingAfter, CandidateAfter
<1>18. ASSUME NEW c \in Callers, OpenMedia(c) PROVE ShownOK'
  BY <1>18 DEF OpenMedia, Leave, Return, VlcEnter, GiveUp, Refuse
<1>19. ASSUME NEW c \in Callers, OpenIdle(c) PROVE ShownOK'
  BY SMTT(60), <1>19 DEF OpenIdle, SetFrameDelivery, PendingAfter, CandidateAfter, Leave, Return
<1>20. ASSUME NEW c \in Callers, OpenPlay(c) PROVE ShownOK'
  BY SMTT(60), <1>20 DEF OpenPlay, Leave, Return, VlcEnter, GiveUp, Refuse
<1>21. ASSUME NEW c \in Callers, GetSnapshot(c) PROVE ShownOK'
  BY <1>21 DEF GetSnapshot, Sampled
<1>22. ASSUME NEW c \in Callers, NEW time \in Targets, Seek(c, time) PROVE ShownOK'
  BY ZenonT(60), <1>22 DEF Seek, Enter
<1>23. ASSUME NEW c \in Callers, NEW autoplay \in BOOLEAN, Open(c, autoplay) PROVE ShownOK'
  BY <1>23 DEF Open, Enter, Command
<1>24. ASSUME NEW t \in Callers \cup {VlcThread}, Track(t) PROVE ShownOK'
  <2>1. CurrentOK'
    <3>1. /\ UNCHANGED <<owner, playWhenReady, transportGeneration, delivery, vlcState>>
          /\ UNCHANGED <<state, mishaps>>
      BY <1>24 DEF Track
    <3>2. \A u \in Threads : pc[u] # "track" => pc'[u] = pc[u] /\ local'[u] = local[u]
      BY ZenonT(60), <1>24 DEF Track, Return
    <3> QED
      BY ZenonT(60), <3>1, <3>2
  <2>2. DisarmedOK'
    <3>1. \A u \in Threads : pc'[u] = "open_media" => pc[u] = "open_media"
      BY <1>24, TrackMoves
    <3> QED
      BY <1>24, <3>1 DEF Track
  <2>3. PausedShown'
    BY ZenonT(60), <1>24 DEF Track, Return
  <2>4. PlayingShown'
    <3>1. /\ UNCHANGED <<owner, playWhenReady, transportGeneration, delivery, vlcState>>
          /\ UNCHANGED <<state, mishaps>>
      BY <1>24 DEF Track
    <3>2. \A u \in Threads : pc[u] # "track" => pc'[u] = pc[u] /\ local'[u] = local[u]
      BY <1>24 DEF Track, Return
    <3>3. pc[VlcThread] = "state" => pc'[VlcThread] = "state"
      BY <3>2
    <3> QED
      BY ZenonT(60), <3>1, <3>2, <3>3
  <2> QED
    BY <2>1, <2>2, <2>3, <2>4
<1>25. ASSUME NEW t \in Callers \cup {VlcThread}, CompleteSeek(t) PROVE ShownOK'
  BY <1>25 DEF CompleteSeek, CompletesSeek, KeepLocked
<1>26. ASSUME NEW t \in Callers \cup {VlcThread}, LeaveSeekPending(t) PROVE ShownOK'
  BY SMTT(60), <1>26 DEF LeaveSeekPending, Return
<1>27. ASSUME NEW t \in Callers \cup {VlcThread}, Repause(t) PROVE ShownOK'
  BY SMTT(60), <1>27 DEF Repause, Leave, Return, VlcSetPause, VlcEnter
<1>28. ASSUME PositionChanged PROVE ShownOK'
  BY <1>28 DEF PositionChanged, Sampled
<1>29. ASSUME DeliverEvent PROVE ShownOK'
  BY <1>29 DEF DeliverEvent
<1>30. ASSUME StateChanged PROVE ShownOK'
  <2>1. CurrentOK'
    BY <1>30 DEF StateChanged, Return
  <2>2. DisarmedOK'
    BY <1>30 DEF StateChanged, Return
  <2>3. PausedShown'
    <3>1. pc[VlcThread] = "state" /\ Undelivered
      BY <1>30 DEF StateChanged, Return, Undelivered
    <3>2. UNCHANGED mishaps /\ (local[VlcThread].event = "PAUSED" => state' = "PAUSED")
      BY <1>30 DEF StateChanged
    <3> QED
      BY <3>1, <3>2 DEF EventFor
  <2>4. PlayingShown'
    <3>1. pc[VlcThread] = "state" /\ Undelivered
      BY <1>30 DEF StateChanged, Return, Undelivered
    <3>2. UNCHANGED <<owner, playWhenReady, transportGeneration, delivery, mishaps>>
      BY <1>30 DEF StateChanged
    <3>3. \A t \in Threads : pc[t] # "state" => pc'[t] = pc[t] /\ local'[t] = local[t]
      BY <1>30 DEF StateChanged, Return
    <3>4. local[VlcThread].event = "PLAYING" =>
            state' = "PLAYING" \/ (delivery.repause /\ delivery.target >= 0)
      BY <1>30, MaskedWhileArmed
    <3> QED
      BY SMTT(60), <3>1, <3>2, <3>3, <3>4 DEF EventFor
  <2> QED
    BY <2>1, <2>2, <2>3, <2>4
<1>31. ASSUME EndOfMedia PROVE ShownOK'
  BY <1>31 DEF EndOfMedia
<1>32. ASSUME Render PROVE ShownOK'
  BY <1>32 DEF Render
<1>33. ASSUME PublishFrame PROVE ShownOK'
  <2>1. CurrentOK'
    <3>1. UNCHANGED <<owner, playWhenReady, transportGeneration>>
      BY <1>33 DEF PublishFrame
    <3>2. /\ delivery'.repause = delivery.repause /\ delivery'.generation = delivery.generation
          /\ delivery'.target \in {delivery.target, NoTime}
      BY <1>33, PublishedKeepsSeek
    <3>3. \A t \in Threads : pc[t] # "publish" => pc'[t] = pc[t] /\ local'[t] = local[t]
      BY <1>33 DEF PublishFrame
    <3> QED
      BY SMTT(60), <3>1, <3>2, <3>3
  <2>2. DisarmedOK'
    <3>1. delivery'.repause = delivery.repause
      BY <1>33, PublishedKeepsSeek
    <3>2. \A t \in Threads : pc'[t] = "open_media" => pc[t] = "open_media"
      BY <1>33 DEF PublishFrame
    <3> QED
      BY <3>1, <3>2
  <2>3. PausedShown'
    BY <1>33 DEF PublishFrame, RefusesSurface, RetainsSurface
  <2>4. PlayingShown'
    BY ZenonT(60), <1>33 DEF PublishFrame, RefusesSurface, RetainsSurface
  <2> QED
    BY <2>1, <2>2, <2>3, <2>4
<1>34. ASSUME AcquireLatestFrame PROVE ShownOK'
  BY <1>34 DEF AcquireLatestFrame
<1>35. CASE UNCHANGED vars
  BY <1>35 DEF vars
<1> HIDE DEF ShownOK
<1> QED
  BY SMTT(60), <1>1, <1>2, <1>3, <1>4, <1>5, <1>6, <1>7, <1>8, <1>9, <1>10, <1>11, <1>12,
     <1>13, <1>14, <1>15, <1>16, <1>17, <1>18, <1>19, <1>20, <1>21, <1>22, <1>23,
     <1>24, <1>25, <1>26, <1>27, <1>28, <1>29, <1>30, <1>31, <1>32, <1>33, <1>34,
     <1>35
     DEF Next, NewCommand, CallerStep, SampleStep

-----------------------------------------------------------------------------
(* The theorems *)

IInv ==
  /\ Shape /\ IntentOK /\ FramesOK /\ SupersededOK
  /\ RepauseOK /\ NewestOK /\ ShownOK

\* The inductive invariant of the player's transport: the discipline of
\* transport_mutex, the intent of the last command, the account of frames, the seek that
\* pauses libVLC again, and what libVLC has reported and the public state shows.
THEOREM Discipline == Spec => []IInv
<1>1. Init => IInv
  <2> SUFFICES ASSUME Init PROVE IInv
    OBVIOUS
  <2>1. Shape
    BY InitShape
  <2>2. IntentOK
    BY BridgeAssumption DEF Init, IntentOK, PausersOK, StartersOK, ReadyOK
  <2>3. FramesOK
    BY DEF Init, FramesOK, BudgetOK, SerialsOK, SerialsGrow, CandidateOnlyWhileSeeking
  <2>4. SupersededOK
    BY BridgeAssumption DEF Init, SupersededOK, BeliefOK, ContinuousOK, UntargetedOK,
                            TargetOK, Delivering, Threads
  <2>5. RepauseOK
    BY DEF Init, RepauseOK, RefusalsOK, LoadedOK, ArmedOK, QuietOK, WantingOK
  <2>6. NewestOK /\ ShownOK
    BY BridgeAssumption DEF Init, NewestOK, Undelivered, ShownOK, CurrentOK, DisarmedOK,
                            PausedShown, PlayingShown, Threads
  <2> QED
    BY <2>1, <2>2, <2>3, <2>4, <2>5, <2>6 DEF IInv
<1>2. IInv /\ [Next]_vars => IInv'
  BY ShapeStep, IntentStep, FramesStep, SupersededStep, RepauseStep, ReportStep, ShownStep
     DEF IInv
<1> QED
  BY <1>1, <1>2, PTL DEF Spec

\* The variables keep their types; the budget of frames never wraps.
THEOREM TypeCorrect == Spec => []TypeOK
<1>1. IInv => TypeOK
  BY DEF IInv, Shape
<1> QED
  BY <1>1, Discipline, PTL

\* No completion of a paused seek, nor any other thread, leaves libVLC paused
\* after the last command has asked for playback, whatever libVLC refuses.
THEOREM LastCommandWins == Spec => []PlayIntentWins
<1>1. IInv => PlayIntentWins
  BY BridgeAssumption DEF IInv, IntentOK, ReadyOK, PlayIntentWins, Unlocked, Threads
<1> QED
  BY <1>1, Discipline, PTL

\* A paused player shows at most one new frame for each command.
THEOREM PausedShowsOneFrame == Spec => []OneFramePerPausedCommand
<1>1. IInv => OneFramePerPausedCommand
  BY DEF IInv, Shape, TypeOK, PlayerOK, HistoryOK, Delivery, FramesOK, BudgetOK,
         OneFramePerPausedCommand
<1> QED
  BY <1>1, Discipline, PTL

\* A surface retained for a paused seek is there only while the seek waits.
THEOREM CandidateIsWaitedFor == Spec => []CandidateOnlyWhileSeeking
<1>1. IInv => CandidateOnlyWhileSeeking
  BY DEF IInv, FramesOK
<1> QED
  BY <1>1, Discipline, PTL

\* The serials a consumer sees only grow, whichever thread published.
THEOREM SerialsIncrease == Spec => []SerialsGrow
<1>1. IInv => SerialsGrow
  BY DEF IInv, FramesOK, SerialsOK
<1> QED
  BY <1>1, Discipline, PTL

\* The frame a paused seek leaves for the consumer is the last seek's.
THEOREM SupersededIsWithdrawn == Spec => []SupersededSeekPublishesNothing
<1>1. IInv => SupersededSeekPublishesNothing
  <2> SUFFICES ASSUME IInv, owner = NoOwner, delivery.pending # NoFrame,
                      delivery.pending.target # NoTime, ~delivery.continuous
               PROVE  delivery.pending.target = lastTarget
    BY DEF SupersededSeekPublishesNothing, Unlocked
  <2>1. \A t \in Threads : pc[t] \notin Delivering
    BY BridgeAssumption DEF IInv, Shape, LockOK, LockedPC, Delivering, Threads
  <2> QED
    BY <2>1 DEF IInv, SupersededOK, TargetOK
<1> QED
  BY <1>1, Discipline, PTL

\* While playback is not wanted libVLC plays only for a paused seek that pauses it again,
\* unless libVLC refused a call, a surface took the budget of a seek before it was armed, or
\* stop() trusted a stale state (publish_paused_seek_candidate_if_ready, seek, stop).
THEOREM PausedAgain == Spec => []PausedUnlessMishap
<1>1. IInv => PausedUnlessMishap
  <2> SUFFICES ASSUME IInv, mishaps = {}, owner = NoOwner, ~playWhenReady, vlcState = "playing"
               PROVE  SeekInProgress
    BY DEF PausedUnlessMishap, PausedWhenSettled, Unlocked
  <2>1. \A places : ~AtMutex(places)
    BY BridgeAssumption DEF AtMutex, Threads
  <2> QED
    BY <2>1 DEF IInv, RepauseOK, QuietOK
<1> QED
  BY <1>1, Discipline, PTL

\* When every event is delivered and no call is under way, the public state tells a paused
\* player from a playing one: what is masked during a paused seek is made good afterwards
\* (on_state_changed, play).
THEOREM SettledIsHonest == Spec => []SettledState
<1>1. IInv => SettledState
  <2> SUFFICES ASSUME IInv, \A t \in Threads : pc[t] = "idle", events = <<>>,
                      ~SeekInProgress, mishaps = {}
               PROVE  /\ vlcState = "paused" => state = "PAUSED"
                      /\ vlcState = "playing" => state = "PLAYING"
    BY DEF SettledState
  <2>1. ~Undelivered
    BY DEF Undelivered, Threads
  <2>2. ~AtMutex(Quieting \cup {"seek_gate"}) /\ ~Publishing
    BY DEF AtMutex, Quieting, Publishing
  <2> QED
    BY <2>1, <2>2 DEF IInv, ShownOK, PausedShown, PlayingShown
<1> QED
  BY <1>1, Discipline, PTL
=============================================================================
