--------------------------- MODULE MCNativeRuntime ---------------------------
(* The event sink of JniEventSink, and the other parts of the native runtime   *)
(* that have a life of their own: the pool of DMA-BUF surfaces, the desktop    *)
(* player with either delivery, the extraction of the runtime and its          *)
(* replacement, and the Android player.  A behaviour belongs to one part,      *)
(* chosen at the start; the variables of the others keep one value.            *)
EXTENDS JniEventSink, Sequences

CONSTANTS
  Parts,   \* "sink", "pool", "player", "cpuPlayer", "extraction", "replacement", "android"
  Targets, SurfaceCount, MaxSurfaces, MaxHeld,        \* of the pool
  Apps, PlayerFrames,                                 \* of the player
  Processes, External, Files, MaxCrashes, MaxDamage,  \* of the extraction and the replacement
  Windows, Attachments, MaxCalls                      \* of the Android player

ASSUME RuntimeAssumption ==
  /\ Targets \in Seq([on : BOOLEAN, node : STRING, size : Nat, releaseFences : BOOLEAN])
  /\ SurfaceCount \in Nat \ {0} /\ MaxSurfaces \in Nat
  /\ Nobody \notin Apps \cup PlayerFrames
  /\ Files # {}

VARIABLES
  part,
  generation, previous, context, slots, surface, current, locked, pending, acquired, returning,
  monitor, closed, listening, callbacks, player, out, app, frame, released, fence, deletions,
  runtime, temporary, local, stage, todo, manifest, crashes, damage, found,
  surfaces, binding, references, step, alive, installed, media, input, state, intent, pausing,
  resumes, calls

ofPool == <<generation, context, slots, surface, current, locked, acquired, returning>>
ofPlayer == <<monitor, closed, listening, callbacks, player, out, app, frame, released, fence,
              deletions>>
ofRuntime == <<runtime, temporary, local, stage, todo, manifest, crashes, damage, found>>
ofAndroid == <<surfaces, binding, references, step, alive, installed, media, input, state, intent,
               pausing, resumes, calls>>
allvars == <<part, vars, ofPool, ofPlayer, ofRuntime, ofAndroid, previous, pending>>

\* A consumer that returns fences, one that does not and wants another size, and none.
Consumers ==
  <<[on |-> TRUE, node |-> "renderD128", size |-> 1, releaseFences |-> TRUE],
    [on |-> TRUE, node |-> "renderD128", size |-> 2, releaseFences |-> FALSE],
    [on |-> FALSE, node |-> "renderD128", size |-> 2, releaseFences |-> FALSE],
    [on |-> TRUE, node |-> "renderD129", size |-> 2, releaseFences |-> FALSE]>>

\* Video windows, with and without one for the subtitles.
WindowPairs == {<<"w1">>, <<"w2">>, <<"w1", "w2">>}

Pool == INSTANCE LinuxDmaBufPool
Player == INSTANCE DesktopPlayer WITH Frames <- PlayerFrames, Cpu <- FALSE
CpuPlayer == INSTANCE DesktopPlayer WITH Frames <- PlayerFrames, Cpu <- TRUE
Extraction == INSTANCE RuntimeExtraction WITH External <- {}, pc <- stage
Replacement == INSTANCE RuntimeExtraction WITH Processes <- {}, pc <- stage
Android == INSTANCE AndroidPlayer

NoPool ==
  /\ generation = 0 /\ context = <<>> /\ slots = <<>> /\ surface = <<>> /\ current = 0
  /\ locked = FALSE /\ acquired = {} /\ returning = {}
NoPlayer ==
  /\ monitor = Nobody /\ closed = FALSE /\ listening = FALSE /\ callbacks = FALSE /\ player = <<>>
  /\ out = <<>> /\ app = <<>> /\ frame = <<>> /\ released = <<>> /\ fence = <<>> /\ deletions = <<>>
NoRuntime ==
  /\ runtime = <<>> /\ temporary = <<>> /\ local = <<>> /\ stage = <<>> /\ todo = <<>>
  /\ manifest = <<>> /\ crashes = 0 /\ damage = 0 /\ found = <<>>
NoAndroid ==
  /\ surfaces = <<>> /\ binding = <<>> /\ references = <<>> /\ step = "none" /\ alive = FALSE
  /\ installed = FALSE /\ media = FALSE /\ input = <<>> /\ state = <<>> /\ intent = <<>>
  /\ pausing = FALSE /\ resumes = FALSE /\ calls = 0

RuntimeInit ==
  /\ part \in Parts
  /\ Init
  /\ part = "pool" => Pool!Init
  /\ part = "player" => Player!Init
  /\ part = "cpuPlayer" => CpuPlayer!Init
  /\ part = "extraction" => Extraction!Init
  /\ part = "replacement" => Replacement!Init
  /\ part = "android" => Android!Init
  /\ part # "pool" => NoPool
  /\ part \notin {"player", "cpuPlayer"} => NoPlayer
  /\ part \notin {"extraction", "replacement"} => NoRuntime
  /\ part # "android" => NoAndroid
  /\ part \notin {"pool", "android"} => previous = <<>>
  /\ part \notin {"pool", "player", "cpuPlayer"} => pending = <<>>

NotifyOrRelease ==
  part = "sink" /\ Next /\ UNCHANGED <<part, ofPool, ofPlayer, ofRuntime, ofAndroid, previous, pending>>
DrawAndRead ==
  part = "pool" /\ Pool!Next /\ UNCHANGED <<part, vars, ofPlayer, ofRuntime, ofAndroid>>
TakeAndClose ==
  part = "player" /\ Player!Next /\ UNCHANGED <<part, vars, ofPool, ofRuntime, ofAndroid, previous>>
PullAndClose ==
  part = "cpuPlayer" /\ CpuPlayer!Next
  /\ UNCHANGED <<part, vars, ofPool, ofRuntime, ofAndroid, previous>>
ResolveBundled ==
  part = "extraction" /\ Extraction!Next
  /\ UNCHANGED <<part, vars, ofPool, ofPlayer, ofAndroid, previous, pending>>
ResolveExternal ==
  part = "replacement" /\ Replacement!Next
  /\ UNCHANGED <<part, vars, ofPool, ofPlayer, ofAndroid, previous, pending>>
PlayOnAndroid ==
  part = "android" /\ Android!Next /\ UNCHANGED <<part, vars, ofPool, ofPlayer, ofRuntime, pending>>

RuntimeNext ==
  \/ NotifyOrRelease \/ DrawAndRead \/ TakeAndClose \/ PullAndClose
  \/ ResolveBundled \/ ResolveExternal \/ PlayOnAndroid

\* Only the sink's threads are fair; in the other parts that says nothing.
RuntimeSpec == RuntimeInit /\ [][RuntimeNext]_allvars /\ Fairness

-----------------------------------------------------------------------------
(* Properties *)

\* No surface the output thread may draw into is in a frame, or read on the GPU by a
\* consumer the drawing does not wait for; and each frame has the size of the target
\* it names (bind_writable_surface, release_surface_callback, update_output).
SurfacesAreExclusive ==
  part = "pool" => Pool!SurfacesAreExclusive /\ Pool!FramesAreHonest

\* Threads take, release and lose frames while another closes the player: each native
\* frame is deleted once, its fence is settled, no thread of libVLC runs in what was
\* deleted; only a CPU frame is ever lost, to a close between its two native calls.
\* On Android each window has the references of its users, and after destroy none.
PlayersEndCleanly ==
  /\ part = "player" =>
       /\ Player!QuietAfterClose /\ Player!NoUseAfterDelete /\ Player!DeletedOnce
       /\ Player!LostOnlyByClose /\ Player!FencesSettled
  /\ part = "cpuPlayer" =>
       /\ CpuPlayer!QuietAfterClose /\ CpuPlayer!NoUseAfterDelete /\ CpuPlayer!DeletedOnce
       /\ CpuPlayer!LostOnlyByClose /\ CpuPlayer!FencesSettled
  /\ part = "android" => Android!WindowsBalanced

\* A process resolves only a directory every file of which it verified, whoever made
\* or damaged it; what is in place is whole, and is never overwritten or removed.
OnlyVerifiedResolved ==
  /\ [](part = "extraction" => Extraction!OnlyVerifiedResolved)
  /\ [](part = "replacement" => Replacement!OnlyVerifiedResolved)
  /\ Extraction!NeverOverwritten

\* The replacement of an Android player's surfaces makes a new media player, which goes by
\* what was noted of the old one before its release: a paused player does not play on in
\* it, and one that was stopped, or had ended by then, does not start.
ReplacementKeepsIntent ==
  /\ [](part = "android" => Android!PausedStaysPaused)
  /\ Android!ReplacementRestartsNothing
=============================================================================
