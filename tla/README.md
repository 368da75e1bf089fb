# TLA+ verification of KMediaVlc

KMediaVlc packages an audited build of libVLC 4 as a playback runtime: a C++ bridge
around libVLC's media player with a C ABI, JNI and Java on top of it for Linux, macOS
and Windows, a second bridge for Android, and the C ABI alone for iOS. Python scripts build
what is shipped: they fetch VLC's sources, stage and audit the built libraries, and package
and verify the corresponding source of every release. This directory holds TLA+ models of
the runtime's concurrent parts and of these scripts, the configurations TLC checks them
with, and theorems proved with TLAPS. `PROJECT.json` lists components, runs, hazards, findings and
theorems, and maps every definition to the lines it models.

Paths below are relative to the root of the repository. `bridge` is
`native/src/kmediavlc_bridge.cpp`, `jni` is `native/src/kmediavlc_jni.cpp`; scripts are in
`scripts/`.

## 1. Inventory

### The parts and how they interact

```
  application (Java)                              application (C, iOS)
        |                                               |
  VlcDesktopPlayer  -- NativeEventSink <--+             |
        | one monitor around native calls |             |
        v                                 | invoke()    |
  kmediavlc_jni.cpp -- JniEventSink ------+             |
        |                     ^ callbacks               |
        v                     |                         v
  kmediavlc_bridge.cpp : transport_mutex, frame_mutex, output_mutex, atomics
        |            ^                 ^
        | commands   | state, position | rendered surfaces (publish_frame)
        v            | (event thread)  | (output thread)
      libVLC 4 ------+---------- renderer: DMA-BUF / IOSurface / D3D11 / CPU
```

Commands come from any number of application threads. libVLC calls back on threads of
its own: one for events (state, buffering, position, length, stopping), one for the
video output (a renderer's `swap`, or `cpu_display`, which end in `publish_frame`). A
frame goes to the application either by pull (`acquire_latest_frame`) or, in Java, after
the `frame_available` callback, through a `LatestFrameTransport`.

| Component | State | Operations | What is hard | What makes it correct | Status |
|---|---|---|---|---|---|
| Java frame transport (`LatestFrameTransport.java`) | `pending`, `listener`, `closed`, two counters, all atomics | `publish`, `acquireLatest`, `subscribe`, `Subscription.close`, `close` | lock-free; `close` races with `publish` and `subscribe` | each frame released once, by its owner; nothing is left in a closed transport; a waiting frame is announced | modelled, proved |
| Bridge: transport and frame delivery (`bridge`, `bridge_internal.hpp`) | `play_when_ready`, `transport_generation`, the delivery fields under `frame_mutex`, `pending_frame`, position, public state | `open`, `play`, `pause`, `stop`, `seek`, `get_snapshot`, `acquire_latest_frame`, `publish_frame`, state and position callbacks | a paused seek resumes libVLC internally and pauses it again from another thread | the latest command wins; a paused player stays paused and shows one frame per command; a seek ends | modelled, proved |
| Bridge: public state and buffering | `state`, `state_before_buffering`, `buffered_permille`, `media_generation` | `on_buffering_changed`, `on_media_stopping`, `notify_state` | check-then-store on atomics from several threads; events of the previous media | a terminal state is not overwritten; BUFFERING ends | planned |
| Bridge: lifecycle and CPU pull | `callbacks_enabled`, libVLC handles, CPU planes | `create`, `destroy`, `cpu_format/lock/display` | `publish_frame` during `destroy` | no callback after `destroy`; pending frames released | partly: `destroy`, `publish_frame` and the acquisition of CPU frames |
| Bridge: output target | `output_target`, `report_resize` | `update_output`, `resize` | rollback to `previous` after the lock was given up | a rejected target leaves the last accepted one | partly: targets and roll-back for DMA-BUF |
| Linux DMA-BUF renderer | four surfaces, `use_count`, fences, retired pools | `swap`, `leave_current`, frame release, `output_target_changed` | fences that never come; all four surfaces out | no surface is drawn to while a consumer holds or reads it | modelled, proved |
| macOS IOSurface renderer | surface pool, discard surface | the same | resize between bind and swap | a published surface has the size and generation it claims | planned |
| Windows D3D11 renderer | texture pool, keyed mutexes | the same | ownership told from two separate checks | the same exclusivity | planned |
| JNI event sink (`JniEventSink`, `jni` 98-180) | `enabled_`, `active_callbacks_`, a mutex and a condition variable, a global reference | callback guard, `invoke`, `disable_and_release` | count and flag without a lock; the wake-up | no call through a deleted reference; release returns | modelled, proved |
| JNI entry points | none | argument conversion | two-step acquisition of a frame | | partly: the calls of a player's life |
| Java player (`VlcDesktopPlayer`, `VlcDesktopFrame`) | `handle`, `closed`, fence and frame handles | `callNative`, `acquireLatestFrame`, `close`, `release` | `close` waits for callbacks while it holds the monitor | each native frame is deleted once, its fence settled; no call on a destroyed handle | modelled, proved |
| Runtime extraction (`VlcDesktopRuntime`) | the cache directory | `resolveBundled` | two processes, a crash half-way | nothing unverified is loaded | modelled, proved |
| Android player | media player, surfaces, intent, pending pause | surface replacement, `open`, `play`, `pause`, `stop`, `seek` | recreation of the media player, roll-back, deferred pause | the intent survives a replaced surface; windows are released once | partly, proved: without `seek`, volume, rate, tracks |
| Android frame timing | a ring of 128 entries | insert, lookup, clear | overwriting | a lookup answers for its generation and frame only | planned |
| iOS runtime, Android loader | none that is concurrent | packaging, loading in order | | | not modelled |
| libVLC | its own | | outside the repository | | modelled as far as the bridge relies on it |

The scripts run in jobs of the release workflows and on developers' machines. Each is a
sequential program, but none is alone: it reads files that others write, some of them two
or three times; it calls tools that rewrite its outputs; it may fail or be killed at any
line; and a second script, often with code of its own, decides later whether to accept what
the first one made.

```
  prefetch_vlc_archive -> build -> stage_vlc_{linux,macos,windows}_runtime -> payloads
                               \-> stage_vlc_ios_frameworks -> assemble_ios_xcframeworks
                                                              -> verify_ios_xcframework_archive
  checkouts, policies, contrib sources, legal manifest
     |-> package_android_ndk_source -> verify_android_ndk_source_archive
     |       \-> package_android_corresponding_source -> verify_android_corresponding_source_archive
     |-> package_corresponding_source -> verify_corresponding_source_archive
     |       \-> assemble_desktop_corresponding_source -> verify_desktop_...
     \-> package_release_corresponding_source -> verify_release_corresponding_source
```

| Component | State | Operations | What is hard | What makes it correct | Status |
|---|---|---|---|---|---|
| Prefetch (`prefetch_vlc_archive.py`) | the cache directory, temporary files | mirrors, retained bundle, verification, replacement | two jobs, bad mirrors, a kill | only pinned content is ever in place; nothing is left behind | modelled, proved |
| Android source (`package_android_...`, `verify_android_...`) | checkouts, policies, legal manifest, partial file, output | inspect, load, record, write, check again, rename; verify | inputs read two or three times; two packagers; kill | what is accepted agrees with itself; what is published is whole | modelled |
| NDK source (`package_android_ndk_source`, verifier) | a checkout, its HEAD, the policy | ls-tree, read, compare, write; verify | HEAD and files change between reads | the archive holds the pinned blobs | modelled |
| Desktop staging (`stage_vlc_linux/macos/windows_runtime`) | output directory, report, plugin cache | copy, relocate, audit, cache, digest, report | tools rewrite files; leftovers of a killed run; a rebuild meanwhile | a reported runtime loads, and the report is true | modelled |
| iOS staging (`stage_vlc_ios_frameworks`) | temporary directory, report, output | stage, report, rename, handlers | failure at each step; overlapping runs | output and report appear together, from one run | modelled |
| iOS assembly (`assemble_ios_xcframeworks`, verifier) | slices, evidence, output, archive, podspec | verify, xcodebuild, copy, zip, podspec, handler; verify | evidence copied after it was checked | the podspec pins the archive; the archive is what its reports say | modelled |
| Windows, desktop, release source (three pairs of scripts) | candidate, policies, contrib directories, archives written in place | prune, extend, archive; verify | a base read three times; short archives under the final name | what is accepted is whole and complete | modelled |
| Native payload (`create_*_native_inventory`, `extract_windows_candidate`, `package_native_runtime*`) | staging directories, reports, inventories, archived candidate, temporary directory, output | close, inventory, extract, verify, package, publish | files read twice; retry after a kill; a full disk; two packagers | the payload is what was staged, reported and approved, whole | modelled |
| Compliance audit, link audit, legal evidence, payload reuse, release helpers | none | one pass over files | | | not modelled |

### Hazards

The full list, each at its line, is in `PROJECT.json`. The ones that decided the order:

1. The internal re-pause of a paused seek (bridge 693) against `play()`, `pause()`,
   `stop()`, `open()` and a second `seek()`.
2. The two critical sections in which `seek()` arms delivery (1019, 1020-1025) and a
   surface in flight between them.
3. Snapshots of `play_when_ready` and `transport_generation` that are read before
   `frame_mutex` is taken (724-727) and used after it.
4. `close()` against `publish()` in the Java transport: a frame in the place of a closed
   transport belongs to nobody.
5. The release of the JNI global reference against callbacks already past their check.
6. In the scripts: every input that is read twice, every place where a failed or killed run
   leaves something, and every pair of scripts that must agree.

## 2. Plan

In the order of importance; the first twelve rows are done.

| Module | Composes / implements | Kind of results |
|---|---|---|
| `FrameMailbox`, `LatestFrameTransport` (+ `Proofs`) | `LatestFrameTransport` implements `FrameMailbox` | TLC, refinement, TLAPS |
| `BridgeTransport` (+ `Proofs`) | commands, event thread, output thread | TLC, TLAPS |
| `JniEventSink` (+ `NativeRuntimeProofs`) | | TLC, TLAPS |
| `ArchivePrefetch` (+ `Proofs`) | | TLC, TLAPS |
| `AndroidSourcePackage`, `AndroidSourceVerify`; `NdkSourcePackage`, `NdkSourceVerify`; `IosAssembly`, `IosArchiveVerify` | each verifier extends its packager and looks at what it made | TLC |
| `Staging` with `LinuxStaging`, `MacStaging`, `WindowsStaging`, `IosStaging` (+ `StagingProofs`) | one output directory and its report, four scripts | TLC, TLAPS |
| `NativePayload` (+ `StagingProofs`) | starts from what the stagers leave | TLC, TLAPS |
| `SourceArchives` with `WindowsSource`, `DesktopSource` (extends `WindowsSource`: it verifies and extends its archive), `ReleaseSource` | archives written in place | TLC |
| `LinuxDmaBufPool` (+ `NativeRuntimeProofs`) | output thread, application threads, the consumer's GPU | TLC, TLAPS |
| `DesktopPlayer` (+ `Proofs`) | `VlcDesktopPlayer`'s monitor, the two-call acquisition, fences, `destroy` | TLC, TLAPS |
| `RuntimeExtraction` (+ `Proofs`) | processes, a kill, damage | TLC, TLAPS |
| `AndroidPlayer` (+ `NativeRuntimeProofs`) | surface replacement, intent, deferred pause | TLC, TLAPS |
| `MacSurfacePool`, `WindowsTexturePool` | with `LinuxDmaBufPool`, an abstract `SurfacePool` (a surface is with the renderer, with the consumer or free) implemented by each | exclusivity, recovery; TLAPS |
| `PlaybackState` | the public state with buffering, terminal states and media generations | what a listener sees of one media |
| `OutputTarget` | `update_output`, the report of a resize | the size reported last is the last target's |
| `FrameTiming` | the ring against a plain finite map | pure algorithm; TLAPS without induction |

Abstract specifications worth stating: `FrameMailbox` (done), `SurfacePool`, and what a
caller of the bridge is promised (intent, public state, frames of a paused player).

Theorems worth proving next: exclusivity of the two other pools and their refinement of
`SurfacePool`; that a lookup in `FrameTiming` answers for its generation and frame; what the
packagers and verifiers of `MCSourceArchives` promise each other.

## 3. What is modelled

### FrameMailbox and LatestFrameTransport

`FrameMailbox` is the contract as a user of the class sees it: one place; `Put` displaces
what is there and releases it, `Take` hands it to the consumer, `Close` empties it for
good, and a frame offered afterwards is released and refused.

`LatestFrameTransport` is the class. Each access to an `AtomicReference` or
`AtomicBoolean` is a step; `pc` says which access a thread makes next:

| Code | Steps |
|---|---|
| `publish` (35-62) | `Publish`, `CheckClosed` (37), `Swap` (`getAndSet`, 43), `DropSkipped` (44-46), `RecheckClosed` (48), `Retract` (`compareAndSet`, 48-51), `ReadListener` (53), `ConfirmPending` (54), `Notify` (55-61) |
| `acquireLatest` (65-67) | `AcquireLatest`; the consumer closes the frame later (`ConsumerClose`) |
| `close` (95-100) | `BeginClose`, `DetachListener`, `DrainPending`, `ReleaseDrained` |
| `subscribe` (70-81) | `Subscribe`, `Register` (`compareAndSet`), `ReopenCheck`, `Revert`; `Unsubscribe`, `ClearOwn` |

Two accesses that touch only a local variable and a frame of one's own are part of the
step before; the increment of `droppedFrames` and the `close()` of the displaced frame
are one step. The listener may throw, as the code expects, and `listenerFailures` counts
it. `delivered`, `notified` and `watching` are history variables. The constants are the
sets of frames, producers, closers and subscribers; a frame is published once.

### BridgeTransport

The state of `kmediavlc_player` that commands, events and surfaces share.

| Model | Code |
|---|---|
| `owner` | the recursive `transport_mutex` |
| `delivery` | the fields under `frame_mutex`: `continuous_frame_delivery`, `paused_frame_budget`, `paused_seek_*`, the candidate and `pending_frame` |
| `playWhenReady`, `transportGeneration`, `position`, `state`, `nextSerial` | the atomics of the same name |
| `canDeliver` | `video_width > 0` and an output target, fixed in a behaviour |
| `vlcState`, `vlcTime`, `vlcSeeking`, `events` | libVLC: what it does, its public clock, a `set_time` it has not applied yet, events it has not delivered |
| `lastTarget`, `deliveries`, `lastAcquired`, `mishaps` | history |

A command is a sequence of steps `Play`, `PlayDeliver`, `PlayVlc`, `PlayPublish` and so
on: a step is a critical section of `frame_mutex`, a call of libVLC, or the atomic
accesses between two of them. `transport_mutex` is held from the first to the last;
`FailDeliver` is the end of every refused command. `Seek` has its two critical sections,
`SeekArm` and `SeekGate`, and then `SeekTime` (or `SeekRefused`) and `SeekResume`.
`GetSnapshot` and `PositionChanged` read the two atomics (`Sampled`), then `Track`
decides with these values, and `CompleteSeek` / `LeaveSeekPending` / `Repause` are
`publish_paused_seek_candidate_if_ready`, in the caller of `get_snapshot` as well as in
the event thread. `DeliverEvent` / `StateChanged` are `on_state_changed` in the same
two parts.

What is merged into one step, and why that hides nothing the properties see: the stores
of `play_when_ready` and of the generation (both under `transport_mutex`; a reader
between them sees a generation that no seek is armed with after the next step either);
the store of the position by `pause()`; the stores and the delivery at the end of
`open()`; `get_time` and the store of its result in `get_snapshot()`.

libVLC is modelled as the bridge relies on it: `play`, `set_pause`, `stop` and
`set_media` change its state at once and queue an event when the state changes; events
are delivered in order and later; `set_time` is applied some time after it returned;
surfaces show the media where the clock is, are delivered to `publish_frame` some time
after they were rendered, and with `RunAhead` also while libVLC is paused (the comment at
984-986). The end of a media is the pair of events ENDED, STOPPED of 328-342 and 271-276.
With `MayRefuse` any call may be refused. One media length, times `0 .. MaxTime`.

A behaviour starts from a new player or from one that earlier commands left paused
anywhere in the media, with generations and serials counted from there.

`mishaps` records three things that keep a command from its plan; properties name the
ones they exclude:

- `refused`: libVLC refused a call. What a refused call leaves behind is not specified
  anywhere in the repository (a refused `seek()` withdraws the delivery of an earlier
  paused seek that is still decoding; a failed `open()` leaves the previous media
  playing), so those properties say nothing of it.
- `stolen`: a surface spent the budget of a paused seek before the seek set
  `paused_seek_repause_pending`. See the first finding.
- `unstopped`: `stop()` took a public state STOPPED or ENDED for libVLC's (998-1003).
  The public state can be that of the previous media: open and play while an event of
  the previous media is not delivered yet; the event then overwrites IDLE or PLAYING,
  `stop()` returns without stopping libVLC, and it goes on playing. No comment or
  document of the repository speaks of it, so it is recorded as a hazard.

### JniEventSink

The sink through which the bridge calls Java. `CheckEnabled`, `Count`, `Recheck` are the
constructor of `CallbackGuard`, `Invoke` the call through the global reference, `Finish`,
`LockToNotify`, `Notify` its destructor; `Disable`, `Lock`, `Test`, `Wait`, `Delete` are
`disable_and_release()`, with spurious wake-ups. `Callbacks` are libVLC's threads, each of
which calls any number of times; there is one releasing thread, because `destroyPlayer`
(1033-1041) is called once under the monitor of the Java player.

All accesses are in one total order. The store of `enabled_` (release) followed by the
load of the count (acquire) on one side, and `fetch_add` followed by the load of
`enabled_` on the other, are the store-buffering pattern, for which C++ allows both sides
to miss the other's store; weaker orders are outside this model.

### LinuxDmaBufPool

The pool of `native/src/linux_dmabuf_renderer.cpp`. libVLC's output thread calls `setup`,
`make_current` (`Enter` takes `state_mutex_`, `Leave` gives it back), `update_output`, `swap`
and `cleanup`; the application sets targets, acquires frames and releases them. An
allocation is an element of `Ids`; it is alive while somebody has a `shared_ptr` to it
(`Alive`), and `slot.use_count() == 1` is `Idle`. `Bind` is `bind_writable_surface`: the
idle slots are looked at in turn, their fences waited for, until one fits or can be replaced.
`Refusals` says which allocations and which waits the driver refuses. The release of a
frame is two steps, as in the code: `Release` is the callback that leaves the fence or
retires the surface, `Delete` ends the frame's hold on it.

`reading` is not in the code: it says that the consumer's GPU may still read the surface.
It ends with a release without a fence by a consumer that uses none, with a fence that has
been waited for, or with the allocation. One number stands for width, height, format and
modifier, a render node for the context. `NewTarget`, `AcceptTarget` and `RejectTarget` are
the two halves of `kmediavlc_player_update_output`, which stores the target before it asks
the renderer.

Two facts about the code show in the model and break no property. `ensure_surfaces`
compares only the front surface with the target, so that a slot replaced one by one can
leave surfaces of two sizes in the pool; `bind_writable_surface` compares each. A frame bound
under a target that is rejected afterwards carries the rejected generation.

### DesktopPlayer

`VlcDesktopPlayer`, `VlcDesktopFrame`, the JNI entry points they use, and `create`/`destroy`
of the bridge. `monitor` is `synchronized (nativeCalls)`. `AcquireHandle` and `CpuFrameBuffer`
are the two calls of `acquireLatestFrame`, `Wrap` the constructor of the frame; `Release`,
`TakeFence`, `ReleaseNative` are `VlcDesktopFrame.release`; `Close`, `DisableSink`, `Silence`,
`Drain`, `Join` and the steps after it are `close()`, all of it in the monitor. `Render`, `Publish`,
`Notify`, `EnterListener`, `LeaveListener` are the output thread. Callbacks run without the monitor, and a
listener returns at once.

A CPU frame is lost when `close()` gets between the two native calls of
`acquireLatestFrame`: the second call throws, and nobody has the handle any more.
`LostOnlyByClose` says that nothing else loses a frame. That `publish_frame` may put a frame
into the place `destroy` has just emptied is benign: it is deleted with the player.

### RuntimeExtraction

`VlcDesktopRuntime.resolveBundled` (`Look`, `Verify`, `Create`, `Copy`, `CopyFails`, `Move`,
`DeleteTemporary`) for processes that share the extraction root, and
`resolveExternalDirectory` (`ReadManifest`, `VerifyLocal`, `Walk`, `ReadAgain`). A file is
good, changed or missing. `Damage` is somebody else's change; verification and loading are
not atomic, so a file changed after it was hashed is resolved: `OnlyVerifiedResolved` is
about what was there when the process began to verify.

### AndroidPlayer

The surfaces of `native/android/kmediavlc_android_jni.cpp` and the media player made anew when
they are replaced. `Replace`, `NoteTransport` (479-491), `ReleaseMediaPlayer` (492-505),
`Recreate`, `Settle`, `Undo` are
`replace_surfaces` and `recreate_media_player`; they are separate steps because libVLC's
threads (`Setup`, `CloseOutput`, `Advance`, `Report`) go on between them. `resumes` is what
the code notes at 487 and plays by at 516-523: a media that ends after that note, before the old
media player is released, is started again. No document of the repository promises
otherwise, so `ReplacementRestartsNothing` is about media that had ended when the
transport was noted. The calls of
`VlcAndroidPlayer` are synchronized, so no other call of the application does. After a
recreation that failed there is no media player: every later call returns false,
`detachSurfaces` too, and the windows stay referenced until `destroy`. `pause()` before an input knows its capabilities stops it (the code's comment at
470-472), except for a pause carried over by a replacement, which waits.

### MCNativeRuntime

The sink and an instance of each of these modules; `part` says which of them a behaviour
belongs to. They share no state in the code either, except that `DesktopPlayer` uses the sink:
it models the sink's flag, and the wait for calls under way is empty there, because `destroy`
has joined libVLC's threads before the sink is released. Its constants are those of the parts;
the values that TLC takes are in `NativeRuntime.cfg`.

### The scripts: what the models have in common

A file is its content, and its digest is its content; formats are left out. A process is a
run of a script; `pc` says which of its reads, checks or writes comes next, and one step is
one read of an input together with the checks on it that read nothing else. Inputs change
between steps (`Edit`, at most `MaxEdits` times) and a process may be killed (`Kill`, at
most `MaxCrashes`). A check that fails ends the run in "failed", through the handler where
the code has one. Inputs come from small sets in the MC modules, made so that each check has
an input that passes it and one that does not. `began` or `quiet` (history) say whether
inputs have changed since a process began, for the properties about two scripts that agree.

Two modules put the instances together for TLC. `MCStaging` has the four staging scripts
and the payload, `MCSourceArchives` the pairs of packager and verifier. A behaviour belongs to one of them,
chosen at the start (`script`); the others' variables keep a fixed value. The values of the
constants are in a module per script or system (`MCLinuxStaging`, `MCAndroid`, ...); both modules take
them as parameters that their cfgs bind, so that `MCStaging` can be proved about. The properties of
the two modules are what the scripts have in common; each names the component properties it
consists of, and those are stated beside the component they are about. Operators that begin
"A mutant of" stand before the definition they change; `PROJECT.json` lists one for each
property of a run, the others show the same for the remaining parts of a property.

### ArchivePrefetch

The cache directory of `prefetch`: `destination` and a temporary file of each job, the
manifest of pinned digests read per job (a malformed one fails it). `Look` accepts an
archive in place, `TryMirror` is one download with its limit on size, `FromBundle` the
retained bundle after the last mirror, `Verify` the digest, `Replace` chmod and `os.replace`, `Cleanup` the
`finally`. Every mirror may send anything.

### Limits of the verifiers

Some verifiers refuse archives that their packagers make without a word: the Android and the NDK
one bound the number of members and the size of the manifest (`MAX_MEMBERS`), the Windows
and the desktop one the number and the size of members (200000, 900 MiB; the desktop assembler
runs the Windows verifier on its base, but its own supplements have no upper limit), the iOS one
the files, their sizes and some names. The models have no sizes: `Fits` says of an archive whether it
keeps to these limits, for any set of archives. `ScriptsAgree` names the refusal as one of the
differences between the two programs; in `source_archives` some archives of each script but the
release are beyond the limits (`SomeFit`): those with a large archive or large licenses in
them, and those with many members.

### AndroidSourcePackage, AndroidSourceVerify

`head` and `work` of each checkout, `file` for each external input, `partial` and `output`.
The packager reads, in this order: policies (`LoadPolicies`), of each checkout in four calls of
Git its commit, tree, status and listing (`InspectCommit` to `InspectListing`), legal
manifest, audits, the NDK archive (with its own verifier), each contrib archive, then
records of legal manifest and audits, which are second reads; `MakeManifest` reads the
policies' digests. `OpenPartial`, `AddFile` for each member, `Recheck` of the checkouts,
`Rename`. `AddFile` takes the blobs that were listed, not those of the working tree. The verifier
starts from its own policies and has its own order of the same checks; it too asks Git four times
for each checkout (`VerifyCommit` to `VerifyListing`). HEAD may move between the calls; the
packager's `Recheck` compares commit, tree and status again.

### NdkSourcePackage, NdkSourceVerify

A checkout has a HEAD and files that may differ from it. Identify (rev-parse), List
(`ls-tree` of HEAD by name and then by file), `ReadFile` and `AddFile` (with the second
read) are separate steps, which is what the differences in section 5 are made of. HEAD can be moved
between the packager's two looks and back before the verifier comes, so an archive can be of another
commit than the one its manifest names; the verifier refuses it. `calm` (history) are the verifiers
since whose start nobody has moved a checkout: a verifier's own two looks may differ as well, and
`AcceptedIsExact` is about those in `calm`. `PublishedIsWhole` of this script says that an
archive has the files its manifest lists, among them what its policy selects and requires, and, if
nothing changed since its packager began, the recorded bytes of the pinned revisions.

### Staging and its four scripts

`install` is the build's output, `staged` the output directory, `report` what describes it.
A binary has a name, names it needs, a run path and a version. `Staging` has what the
scripts share (copying, counting, digests, the report that is written in place);
`LinuxStaging`, `MacStaging`, `WindowsStaging` and `IosStaging` have each script's policy,
relocation, audit, cache and order. On Windows the install tree may be rebuilt during the
run; on iOS the output is a renamed temporary directory with handlers, and runs overlap.

### IosAssembly, IosArchiveVerify

The assembler verifies each slice against policies and reports, lets xcodebuild copy them,
compares the copies, copies the evidence (`EvidenceNow` is what is there then), writes the
inventory, and publishes output, archive and podspec in three steps; `Handler` removes all
three. The verifier extracts, reads evidence and frameworks, and last hashes the archive
for the podspec.

### NativePayload

Takes over where staging ends. One job per target (`CreateInventory`) closes a staging
directory: on POSIX every file is hashed against the stager's report, which is then copied
into the directory as its audit (`CopyReport`, a second read); on Windows every selected
file is hashed into an audit, and the directory is compared with the policy after the audit
was written. The workflow archives the Windows directory (`Compress`); `OpenCandidate`, `Unpack`,
`VerifySums`, `VerifyAudit` are `extract()`, which removes nothing when it fails. A run of
`package_matrix()` packages target after target into a temporary directory: `LoadTarget` (with
the review), `Validate` for each file, `CloseTarget`, `CopyFile` (each file is read again),
`WriteManifest`; then `MakeOutput` and `PublishTarget` for each target, in place. A killed
job or run is tried again on what it has left. `PayloadIsReported` is about inputs that
nobody changes, because `CopyReport` and `CopyFile` read a second time; what the payload
promises all the same is `WindowsIsAudited` and `PayloadIsWhole`. A manifest that disagrees
with a changed file is refused by `VlcDesktopRuntime` when it extracts it.

### SourceArchives, WindowsSource, DesktopSource, ReleaseSource

`archive[output]` is none, torn (being written or left so by a kill), short (closed by a
run that failed: it opens and ends early) or whole; `files` are its members. `Create` is
mode "xb", `AddMember` one member. A source tree is one member, VLC's two (the file the
verifiers ask for, and the rest). A verifier starts when no packager is writing, as in the workflows.
`DesktopSource` starts from a base that is in place, of any of the archives in `Retained`.
The two trees of `ReleaseSource` are constants: `git archive` of a commit cannot change.

## 4. The runs

| Run | Instance | What it shows |
|---|---|---|
| `latest_frame` | 3 frames, 2 producers, 1 closer, 2 subscribers; symmetry | `ReleasedAtMostOnce`, `NoFrameLost`, `ClosedTransportIsEmpty`, `RefusedNeverDelivered`, `DropAccounting`, `NoLostNotification` |
| `latest_frame_live` | 2 frames, 2 producers, 1 closer, 1 subscriber | `EveryFrameReleased`; `MailboxSpec`: the class implements `FrameMailbox`, fairness included |
| `bridge_transport` | 1 caller, times 0..2, targets 0 and 1, 2 commands beside any number of seeks, 1 serial, 2 queued events, nothing refused | `PlayIntentWins`, `PausedUnlessMishap`, `SettledState`, `SerialsGrow` |
| `bridge_refusals` | the same with refusals, 1 queued event | `OneFramePerPausedCommand`, `SupersededSeekPublishesNothing`, `CandidateOnlyWhileSeeking` |
| `bridge_seek_live` | 1 command, fairness | `SeekSettles` |
| `bridge_stolen_budget` | 2 serials, no run-ahead | violation of `SeekRepauses` |
| `bridge_stale_surface` | no run-ahead | violation of `SeekFrameShowsTarget` |
| `native_runtime` | sink: 4 callbacks, fairness; pool: 2 surfaces, 3 allocations, 4 targets, 1 held frame; players with GPU and CPU frames: 2 threads, 2 frames; extraction: 2 processes, and 1 that is given a directory, 2 files, 1 kill, 1 change; Android: 2 windows, 6 calls | `CountExact`, `ReferenceOutlivesCalls`, `NoWakeupLost`, `ReleaseReturns`; `SurfacesAreExclusive`, `PlayersEndCleanly`, `OnlyVerifiedResolved`, `ReplacementKeepsIntent` |
| `archive_prefetch` | 2 jobs, 2 mirrors, a bundle, 1 kill, fairness | `SuccessMeansPinned`, `NoTemporaryLeft`, `OnlyVerifiedContent`, `EveryJobEnds` |
| `runtime_staging` | Linux: 1 run, strays; macOS: 2 runs in turn, strays; Windows: 2 runs in turn, 1 rebuild; iOS: 2 runs in turn, and 2 that overlap; payload: 2 targets, 1 packager with 1 edit, and 2 that overlap; 1 kill each | `ReportedRuntimeLoads`, `ReportIsTrue`, `CacheIsCurrent`, `EndsCleanly` |
| `source_archives` | Android: 1 packager and 1 verifier with 3 edits, and 2 packagers with 1 edit and 1 kill; NDK: 2 edits, 2 moves of HEAD, 1 kill, 1 changed archive; iOS: 1 edit, 1 kill, 1 changed archive; Windows: 2 packagers, one with the candidate option, 1 edit, 1 kill; desktop and release: 2 directories, 2 edits, 1 kill; 1 verifier each, some archives beyond its limits | `AcceptedIsExact`, `AcceptedIsConsistent`, `PublishedIsWhole`, `FailureLeavesNothing`, `ScriptsAgree` |
| `ios_archive_candidate` | the iOS pair of `source_archives` | violation of `PendingNeedsOptIn` |

`latest_frame`, `bridge_transport` and `native_runtime` check the `TypeOK` of
their main module too. Every property has a mutant
in the module, placed before the definition it changes, under which TLC finds it
violated.

Why the bounds are enough:

- Transport: with two producers and three frames one frame can be displaced, one taken
  back after `close()` and one acquired in the same behaviour. The proofs (section 6)
  cover every size.
- Bridge: commands are serialised by `transport_mutex`, so a second caller adds only the
  interleavings of two `get_snapshot()` calls; the event thread runs the same code next to
  the caller. `MaxGeneration` = 2 lets a command supersede a seek that superseded a
  command; a seek does not change the generation, so any number of seeks fit in. Times
  0..2 with targets 0 and 1 have a seek forward, a seek back, an overshoot by one
  (`MaximumOvershoot`), and a clock that runs past both. One serial means one numbered
  frame after the start (two in `bridge_stolen_budget`); surfaces that are retained or
  refused are not counted by it. `MaxEvents` bounds what is queued when a command starts,
  which a command can exceed.
- Sink: the count reaches four with the releasing thread in each place; proved for every
  set of callbacks.
- Pool: two surfaces are the least with one bound while another is out; the third
  allocation replaces a retired one; with one frame held one is pending and one is being
  released. The targets change the use of fences, the size, the availability and the node.
  Proved for every size.
- Player: one thread closes while the other is in each place of an acquisition or release,
  with one frame superseded or pending. Extraction: two processes meet at each step; a third
  finds what a second would. Android: six calls open, attach, pause, replace, replace again
  and go on.

- Scripts: a read that is stale needs one change between two reads; two edits change one
  input and change it back, or change two; the same holds of the two moves of HEAD. One kill is
  enough to leave something for a second run, and of runs that follow each other a third meets nothing
  new, because a run depends on what is on disk only. That is not so of Android packagers that
  overlap: the run that loses the race for the partial file removes it in its handler (979-981), a third
  one may then open a new one, and the rename of the first (978) publishes the half-written
  file of the third. `PublishedIsWhole` is about two overlapping packagers and would
  not hold of three; the workflows start one. `FailureLeavesNothing` is about Android's
  publication and the iOS assembly only. Two components, targets or plugins are the least for which one can be wrong and the
  other right.

`CHECK_DEADLOCK FALSE` is set for the Java transport, which really stops once every frame
has been handed over and the transport is closed, for the scripts, whose runs end, and for
`native_runtime`, whose parts other than the sink end (a closed player, a runtime resolved).

### Fairness

- `LatestFrameTransport`: no step waits for anything, so a thread inside a call goes on
  (weak fairness per step). A consumer closes what it acquired (docs/FRAME-TRANSPORT.md).
  Nobody is forced to publish, acquire or close.
- `BridgeTransport`: a thread inside a command goes on; a thread that waits for
  `transport_mutex` gets it in the end (strong fairness of `CompleteSeek` and
  `LeaveSeekPending`: the mutex is free infinitely often). libVLC delivers its events, and
  its clock advances while it plays. No fairness for `Render`: surfaces are not needed for
  the end of the media, which also ends a seek. No command is forced.
- `JniEventSink`: a listener returns ("Implementations must return immediately",
  VlcPlayerListener.java), and the mutex is handed to a waiting thread in the end.

- `ArchivePrefetch`: a job that is not killed goes on; downloads have a timeout. The other
  scripts are checked for safety only: they have no loop but over files that are there. So
  are the pool, the players and the extraction.

## 5. Findings

**The budget of a paused seek can be stolen** (`bridge_stolen_budget`). While a first
paused seek waits, a surface is in flight; a second `seek()` runs `set_frame_delivery`
(1019), which clears `paused_seek_repause_pending`; `publish_frame` sees a budget of one
and no seek to retain for, publishes the surface, spends the budget and clears the target
(608-612); `seek()` then sets `paused_seek_repause_pending` and resumes libVLC. No
completion will find a target, so libVLC plays on while the player says it is paused. The
comment at 1015-1017 says that pre-seek frames in flight are filtered out. Setting the
fields of 1021-1024 in the critical section of 1019 removes it.

**The frame of a paused seek can show the old position** (`bridge_stale_surface`). A
surface rendered before libVLC applied the seek is retained like any other (605); when the
clock reaches the target it is stamped with the target's time (682) and published. The
comment at 601-604 promises a frame that has reached the target.

**A pending policy can be archived and accepted as approved** (`ios_archive_candidate`).
The assembler copies the policies into the archive after it verified the reports against
them (639-643), and `verify_ios_xcframework_archive.py` derives the expected candidate state
from the archived reports alone (307). docs/IOS.md:136 asks for the opt-in while a policy
is pending.

Three more differences are in the models, stated as properties that no run lists because
they do not hold; in each the verifier refuses what the packager has made, which
`AcceptedIsExact` and `AcceptedIsConsistent` show:

- `ArchivesAreSelected` (`AndroidSourceVerify`): `package_android_corresponding_source.py`
  parses the legal manifest at 742, selects and pins the contrib archives from it, and at 822
  records its digest from another read. docs/ANDROID.md:181-182 speaks of one manifest.
- `PublishedBytesAreRecorded` (`NdkSourcePackage`): `package_android_ndk_source.py` reads each
  file at 404 for the archive and at 283 for the blob.
- `PublishedIsPinned` (`NdkSourcePackage`): the same script resolves HEAD at 216 and again at
  224, and may list another commit than the one it checked. docs/ANDROID.md:146-148 says that
  both are rejected.

## 6. Proofs

`LatestFrameTransportProofs` proves, for all sets of frames and threads, the type
invariant and six of the safety properties (`NeverReleasedTwice`, `NeverLost`,
`CloseEmpties`, `RefusedNotDelivered`, `NotificationNotLost`, `DropsAccounted`), and `ImplementsMailbox`:
initial states are initial states of `FrameMailbox`, every step is one of its steps or
stutters. The only assumption is `ConstantsAssumption` (null is no frame, a thread plays
one role, finitely many frames).

None of the properties is inductive. `IInv` adds what each thread knows at each `pc`:

- `LocalsOK`, `OnePlace`: each frame is at exactly one of fresh, in a thread's hands,
  pending, acquired, released. This is what forbids a second release and a loss.
- `DeliveredLeft`, `RefusedNeverDelivered`: a delivered frame is no longer pending, so the
  `compareAndSet` of `Retract` fails for it.
- `EmptyingUnderWay`: if the transport is closed and its place is not empty, a closer has
  not drained yet or a producer has not looked at `closed` again.
- `WatchingOK`, `NoLostNotification`, `ClosedSeen`: what a producer that swapped under a
  listener still has to do.
- `Books`, for `droppedFrames`: the counter is the number of frames that were released,
  undelivered, because a newer one took their place (`CountOK`), that is, neither retracted by
  their own producer (`ResultsOK`: whoever works on a frame has not answered for it yet) nor
  drained by `close()`. `OneDrain` and `DrainedOK` say that at most one frame is drained and
  that it is out of everybody else's reach; this is why the counter is exact up to one.
  Each step that changes the set changes it by one frame, so no induction over the set is
  needed, only the library's facts about the cardinality of a set with one element more.

`NativeRuntimeProofs` has the proofs of three parts and of the composition of all. Of `JniEventSink` it
proves the type invariant (with it that the unsigned count does not
wrap), `CountExact`, `ReferenceOutlivesCalls` and `NoWakeupLost` for every set of
callbacks. The inductive invariant is `TypeOK`, `CountExact`, `MutexOK` (who is inside the
mutex holds it), `GateOK` (once the releasing thread has seen a zero count after
`enabled_` was cleared, no thread is past its second check), `WakeupOK` (if the releasing
thread sleeps with a zero count, someone is about to notify).

`BridgeTransportProofs` proves, for any number of callers and any media, the type
invariant and seven of the safety properties (`PlayIntentWins`,
`OneFramePerPausedCommand`, `CandidateOnlyWhileSeeking`, `SerialsGrow`,
`SupersededSeekPublishesNothing`, `PausedUnlessMishap`, `SettledState`), with and without refusals, run-ahead and bounds of any
size, from `BridgeAssumption` alone (the threads are distinct, the bounds are numbers).
`IInv` has seven parts; the first is inductive by itself, each of the others with those
before it:

- `Shape`: `TypeOK` (of the player, the threads, libVLC and the history), `LockOK` (a
  thread inside a command or a re-pause holds `transport_mutex`),
  `GenerationOK` (a command that can still give up leaves room for the one step of the
  generation this takes), `SurfaceOK` (the output thread has a surface while it publishes).
- `IntentOK`: a thread about to pause libVLC does so while playback is not wanted; a
  command past its call of libVLC has left it not paused; when playback is wanted and
  libVLC is paused, the owner of the mutex is a command that has yet to start it. The
  re-pause keeps it because `CompleteSeek` tests `play_when_ready` under the mutex and
  holds it until `set_pause` has returned.
- `FramesOK`: the budget together with the frames shown since the last command is at most
  one, serials seen and pending are below `nextSerial`, a candidate implies a seek that
  waits.
- `SupersededOK`: what a command read of `play_when_ready` is still so while it holds the
  mutex; while playback is wanted, delivery is continuous or a command is about to make it
  so; a surface in flight has no target yet; the armed target and that of a pending frame
  are the last seek's, unless a command that will withdraw them is on its way.
- `RepauseOK`, for `PausedUnlessMishap`: without a mishap, libVLC plays against
  `play_when_ready` only while a paused seek is armed or the command that holds the mutex is
  about to pause or stop it (`QuietOK`). That needs what each command has done when it comes
  to the call that starts libVLC: the seek has armed the delivery before it resumes (`ArmedOK`),
  `open()` has stopped the old media (`LoadedOK`), and only a refusal leads to the end of a
  failed command (`RefusalsOK`).
- `NewestOK`, `ShownOK`, for `SettledState`: the last event that is still queued says what libVLC's
  state is, and with an empty queue what was delivered last does; a PLAYING that
  `on_state_changed` keeps back is made good by the completion of the seek that hid it
  (`PlayingShown`), because it is hidden only while that seek is armed (`MaskedWhileArmed`).

`ArchivePrefetchProofs` proves, for any jobs, mirrors, contents and number of kills, that a
job that succeeds leaves the pinned archive in place (`SuccessIsPinned`), that the shared
archive changes only from absent into the pinned content (`OnlyVerified`), and that a job which
was not killed leaves no temporary file (`TemporaryRemoved`). The inductive
invariant (`Prefetching`) is `TypeOK`, `SuccessMeansPinned`, `NoTemporaryLeft`, `FetchedIntoNothing` (a job that
fetches found no archive in place: what is there by now is pinned content) and
`CheckedBeforeReplace` (what it is about to put there it has verified). That one job may
replace the other's archive needs the lemma `BoundOnce`: the manifest binds the archive to
at most one content.

Of `LinuxDmaBufPool` it proves `SurfacesStayExclusive`, for any number of surfaces, targets,
allocations and held frames, whatever allocations and waits fail and whatever fences are
given or forgotten: the surface drawn into is in nobody's frame and nobody reads it
(`SurfacesAreExclusive`), and each frame has the size of the target it names
(`FramesAreHonest`); the run states both as one invariant of its part. That a target is a size, a
use of fences, an availability and a node, and that there is a surface, is assumed (part of
`RuntimeAssumption`). The inductive invariant is

- `ReadersGuarded`: a surface somebody may still read is in a frame the consumer has, has a
  fence, or is retired. Without it an idle surface could have a reader nobody waits for.
- `Drawing`: the bound surface is in no frame, is not read, and has the size of the target
  whose generation it carries.
- `FramesKnown`: a frame is of a known surface and target, and has the target's size.

`BindKeepsInv` does the work: whatever the loop has looked at stays guarded (`WaitedIsGuarded`),
and what it takes is idle, waited for and claimed (`ClaimedTable`). Distinct slots are not
needed.

`RuntimeExtractionProofs` proves `ResolvedIsVerified`, for any processes, files, kills and
changes: `OnlyVerifiedResolved` and `NeverOverwritten`. `ExtractionAssumption` (a process does
one of the two things, and the manifest is not empty) is a hypothesis. The inductive invariant
says what each process knows: which files of its temporary directory are verified
(`ProcessKnows`, "copy" and "move"), that a file found good was good when it began to verify
("verify": a change never makes a file good, and a directory in place stays), and, while nobody
changes the replacement directory, what has been compared in it (`ExternalKnows`).

Of `AndroidPlayer`, `NativeRuntimeProofs` proves, for any windows, attachments and number of calls,
`WindowsAreBalanced` and `IntentSurvives`. The first needs only that nothing is put aside
between calls (`PutAside`). The second needs that a paused player's input is not even opening
unless the pause is carried over (`PauseKept`), that what was noted is what the intent was, and
still is, until the new media player plays (`Noted`), and that nothing happens to the input
between the old media player and the new one (`Between`).

`DesktopPlayerProofs` proves `PlayerEndsCleanly`, for any threads and frames and with delivery
of GPU frames and of CPU frames: `QuietAfterClose`, `NoUseAfterDelete`, `DeletedOnce`,
`LostOnlyByClose` and `FencesSettled`; the run states them as one invariant of its part.
`PlayerAssumption` (`Nobody` is no thread and no frame) is a hypothesis. None of the five is
inductive: that a frame is deleted once needs that it has one owner at a time, and that nothing
runs after `close()` needs how far `close()` has come. The inductive invariant is

- `OutOwns`, `PlaceOwns`, `ThreadOwns`, `OneOwner`: a frame is with the output thread, in the
  pending place, or with one thread that is taking or releasing it, and its place says which.
- `ClosingOnce`: one thread closes, and `closed` is set from its first step.
- `Ending`: once callbacks and output thread have ended (`join`), nothing is published; once
  the player is deleted, the pending place is empty.

`NativeRuntimeProofs` then proves the properties of `MCNativeRuntime` from what is proved of its
parts: `SinkIsSafe`, `SurfacesStayExclusive`, `PlayersAlwaysEndCleanly`, `ResolvedIsAlwaysVerified` and
`IntentIsKept`, for every value of the constants that `RuntimeAssumption` admits (it implies the
assumptions of the parts). It instances their proof modules with the part's variables and
cites their lemmas. `SamePool`, `SamePlayer`, `SameCpuPlayer`, `SameExtraction` and `SameReplacement` show that the
initial states and steps of a part are those its proof module speaks of; `PartsInv` is the
inductive invariant of whichever part a behaviour belongs to (`PartBegins`, `PartSteps`, `PartsKeep`).

`StagingProofs` proves the four properties of `MCStaging`, for any policies, install trees, staging
directories and reports, any number of runs, kills and changed inputs: `ReportedRuntimesLoad`,
`ReportsAreTrue`, `CachesAreCurrent` and `StagingsEndCleanly`. Two assumptions are made, both checked by
TLC. `StagingAssumption`: the plugins and support libraries of a policy are finitely many, at
paths of their own; `load_policy` refuses a module named twice, and the paths of plugins,
of the fixed files and of the cache are in different directories or fixed in the code. `PayloadAssumption`:
the targets differ (`REQUIRED_TARGETS` is a fixed list), a directory has finitely many files, no
file or process has the name of a mark of the model, and the report of a stager lists what its
policy selects, which is never the audit or the checksums themselves.

None of the properties is inductive, because a report is only true if every run that could have
written it knew enough at each of its steps. `StagingSafe` says what, for the script that runs:

- `LinuxSafe`, `MacSafe`, `WindowsSafe`: of runs that follow each other one is underway, and while it
  is there is no whole report (`Turns`). The files it has audited are sound and stay so
  (`LinuxSound`, `MacSound`: every step after the audit writes another file); the cache is of the
  staged plugins from "cache" on (`Current`); what it has listed is what is staged once it has
  hashed everything again. `LinuxNext` and its like say that a script's loop takes a file it has
  not yet taken and ends at the last one; that needs the sequence that `SetToSeq` chooses, hence
  `LeastNumber` and the lemmas about sequences of files.
- `IosSafe`, for overlapping runs: each run knows of its own temporary directory (`IosWork`), and an
  output is one such directory, whole, that one run renamed (`IosOutput`). Runs that follow each
  other are a case of these (`IosStepIsOverlap`), and `IosTidy` says what is left behind by each exit.
- `PayloadSafe(S)`, for the packager runs `S`: each job knows what it has hashed and that its
  directory is closed (`JobWork`, `PosixWork`, `ArchivedJobWork`), the archive is of a complete
  candidate (`ArchiveWork`), the extraction has verified what it has unpacked (`ExtractionWork`), a run
  of the packager has whole targets in its temporary directory (`PackageWork`), and only a run
  that found the output free writes to it (`OutputWork`). What is said to agree with an earlier
  read is said under `edits = 0`, and the rest of any number of changes. Two packagers at once
  are the same actions over another set of runs (`OverlapIsPayload` and the lemmas after it).

All seven modules follow the same path: initial states, one step per action, the property from the
invariant, and a last step with PTL.

Only model-checked: the pairs of
packager and verifier in `MCSourceArchives`, the liveness properties and the fairness in `MailboxSpec` (liveness under fairness and ENABLED are out of the prover's reach).
Out of reach in general: induction over data with the library's theorems and RECURSIVE
operators; the modules that are proved about use neither.

## 7. What is not modelled

Of the runtime: the macOS and Windows pools; the public state with buffering, whose
outcome depends on whether libVLC delivers its callbacks one at a time; the report of a
resize; `cpu_lock`'s buffer; the ring of frame timings; of the Android player `seek`, volume,
rate, tracks and buffering; loading on Android and iOS, which is one pass in order.

Of the scripts: `verify_source_compliance.py`, the link audit and the legal evidence read
files once and compare them with literals, and neither keep state nor write anything another
one reads half-way; a model of them would repeat the literals. The comparison of payloads
(`verify_desktop_runtime_reuse.py`) and the release helpers copy and compare files in one
pass. Of the payload, the digest of macOS files without their code signature
(`package_native_runtime.py` 66-125) and the licenses in the inventories.

Besides the components marked planned: volume, rate, loop, tracks and headers (stores
without interaction); logging; the contents of frames, colour and HDR metadata; error
texts; the pts of a frame apart from the seek's target. In the transport module, a
`close()` of a frame that throws. In the bridge module, buffering and length, a change of
the output target or of the video size during a seek, `destroy` (in `DesktopPlayer`), and the
`frame_available` callback, which calls out without changing the player. libVLC's internal
locks are not known to the model: whether libVLC calls `on_position_changed` under a lock
its commands need decides whether `transport_mutex` (635) can deadlock.
