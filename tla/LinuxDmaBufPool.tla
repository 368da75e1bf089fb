--------------------------- MODULE LinuxDmaBufPool ---------------------------
(***************************************************************************)
(* native/src/linux_dmabuf_renderer.cpp: a pool of surfaces that libVLC's  *)
(* output thread draws into one at a time, and that go to the consumer as  *)
(* frames and come back with a fence or without.  A surface has no lock    *)
(* and no owner: it is free when nobody but the pool points to it          *)
(* (use_count() == 1), and what is left of its last use is in its fence    *)
(* and its `retired` flag.                                                 *)
(***************************************************************************)
EXTENDS Naturals, Sequences, FiniteSets, Functions

CONSTANTS
  Targets,       \* the output targets the consumer sets in turn; the index is the generation
  SurfaceCount,  \* kSurfaceCount
  MaxSurfaces,   \* bound: allocations that can be alive at once
  MaxHeld        \* bound: frames the consumer has at once

VARIABLES
  generation,    \* of output_target; 0 before there is one
  previous,      \* of the target to go back to while the renderer is asked; else the same
  context,       \* the render node of context_, or "none"
  slots,         \* surfaces_
  surface,       \* what each allocation is
  current,       \* current_surface_; 0 is null
  locked,        \* render_lock_held_: the output thread has state_mutex_
  pending,       \* the player's pending frame: none or one
  acquired,      \* frames the consumer has
  returning      \* frames whose platform_release has run and that are not deleted yet

vars == <<generation, previous, context, slots, surface, current, locked,
          pending, acquired, returning>>
consumer == <<acquired, returning>>
output == <<generation, previous>>

Ids == 1..MaxSurfaces
Positions == 1..Len(slots)
Frames == pending \cup acquired \cup returning
\* The shared_ptr of a surface that are not in the pool.
Shared == {f.surface : f \in Frames} \cup {current}
Alive == Shared \cup {slots[i] : i \in Positions}
Target == Targets[generation]

\* Which n allocations a new pool or surface gets: the first ones that are free.
Fresh(n) ==
  {q \in [1..n -> Ids \ Alive] :
     /\ \A i, j \in 1..n : i < j => q[i] < q[j]
     /\ \A s \in Ids \ Alive : s \in Range(q) \/ \A i \in 1..n : q[i] < s}

NewSurface(size) ==
  [size |-> size, generation |-> 0, fence |-> FALSE, required |-> FALSE, retired |-> FALSE,
   reading |-> FALSE]   \* `reading`: the consumer's GPU may still read (not in the code)

TypeOK ==
  /\ generation \in 0..Len(Targets) /\ previous \in 0..Len(Targets)
  /\ DOMAIN surface = Ids
  /\ Len(slots) \in {0, SurfaceCount} /\ \A i \in Positions : slots[i] \in Ids
  /\ current \in Ids \cup {0}
  /\ locked \in BOOLEAN

Init ==
  /\ generation = 0 /\ previous = 0 /\ context = "none"
  /\ slots = <<>> /\ surface = [s \in Ids |-> NewSurface(0)] /\ current = 0
  /\ locked = FALSE /\ pending = {} /\ acquired = {} /\ returning = {}

\* ~LinuxSurface(): what nobody points to any more is gone.
Keep(table) == surface' = [s \in Ids |-> IF s \in Alive' THEN table[s] ELSE NewSurface(0)]

-----------------------------------------------------------------------------
(* libVLC's output thread *)

\* Can bind_writable_surface() draw for the target with the context there is?
Usable == generation # 0 /\ Target.on /\ context = Target.node

\* setup(), when libVLC opens its output.
Setup ==
  /\ ~locked /\ slots = <<>> /\ generation # 0 /\ Target.on
  /\ context' = Target.node
  /\ UNCHANGED <<output, slots, surface, current, locked, pending, consumer>>

\* A mutant of Idle: a frame that nobody has acquired yet is no user.
IdleWhenPending(i) == slots[i] \notin {f.surface : f \in acquired \cup returning}

\* slot.use_count() == 1, current_surface_ having been reset.
Idle(i) == slots[i] \notin {f.surface : f \in Frames}

\* prepare_for_reuse(): retired, or with a fence that cannot be waited for?
Spoilt(i, unwaitable) ==
  surface[slots[i]].retired \/ (surface[slots[i]].fence /\ slots[i] \in unwaitable)

\* A mutant of Waited: the surface is used without its fence.
NotWaited(s, spoilt) == [surface[s] EXCEPT !.fence = FALSE, !.retired = spoilt]

\* What is left of surface s when its fence was waited for, or could not be.
Waited(s, spoilt) ==
  [surface[s] EXCEPT !.fence = FALSE, !.retired = spoilt,
                     !.reading = @ /\ (spoilt \/ ~surface[s].fence)]

Claimed(s) == [s EXCEPT !.generation = generation, !.required = Target.releaseFences]

\* bind_writable_surface() lets current_surface_ go and takes the first idle slot that
\* has the target's size, or can be replaced.  `failing` are the slots for which
\* create_surface() fails.  The fences of the idle slots before it are consumed.
Bind(failing, unwaitable) ==
  LET Fits(i) == Idle(i) /\
                 IF Spoilt(i, unwaitable) THEN i \notin failing
                                          ELSE surface[slots[i]].size = Target.size
      found == {i \in Positions : Fits(i) /\ \A j \in 1..(i - 1) : ~Fits(j)}
      seen == {i \in Positions : Idle(i) /\ \A j \in found : i <= j}
      looked == [s \in Ids |-> IF \E i \in seen : slots[i] = s
                               THEN Waited(s, \E i \in seen : slots[i] = s /\ Spoilt(i, unwaitable))
                               ELSE surface[s]]
  IN IF ~Usable \/ found = {}
     THEN /\ current' = 0
          /\ UNCHANGED slots
          /\ Keep(IF Usable THEN looked ELSE surface)
     ELSE \E i \in found :
       \/ /\ ~Spoilt(i, unwaitable)
          /\ current' = slots[i]
          /\ UNCHANGED slots
          /\ Keep([looked EXCEPT ![slots[i]] = Claimed(@)])
       \/ /\ Spoilt(i, unwaitable)
          /\ \E new \in Fresh(1) :
               /\ current' = new[1]
               /\ slots' = [slots EXCEPT ![i] = new[1]]
               /\ Keep([looked EXCEPT ![new[1]] = Claimed(NewSurface(Target.size))])

\* What the driver may refuse: allocations and waits.  Beyond MaxSurfaces it
\* refuses every allocation.
Refusals ==
  {r \in [failing : SUBSET Positions, unwaitable : SUBSET {s \in Ids : surface[s].fence}] :
     Ids \subseteq Alive => r.failing = Positions}

\* make_current(true): an empty pool and a surface that is still bound need no
\* other.  Without a surface the context is left again and the picture is lost, and
\* so it is after an error of GL, which leaves the surface bound.
Enter ==
  /\ ~locked /\ context # "none"
  /\ UNCHANGED <<output, context, pending, consumer>>
  /\ \/ /\ slots = <<>> \/ current # 0
        /\ locked' = TRUE
        /\ UNCHANGED <<slots, surface, current>>
     \/ /\ slots # <<>>   \* nothing is bound, or it cannot be bound again
        /\ \E r \in Refusals : Bind(r.failing, r.unwaitable)
        /\ locked' \in {FALSE, current' # 0}

\* make_current(false): an acquire fence, or glFinish(); when it fails nobody knows
\* when the drawing ends.
Leave ==
  /\ locked /\ locked' = FALSE
  /\ \E completed \in BOOLEAN :
       surface' = IF current # 0 /\ ~completed THEN [surface EXCEPT ![current].retired = TRUE]
                                               ELSE surface
  /\ UNCHANGED <<output, context, slots, current, pending, consumer>>

\* ensure_surfaces() looks at the front of the pool only.
SizeIsKept == slots # <<>> /\ surface[Head(slots)].size = Target.size

\* update_output(), which may replace the pool and binds a surface if it has to.
UpdateOutput ==
  /\ Usable
  /\ UNCHANGED <<output, context, locked, pending, consumer>>
  /\ IF SizeIsKept
     THEN IF locked /\ current = 0
          THEN \E r \in Refusals : Bind(r.failing, r.unwaitable)
          ELSE UNCHANGED <<slots, surface, current>>
     ELSE \/ UNCHANGED <<slots, surface, current>>   \* an allocation fails
          \/ \E new \in Fresh(SurfaceCount) :
               /\ slots' = new
               /\ current' = IF locked THEN new[1] ELSE 0
               /\ Keep([s \in Ids |->
                    IF s \notin Range(new) THEN surface[s]
                    ELSE IF s = current' THEN Claimed(NewSurface(Target.size))
                                         ELSE NewSurface(Target.size)])

FrameOf(s) == [surface |-> s, generation |-> surface[s].generation, size |-> surface[s].size]

\* A mutant of Swap: the frame is given the generation there is now.
SwapRelabelling ==
  /\ current # 0 /\ current' = 0
  /\ UNCHANGED <<output, context, slots, locked, consumer>>
  /\ pending' \in {pending, {[FrameOf(current) EXCEPT !.generation = generation]}}
  /\ Keep(surface)

\* swap(), which ends in publish_frame(): the frame becomes the pending one and
\* takes the place of one nobody acquired, or is not wanted (see BridgeTransport)
\* and deleted.  gbm_bo_get_fd() may fail.
Swap ==
  /\ current # 0 /\ current' = 0
  /\ UNCHANGED <<output, context, slots, locked, consumer>>
  /\ pending' \in {pending} \cup (IF surface[current].retired THEN {} ELSE {{FrameOf(current)}})
  /\ Keep(surface)

\* release_resources(), when libVLC closes its output.
Cleanup ==
  /\ ~locked /\ context # "none"
  /\ UNCHANGED <<output, locked, pending, consumer>>
  /\ slots' = <<>> /\ current' = 0 /\ context' = "none"
  /\ Keep(surface)

-----------------------------------------------------------------------------
(* The application's threads *)

\* kmediavlc_player_update_output() stores the target first, and only then asks
\* the renderer.
NewTarget ==
  /\ previous = generation /\ generation < Len(Targets)
  /\ generation' = generation + 1
  /\ UNCHANGED <<previous, context, slots, surface, current, locked, pending, consumer>>

\* output_target_changed() accepts it: "unavailable" gives everything up, another
\* render node takes another context.
AcceptTarget ==
  /\ previous # generation /\ ~locked
  /\ UNCHANGED <<generation, locked, pending, consumer>>
  /\ previous' = generation
  /\ IF Target.on /\ context = Target.node
     THEN UNCHANGED <<context, slots, surface, current>>
     ELSE /\ context' = IF Target.on THEN Target.node ELSE "none"
          /\ slots' = <<>> /\ current' = 0
          /\ Keep(surface)

\* Or refuses it, for its formats, its fences or its node.
RejectTarget ==
  /\ previous # generation /\ ~locked /\ Target.on
  /\ generation' = previous
  /\ UNCHANGED <<previous, context, slots, surface, current, locked, pending, consumer>>

\* kmediavlc_player_acquire_latest_frame(); the consumer begins to read.
Acquire ==
  /\ pending # {} /\ Cardinality(acquired) < MaxHeld
  /\ acquired' = acquired \cup pending /\ pending' = {}
  /\ surface' = [s \in Ids |-> IF \E f \in pending : f.surface = s
                               THEN [surface[s] EXCEPT !.reading = TRUE] ELSE surface[s]]
  /\ UNCHANGED <<output, context, slots, current, locked, returning>>

\* A mutant of Released: a missing fence is taken for a finished reader.
ReleasedTrusting(s, given) ==
  [s EXCEPT !.fence = given, !.reading = given \/ s.required]

\* release_surface_callback() for an acquired frame.  A consumer that does not use
\* fences has finished when it releases; one that does and gives none is not trusted.
Released(s, given) ==
  [s EXCEPT !.fence = given, !.retired = @ \/ (~given /\ s.required),
            !.reading = given \/ s.required]

\* A mutant of Release: the frame is deleted without the callback, and the fence is lost.
ReleaseWithoutCallback(f) ==
  /\ f \in acquired
  /\ acquired' = acquired \ {f} /\ returning' = returning \cup {f}
  /\ surface' = [surface EXCEPT ![f.surface].reading = @ /\ surface[f.surface].required]
  /\ UNCHANGED <<output, context, slots, current, locked, pending>>

\* kmediavlc_frame_release(): first the callback, then the frame is deleted and its
\* hold on the surface ends.
Release(f) ==
  /\ f \in acquired
  /\ \E given \in {FALSE, Targets[f.generation].releaseFences} :
       surface' = [surface EXCEPT ![f.surface] = Released(@, given)]
  /\ acquired' = acquired \ {f} /\ returning' = returning \cup {f}
  /\ UNCHANGED <<output, context, slots, current, locked, pending>>

Delete(f) ==
  /\ f \in returning
  /\ UNCHANGED <<output, context, slots, current, locked, pending, acquired>>
  /\ returning' = returning \ {f}
  /\ Keep(surface)

-----------------------------------------------------------------------------
Next ==
  \/ Setup \/ Enter \/ Leave \/ UpdateOutput \/ Swap \/ Cleanup
  \/ NewTarget \/ AcceptTarget \/ RejectTarget
  \/ Acquire
  \/ \E f \in acquired : Release(f)
  \/ \E f \in returning : Delete(f)

Spec == Init /\ [][Next]_vars

-----------------------------------------------------------------------------
(* Properties *)

\* The surface the output thread may draw into is in nobody's frame, and no reader
\* is left on the GPU that the drawing does not wait for: whatever fences were given,
\* forgotten or could not be waited for, and however often the pool was replaced.
SurfacesAreExclusive ==
  current # 0 => current \notin {f.surface : f \in Frames} /\ ~surface[current].reading

\* A frame has the size of the target whose generation it names, although target,
\* pool and bound surface change at different times.
FramesAreHonest == \A f \in Frames : f.size = Targets[f.generation].size
=============================================================================
