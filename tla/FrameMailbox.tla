---------------------------- MODULE FrameMailbox ----------------------------
(***************************************************************************)
(* What a one-place "latest frame" mailbox promises, without any thread:   *)
(* a frame offered to it is refused, or replaces the one that waits; the   *)
(* consumer takes the one that waits; whatever leaves the mailbox without  *)
(* reaching the consumer is released, exactly once; closing empties it.    *)
(* docs/FRAME-TRANSPORT.md states this contract, LatestFrameTransport      *)
(* implements it.                                                          *)
(***************************************************************************)
EXTENDS Naturals

CONSTANT Frames      \* the frames the producers will ever hand over

VARIABLES stage,     \* where each frame is in its life
          closed     \* has the mailbox been closed?

vars == <<stage, closed>>

Stages == {"new", "offered", "pending", "acquired", "retiring", "released"}

TypeOK == /\ stage \in [Frames -> Stages]
          /\ closed \in BOOLEAN

\* The frame waiting for the consumer, as a set of at most one element.
Waiting == {f \in Frames : stage[f] = "pending"}

Move(f, from, to) == /\ stage[f] = from
                     /\ stage' = [stage EXCEPT ![f] = to]

-----------------------------------------------------------------------------
Init == /\ stage = [f \in Frames |-> "new"]
        /\ closed = FALSE

\* A producer hands a frame over; ownership leaves the producer for good.
Offer(f) == Move(f, "new", "offered") /\ UNCHANGED closed

\* The frame takes the place; the one that waited, if any, is to be released.
Put(f) == /\ stage[f] = "offered"
          /\ stage' = [g \in Frames |-> IF g = f THEN "pending"
                                        ELSE IF g \in Waiting THEN "retiring"
                                        ELSE stage[g]]
          /\ UNCHANGED closed

\* A frame that did not reach its place is released, only by a closed mailbox.
Refuse(f) == closed /\ Move(f, "offered", "released") /\ UNCHANGED closed

\* The consumer takes the frame that waits.
Take(f) == Move(f, "pending", "acquired") /\ UNCHANGED closed

\* A closed mailbox puts the frame that waits aside, or releases it.
Drain(f) == /\ closed
            /\ \/ Move(f, "pending", "retiring")
               \/ Move(f, "pending", "released")
            /\ UNCHANGED closed

\* The consumer closes a frame, or the mailbox releases one it put aside.
Release(f) == /\ \/ Move(f, "retiring", "released")
                 \/ Move(f, "acquired", "released")
              /\ UNCHANGED closed

Close == /\ ~closed
         /\ closed' = TRUE
         /\ UNCHANGED stage

Next == \/ Close
        \/ \E f \in Frames : \/ Offer(f) \/ Put(f) \/ Refuse(f)
                             \/ Take(f) \/ Drain(f) \/ Release(f)

Fairness == \A f \in Frames : /\ WF_vars(Put(f) \/ Refuse(f))
                              /\ WF_vars(Drain(f))
                              /\ WF_vars(Release(f))

Spec == Init /\ [][Next]_vars /\ Fairness
=============================================================================
