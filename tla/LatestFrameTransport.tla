------------------------ MODULE LatestFrameTransport ------------------------
(***************************************************************************)
(* runtime-desktop LatestFrameTransport.java: a lock-free, one-place       *)
(* transport of frames between producer threads and a single consumer.     *)
(* Every access to an AtomicReference or AtomicBoolean is a step of its    *)
(* own; what a thread does to its local variables and to a frame only it   *)
(* owns belongs to the step before.                                        *)
(***************************************************************************)
EXTENDS Naturals, FiniteSets

CONSTANTS Frames,        \* the frames handed to publish(), each once
          Producers,     \* threads that call publish()
          Closers,       \* threads that call close()
          Subscribers,   \* threads that call subscribe(), each with a listener
          NoFrame,       \* null in `pending` and in the frame variables
          NoListener     \* null in `listener`

ASSUME ConstantsAssumption ==
  /\ NoFrame \notin Frames
  /\ NoListener \notin Subscribers
  /\ Producers \cap Closers = {}
  /\ Producers \cap Subscribers = {}
  /\ Closers \cap Subscribers = {}
  /\ IsFiniteSet(Frames)

Threads == Producers \cup Closers \cup Subscribers

VARIABLES
  pending,           \* AtomicReference<T>
  listener,          \* AtomicReference<FrameAvailableListener>
  closed,            \* AtomicBoolean
  droppedFrames,     \* AtomicLong
  listenerFailures,  \* AtomicLong
  pc,                \* where each thread is; "idle" outside the class
  frame,             \* publish(): the parameter
  removed,           \* publish(): skipped; close(): frame
  fresh,             \* frames no producer has handed over yet
  acquired,          \* frames the consumer holds and has not closed
  releases,          \* calls of close() on each frame
  result,            \* what publish() returned for each frame
  delivered,         \* history: frames acquireLatest() returned
  notified,          \* history: frames a listener was told of
  watching           \* history: the listener in place since publish() swapped

transportVars == <<pending, listener, closed, droppedFrames, listenerFailures>>
threadVars == <<pc, frame, removed>>
frameVars == <<fresh, acquired, releases, result>>
historyVars == <<delivered, notified, watching>>
vars == <<transportVars, threadVars, frameVars, historyVars>>

FrameOrNull == Frames \cup {NoFrame}
ListenerOrNull == Subscribers \cup {NoListener}
ProducerPC == {"idle", "check", "swap", "drop", "recheck", "retract",
               "listen", "confirm", "notify"}
CloserPC == {"idle", "detach", "drain", "release"}
SubscriberPC == {"idle", "register", "reopen", "revert", "subscribed"}

SharedOK ==
  /\ pending \in FrameOrNull
  /\ listener \in ListenerOrNull
  /\ closed \in BOOLEAN
  /\ droppedFrames \in Nat
  /\ listenerFailures \in Nat

ThreadsOK ==
  /\ pc \in [Threads -> ProducerPC \cup CloserPC \cup SubscriberPC]
  /\ \A p \in Producers : pc[p] \in ProducerPC
  /\ \A c \in Closers : pc[c] \in CloserPC
  /\ \A s \in Subscribers : pc[s] \in SubscriberPC
  /\ frame \in [Producers -> FrameOrNull]
  /\ removed \in [Producers \cup Closers -> FrameOrNull]

FramesOK ==
  /\ fresh \subseteq Frames
  /\ acquired \subseteq Frames
  /\ releases \in [Frames -> Nat]
  /\ result \in [Frames -> {"none", "true", "false"}]
  /\ delivered \subseteq Frames
  /\ notified \subseteq Frames
  /\ watching \in [Producers -> ListenerOrNull]

TypeOK == SharedOK /\ ThreadsOK /\ FramesOK

Init ==
  /\ pending = NoFrame
  /\ listener = NoListener
  /\ closed = FALSE
  /\ droppedFrames = 0
  /\ listenerFailures = 0
  /\ pc = [t \in Threads |-> "idle"]
  /\ frame = [p \in Producers |-> NoFrame]
  /\ removed = [t \in Producers \cup Closers |-> NoFrame]
  /\ fresh = Frames
  /\ acquired = {}
  /\ releases = [f \in Frames |-> 0]
  /\ result = [f \in Frames |-> "none"]
  /\ delivered = {}
  /\ notified = {}
  /\ watching = [p \in Producers |-> NoListener]

Goto(t, from, to) == pc[t] = from /\ pc' = [pc EXCEPT ![t] = to]

\* VlcReleasableFrame.close() on f.
CloseFrame(f) == releases' = [releases EXCEPT ![f] = @ + 1]

\* publish() returns `value` for the frame of p.
Return(p, value) == result' = [result EXCEPT ![frame[p]] = value]

\* Any change of the listener ends what publish() could count on (history).
Rewatch == watching' = [p \in Producers |-> NoListener]

-----------------------------------------------------------------------------
(* publish(frame) *)

Publish(p) ==
  /\ Goto(p, "idle", "check")
  /\ \E f \in fresh : frame' = [frame EXCEPT ![p] = f] /\ fresh' = fresh \ {f}
  /\ UNCHANGED <<transportVars, removed, acquired, releases, result, historyVars>>

CheckClosed(p) ==
  /\ \/ /\ closed
        /\ Goto(p, "check", "idle")
        /\ CloseFrame(frame[p])
        /\ Return(p, "false")
     \/ /\ ~closed
        /\ Goto(p, "check", "swap")
        /\ UNCHANGED <<releases, result>>
  /\ UNCHANGED <<transportVars, frame, removed, fresh, acquired, historyVars>>

\* Mutant: set() in place of getAndSet() forgets the displaced frame.
SetPending(p) ==
  /\ Goto(p, "swap", "recheck")
  /\ removed' = [removed EXCEPT ![p] = pending]
  /\ pending' = frame[p]
  /\ watching' = [watching EXCEPT ![p] = listener]
  /\ UNCHANGED <<listener, closed, droppedFrames, listenerFailures, frame,
                 frameVars, delivered, notified>>

Swap(p) ==
  /\ Goto(p, "swap", IF pending = NoFrame THEN "recheck" ELSE "drop")
  /\ removed' = [removed EXCEPT ![p] = pending]
  /\ pending' = frame[p]
  /\ watching' = [watching EXCEPT ![p] = listener]
  /\ UNCHANGED <<listener, closed, droppedFrames, listenerFailures, frame,
                 frameVars, delivered, notified>>

DropSkipped(p) ==
  /\ Goto(p, "drop", "recheck")
  /\ droppedFrames' = droppedFrames + 1
  /\ CloseFrame(removed[p])
  /\ UNCHANGED <<pending, listener, closed, listenerFailures, frame, removed,
                 fresh, acquired, result, historyVars>>

\* Mutant: close() may have run since the first check.
NoRecheck(p) ==
  /\ Goto(p, "recheck", "listen")
  /\ UNCHANGED <<transportVars, frame, removed, frameVars, historyVars>>

RecheckClosed(p) ==
  /\ Goto(p, "recheck", IF closed THEN "retract" ELSE "listen")
  /\ UNCHANGED <<transportVars, frame, removed, frameVars, historyVars>>

\* Mutant: the frame is closed though it may have left its place.
RetractUnconditionally(p) ==
  /\ \/ /\ TRUE
        /\ Goto(p, "retract", "idle")
        /\ pending' = IF pending = frame[p] THEN NoFrame ELSE pending
        /\ CloseFrame(frame[p])
        /\ Return(p, "false")
     \/ /\ pending # frame[p]
        /\ Goto(p, "retract", "listen")
        /\ UNCHANGED <<pending, releases, result>>
  /\ UNCHANGED <<listener, closed, droppedFrames, listenerFailures, frame,
                 removed, fresh, acquired, historyVars>>

\* Mutant: false is returned though the frame had left its place.
RefuseDelivered(p) ==
  /\ \/ /\ pending = frame[p]
        /\ Goto(p, "retract", "idle")
        /\ pending' = NoFrame
        /\ CloseFrame(frame[p])
        /\ Return(p, "false")
     \/ /\ pending # frame[p]
        /\ Goto(p, "retract", "idle")
        /\ Return(p, "false")
        /\ UNCHANGED <<pending, releases>>
  /\ UNCHANGED <<listener, closed, droppedFrames, listenerFailures, frame,
                 removed, fresh, acquired, historyVars>>

\* Mutant: a refused frame counts as dropped.
RetractCounting(p) ==
  /\ \/ /\ pending = frame[p]
        /\ Goto(p, "retract", "idle")
        /\ pending' = NoFrame
        /\ CloseFrame(frame[p])
        /\ Return(p, "false")
        /\ droppedFrames' = droppedFrames + 1
     \/ /\ pending # frame[p]
        /\ Goto(p, "retract", "listen")
        /\ UNCHANGED <<pending, droppedFrames, releases, result>>
  /\ UNCHANGED <<listener, closed, listenerFailures, frame,
                 removed, fresh, acquired, historyVars>>

Retract(p) ==
  /\ \/ /\ pending = frame[p]
        /\ Goto(p, "retract", "idle")
        /\ pending' = NoFrame
        /\ CloseFrame(frame[p])
        /\ Return(p, "false")
     \/ /\ pending # frame[p]
        /\ Goto(p, "retract", "listen")
        /\ UNCHANGED <<pending, releases, result>>
  /\ UNCHANGED <<listener, closed, droppedFrames, listenerFailures, frame,
                 removed, fresh, acquired, historyVars>>

\* Mutant: a frame that displaced another one is not announced.
ReadListenerCoalescing(p) ==
  /\ \/ /\ listener = NoListener \/ removed[p] # NoFrame
        /\ Goto(p, "listen", "idle")
        /\ Return(p, "true")
     \/ /\ listener # NoListener /\ removed[p] = NoFrame
        /\ Goto(p, "listen", "confirm")
        /\ UNCHANGED result
  /\ UNCHANGED <<transportVars, frame, removed, fresh, acquired, releases, historyVars>>

ReadListener(p) ==
  /\ \/ /\ listener = NoListener
        /\ Goto(p, "listen", "idle")
        /\ Return(p, "true")
     \/ /\ listener # NoListener
        /\ Goto(p, "listen", "confirm")
        /\ UNCHANGED result
  /\ UNCHANGED <<transportVars, frame, removed, fresh, acquired, releases, historyVars>>

ConfirmPending(p) ==
  /\ \/ /\ pending # frame[p]
        /\ Goto(p, "confirm", "idle")
        /\ Return(p, "true")
     \/ /\ pending = frame[p]
        /\ Goto(p, "confirm", "notify")
        /\ UNCHANGED result
  /\ UNCHANGED <<transportVars, frame, removed, fresh, acquired, releases, historyVars>>

\* onFrameAvailable() runs on the publishing thread and may throw.
Notify(p) ==
  /\ Goto(p, "notify", "idle")
  /\ notified' = notified \cup {frame[p]}
  /\ \/ UNCHANGED listenerFailures
     \/ listenerFailures' = listenerFailures + 1
  /\ Return(p, "true")
  /\ UNCHANGED <<pending, listener, closed, droppedFrames, frame, removed,
                 fresh, acquired, releases, delivered, watching>>

-----------------------------------------------------------------------------
(* The consumer: acquireLatest() and, as the contract asks, Frame.close(). *)

\* Mutant: the empty place is handed out as a frame.
AcquireNull ==
  /\ pending' = NoFrame
  /\ acquired' = acquired \cup {pending}
  /\ delivered' = delivered \cup {pending}
  /\ UNCHANGED <<listener, closed, droppedFrames, listenerFailures, threadVars,
                 fresh, releases, result, notified, watching>>

AcquireLatest ==
  /\ pending # NoFrame
  /\ pending' = NoFrame
  /\ acquired' = acquired \cup {pending}
  /\ delivered' = delivered \cup {pending}
  /\ UNCHANGED <<listener, closed, droppedFrames, listenerFailures, threadVars,
                 fresh, releases, result, notified, watching>>

ConsumerClose(f) ==
  /\ f \in acquired
  /\ acquired' = acquired \ {f}
  /\ CloseFrame(f)
  /\ UNCHANGED <<transportVars, threadVars, fresh, result, historyVars>>

-----------------------------------------------------------------------------
(* close() *)

BeginClose(c) ==
  /\ ~closed
  /\ closed' = TRUE
  /\ Goto(c, "idle", "detach")
  /\ UNCHANGED <<pending, listener, droppedFrames, listenerFailures, frame,
                 removed, frameVars, historyVars>>

DetachListener(c) ==
  /\ Goto(c, "detach", "drain")
  /\ listener' = NoListener
  /\ Rewatch
  /\ UNCHANGED <<pending, closed, droppedFrames, listenerFailures, frame,
                 removed, frameVars, delivered, notified>>

\* Mutant: the drained frame is not closed.
DrainForgetting(c) ==
  /\ Goto(c, "drain", "idle")
  /\ removed' = [removed EXCEPT ![c] = pending]
  /\ pending' = NoFrame
  /\ UNCHANGED <<listener, closed, droppedFrames, listenerFailures, frame,
                 frameVars, historyVars>>

DrainPending(c) ==
  /\ Goto(c, "drain", IF pending = NoFrame THEN "idle" ELSE "release")
  /\ removed' = [removed EXCEPT ![c] = pending]
  /\ pending' = NoFrame
  /\ UNCHANGED <<listener, closed, droppedFrames, listenerFailures, frame,
                 frameVars, historyVars>>

ReleaseDrained(c) ==
  /\ Goto(c, "release", "idle")
  /\ CloseFrame(removed[c])
  /\ UNCHANGED <<transportVars, frame, removed, fresh, acquired, result, historyVars>>

-----------------------------------------------------------------------------
(* subscribe() and Subscription.close() *)

Subscribe(s) ==
  /\ ~closed                              \* else IllegalStateException
  /\ Goto(s, "idle", "register")
  /\ UNCHANGED <<transportVars, frame, removed, frameVars, historyVars>>

Register(s) ==
  /\ \/ /\ listener = NoListener
        /\ Goto(s, "register", "reopen")
        /\ listener' = s
        /\ Rewatch
     \/ /\ listener # NoListener          \* "already has a consumer"
        /\ Goto(s, "register", "idle")
        /\ UNCHANGED <<listener, watching>>
  /\ UNCHANGED <<pending, closed, droppedFrames, listenerFailures, frame,
                 removed, frameVars, delivered, notified>>

ReopenCheck(s) ==
  /\ Goto(s, "reopen", IF closed THEN "revert" ELSE "subscribed")
  /\ UNCHANGED <<transportVars, frame, removed, frameVars, historyVars>>

\* compareAndSet(newListener, null), whatever it returns.
ClearOwn(s) == /\ listener' = IF listener = s THEN NoListener ELSE listener
               /\ IF listener = s THEN Rewatch ELSE UNCHANGED watching

Revert(s) ==
  /\ Goto(s, "revert", IF listener = s THEN "idle" ELSE "subscribed")
  /\ ClearOwn(s)
  /\ UNCHANGED <<pending, closed, droppedFrames, listenerFailures, frame,
                 removed, frameVars, delivered, notified>>

Unsubscribe(s) ==
  /\ Goto(s, "subscribed", "idle")
  /\ ClearOwn(s)
  /\ UNCHANGED <<pending, closed, droppedFrames, listenerFailures, frame,
                 removed, frameVars, delivered, notified>>

-----------------------------------------------------------------------------
ProducerStep(p) ==
  \/ CheckClosed(p) \/ Swap(p) \/ DropSkipped(p) \/ RecheckClosed(p)
  \/ Retract(p) \/ ReadListener(p) \/ ConfirmPending(p) \/ Notify(p)

CloserStep(c) == DetachListener(c) \/ DrainPending(c) \/ ReleaseDrained(c)

SubscriberStep(s) == Register(s) \/ ReopenCheck(s) \/ Revert(s)

Next ==
  \/ \E p \in Producers : Publish(p) \/ ProducerStep(p)
  \/ \E c \in Closers : BeginClose(c) \/ CloserStep(c)
  \/ \E s \in Subscribers : Subscribe(s) \/ SubscriberStep(s) \/ Unsubscribe(s)
  \/ AcquireLatest
  \/ \E f \in Frames : ConsumerClose(f)

\* A thread inside a method finishes it: no step of the class blocks.  The
\* consumer closes what it acquired.  Nobody has to publish, subscribe,
\* acquire or close the transport.
Fairness ==
  /\ \A p \in Producers : WF_vars(ProducerStep(p))
  /\ \A c \in Closers : WF_vars(CloserStep(c))
  /\ \A s \in Subscribers : WF_vars(SubscriberStep(s))
  /\ \A f \in Frames : WF_vars(ConsumerClose(f))

Spec == Init /\ [][Next]_vars
FairSpec == Spec /\ Fairness

-----------------------------------------------------------------------------
(* Properties *)

\* No thread is inside publish(), close() or subscribe().
Quiescent == \A t \in Threads : pc[t] \in {"idle", "subscribed"}

\* Thread t has the duty to hand frame f on or to close it.
Owns(t, f) ==
  \/ t \in Producers /\ pc[t] \in {"check", "swap"} /\ frame[t] = f
  \/ t \in Producers /\ pc[t] = "drop" /\ removed[t] = f
  \/ t \in Closers /\ pc[t] = "release" /\ removed[t] = f

\* No interleaving of publish(), acquireLatest() and close() closes a frame
\* twice: the native surface behind it would return to its pool twice.
ReleasedAtMostOnce == \A f \in Frames : releases[f] <= 1

\* No interleaving loses a frame: one that was handed over and not closed is
\* pending, held by the consumer, or owned by a thread still inside the class
\* ("replaced, skipped, and post-close frames are always released").
NoFrameLost ==
  \A f \in Frames \ fresh :
    \/ releases[f] >= 1
    \/ f \in acquired
    \/ pending = f
    \/ \E t \in Threads : Owns(t, f)

\* Once close() and the publish() and subscribe() calls that raced with it
\* have returned, the transport keeps neither a frame nor a listener.
ClosedTransportIsEmpty ==
  closed /\ Quiescent => pending = NoFrame /\ listener = NoListener

\* publish() answers false only for a frame it closed itself: the consumer
\* has never seen that frame.
RefusedNeverDelivered ==
  \A f \in Frames : result[f] = "false" => releases[f] = 1 /\ f \notin delivered

\* droppedFrames() counts the accepted frames that a newer one displaced: all
\* the accepted ones that are neither pending nor delivered, but for the one
\* that close() may have drained.
DropAccounting ==
  LET gone == {f \in Frames : result[f] = "true" /\ f \notin delivered /\ f # pending}
  IN  Quiescent => \/ droppedFrames = Cardinality(gone)
                   \/ closed /\ droppedFrames + 1 = Cardinality(gone)

\* publish() does not return, with its frame still pending and the listener it
\* found at the swap still registered, without having told a listener.
NoLostNotification ==
  \A p \in Producers :
    (pc[p] = "idle" /\ pending # NoFrame /\ pending = frame[p] /\ watching[p] # NoListener)
      => frame[p] \in notified

\* A closed transport ends up releasing every frame handed over.
EveryFrameReleased ==
  \A f \in Frames : (closed /\ f \notin fresh) ~> releases[f] = 1

-----------------------------------------------------------------------------
(* The transport implements the mailbox. *)

StageOf(f) ==
  IF f \in fresh THEN "new"
  ELSE IF releases[f] > 0 THEN "released"
  ELSE IF f \in acquired THEN "acquired"
  ELSE IF pending = f THEN "pending"
  ELSE IF \E p \in Producers : pc[p] \in {"check", "swap"} /\ frame[p] = f THEN "offered"
  ELSE "retiring"

Mailbox == INSTANCE FrameMailbox WITH stage <- [f \in Frames |-> StageOf(f)]

MailboxSpec == Mailbox!Spec
MailboxSteps == Mailbox!Init /\ [][Mailbox!Next]_(Mailbox!vars)
=============================================================================
