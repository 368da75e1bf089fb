--------------------- MODULE LatestFrameTransportProofs ---------------------
(***************************************************************************)
(* Proofs about LatestFrameTransport, for any sets of frames and threads.  *)
(* The properties follow from an ownership discipline that every step      *)
(* keeps: at any time a frame is in one place, and a closed transport that *)
(* is not empty yet has a thread inside it that will empty it.             *)
(***************************************************************************)
EXTENDS LatestFrameTransport, FiniteSetTheorems, TLAPS

\* A thread inside the class has the frames its next steps use.
LocalsOK ==
  /\ \A p \in Producers : /\ pc[p] # "idle" => frame[p] \in Frames
                          /\ pc[p] = "drop" => removed[p] \in Frames
  /\ \A c \in Closers : pc[c] = "release" => removed[c] \in Frames

\* A frame is new, or owned by one thread, or pending, or acquired, or
\* released: never in two of these places.
OnePlace ==
  \A f \in Frames :
    /\ \A t, u \in Threads : Owns(t, f) /\ Owns(u, f) => t = u
    /\ \A t \in Threads : Owns(t, f) =>
         f \notin fresh /\ f \notin acquired /\ pending # f /\ releases[f] = 0
    /\ pending = f => f \notin fresh /\ f \notin acquired /\ releases[f] = 0
    /\ f \in acquired => f \notin fresh /\ releases[f] = 0
    /\ f \in fresh => releases[f] = 0
    /\ releases[f] <= 1

\* Only the consumer's frames, and those it closed, have been delivered.
DeliveredLeft ==
  \A f \in delivered : /\ f \notin fresh
                       /\ pending # f
                       /\ \A t \in Threads : ~Owns(t, f)

\* Somebody is still going to empty a closed transport.
EmptyingUnderWay ==
  /\ closed /\ pending # NoFrame =>
       \/ \E c \in Closers : pc[c] \in {"detach", "drain"}
       \/ \E p \in Producers : frame[p] = pending /\ pc[p] \in {"drop", "recheck", "retract"}
  /\ closed /\ listener # NoListener =>
       \/ \E c \in Closers : pc[c] = "detach"
       \/ \E s \in Subscribers : listener = s /\ pc[s] \in {"reopen", "revert"}

\* A listener that publish() found at its swap is still in place, and two
\* producers never publish the same frame.
WatchingOK ==
  /\ \A p \in Producers : watching[p] # NoListener => watching[p] = listener
  /\ \A p \in Producers : frame[p] # NoFrame => frame[p] \notin fresh
  /\ \A p, q \in Producers : frame[p] # NoFrame /\ frame[p] = frame[q] => p = q

\* A thread retracts or drains only after it has seen the transport closed.
ClosedSeen ==
  /\ \A p \in Producers : pc[p] = "retract" => closed
  /\ \A c \in Closers : pc[c] \in {"detach", "drain"} => closed

IInv == /\ TypeOK
        /\ LocalsOK
        /\ OnePlace
        /\ DeliveredLeft
        /\ NoFrameLost
        /\ RefusedNeverDelivered
        /\ EmptyingUnderWay
        /\ WatchingOK
        /\ NoLostNotification
        /\ ClosedSeen

-----------------------------------------------------------------------------
\* The initial state keeps the discipline: every frame is new.
LEMMA InitIInv == Init => IInv
<1>1. ASSUME Init PROVE TypeOK
  <2>1. SharedOK
    BY <1>1 DEF Init, SharedOK, FrameOrNull, ListenerOrNull
  <2>2. ThreadsOK
    BY <1>1 DEF Init, ThreadsOK, Threads, FrameOrNull, ProducerPC, CloserPC, SubscriberPC
  <2>3. FramesOK
    BY <1>1 DEF Init, FramesOK, ListenerOrNull
  <2> QED
    BY <2>1, <2>2, <2>3 DEF TypeOK
<1>2. Init => LocalsOK /\ OnePlace /\ DeliveredLeft
  BY ConstantsAssumption DEF Init, LocalsOK, OnePlace, DeliveredLeft, Owns, Threads
<1>3. Init => NoFrameLost /\ RefusedNeverDelivered
  BY ConstantsAssumption DEF Init, NoFrameLost, RefusedNeverDelivered
<1>4. Init => EmptyingUnderWay /\ WatchingOK /\ NoLostNotification /\ ClosedSeen
  BY ConstantsAssumption DEF Init, EmptyingUnderWay, WatchingOK, NoLostNotification, ClosedSeen, Threads
<1> QED
  BY <1>1, <1>2, <1>3, <1>4 DEF IInv

\* Every step keeps the types and gives a thread the frames its next steps use.
LEMMA TypeStep ==
  ASSUME TypeOK, LocalsOK, [Next]_vars
  PROVE  TypeOK'
<1> USE ConstantsAssumption DEF LocalsOK,
         TypeOK, SharedOK, ThreadsOK, FramesOK, FrameOrNull, ListenerOrNull, ProducerPC, CloserPC, SubscriberPC,
         vars, transportVars, threadVars, frameVars, historyVars, Threads, Goto, CloseFrame, Return, Rewatch, ClearOwn
<1>1. CASE \E p \in Producers : Publish(p)
  BY <1>1 DEF Publish
<1>2. CASE \E p \in Producers : CheckClosed(p)
  BY <1>2 DEF CheckClosed
<1>3. CASE \E p \in Producers : Swap(p)
  BY <1>3 DEF Swap
<1>4. CASE \E p \in Producers : DropSkipped(p)
  BY <1>4 DEF DropSkipped
<1>5. CASE \E p \in Producers : RecheckClosed(p)
  BY <1>5 DEF RecheckClosed
<1>6. CASE \E p \in Producers : Retract(p)
  BY <1>6 DEF Retract
<1>7. CASE \E p \in Producers : ReadListener(p)
  BY <1>7 DEF ReadListener
<1>8. CASE \E p \in Producers : ConfirmPending(p)
  BY <1>8 DEF ConfirmPending
<1>9. CASE \E p \in Producers : Notify(p)
  BY <1>9 DEF Notify
<1>10. CASE \E c \in Closers : BeginClose(c)
  BY <1>10 DEF BeginClose
<1>11. CASE \E c \in Closers : DetachListener(c)
  BY <1>11 DEF DetachListener
<1>12. CASE \E c \in Closers : DrainPending(c)
  BY <1>12 DEF DrainPending
<1>13. CASE \E c \in Closers : ReleaseDrained(c)
  BY <1>13 DEF ReleaseDrained
<1>14. CASE \E s \in Subscribers : Subscribe(s)
  BY <1>14 DEF Subscribe
<1>15. CASE \E s \in Subscribers : Register(s)
  BY <1>15 DEF Register
<1>16. CASE \E s \in Subscribers : ReopenCheck(s)
  BY <1>16 DEF ReopenCheck
<1>17. CASE \E s \in Subscribers : Revert(s)
  BY <1>17 DEF Revert
<1>18. CASE \E s \in Subscribers : Unsubscribe(s)
  BY <1>18 DEF Unsubscribe
<1>19. CASE AcquireLatest
  BY <1>19 DEF AcquireLatest
<1>20. CASE \E f \in Frames : ConsumerClose(f)
  BY <1>20 DEF ConsumerClose
<1>21. CASE UNCHANGED vars
  BY <1>21
<1> QED
  BY <1>1, <1>2, <1>3, <1>4, <1>5, <1>6, <1>7, <1>8, <1>9, <1>10,
     <1>11, <1>12, <1>13, <1>14, <1>15, <1>16, <1>17, <1>18, <1>19, <1>20, <1>21
     DEF Next, ProducerStep, CloserStep, SubscriberStep

\* A thread enters the class with a frame and keeps it until it leaves.
LEMMA LocalsStep ==
  ASSUME TypeOK, LocalsOK, [Next]_vars
  PROVE  LocalsOK'
<1> USE ConstantsAssumption DEF LocalsOK,
         TypeOK, SharedOK, ThreadsOK, FramesOK, FrameOrNull, ListenerOrNull, ProducerPC, CloserPC, SubscriberPC,
         vars, transportVars, threadVars, frameVars, historyVars, Threads, Goto
<1>1. CASE \E p \in Producers : Publish(p)
  BY <1>1 DEF Publish
<1>2. CASE \E p \in Producers : CheckClosed(p)
  BY <1>2 DEF CheckClosed
<1>3. CASE \E p \in Producers : Swap(p)
  BY <1>3 DEF Swap
<1>4. CASE \E p \in Producers : DropSkipped(p)
  BY <1>4 DEF DropSkipped
<1>5. CASE \E p \in Producers : RecheckClosed(p)
  BY <1>5 DEF RecheckClosed
<1>6. CASE \E p \in Producers : Retract(p)
  BY <1>6 DEF Retract
<1>7. CASE \E p \in Producers : ReadListener(p)
  BY <1>7 DEF ReadListener
<1>8. CASE \E p \in Producers : ConfirmPending(p)
  BY <1>8 DEF ConfirmPending
<1>9. CASE \E p \in Producers : Notify(p)
  BY <1>9 DEF Notify
<1>10. CASE \E c \in Closers : BeginClose(c)
  BY <1>10 DEF BeginClose
<1>11. CASE \E c \in Closers : DetachListener(c)
  BY <1>11 DEF DetachListener
<1>12. CASE \E c \in Closers : DrainPending(c)
  BY <1>12 DEF DrainPending
<1>13. CASE \E c \in Closers : ReleaseDrained(c)
  BY <1>13 DEF ReleaseDrained
<1>14. CASE \E s \in Subscribers : Subscribe(s)
  BY <1>14 DEF Subscribe
<1>15. CASE \E s \in Subscribers : Register(s)
  BY <1>15 DEF Register
<1>16. CASE \E s \in Subscribers : ReopenCheck(s)
  BY <1>16 DEF ReopenCheck
<1>17. CASE \E s \in Subscribers : Revert(s)
  BY <1>17 DEF Revert
<1>18. CASE \E s \in Subscribers : Unsubscribe(s)
  BY <1>18 DEF Unsubscribe
<1>19. CASE AcquireLatest
  BY <1>19 DEF AcquireLatest
<1>20. CASE \E f \in Frames : ConsumerClose(f)
  BY <1>20 DEF ConsumerClose
<1>21. CASE UNCHANGED vars
  BY <1>21
<1> QED
  BY <1>1, <1>2, <1>3, <1>4, <1>5, <1>6, <1>7, <1>8, <1>9, <1>10,
     <1>11, <1>12, <1>13, <1>14, <1>15, <1>16, <1>17, <1>18, <1>19, <1>20, <1>21
     DEF Next, ProducerStep, CloserStep, SubscriberStep

\* A frame moves from one place to another, and is closed where it is owned.
LEMMA OnePlaceStep ==
  ASSUME TypeOK, LocalsOK, OnePlace, [Next]_vars
  PROVE  OnePlace'
<1> USE ConstantsAssumption DEF LocalsOK, OnePlace, Owns,
         TypeOK, SharedOK, ThreadsOK, FramesOK, FrameOrNull, ListenerOrNull, ProducerPC, CloserPC, SubscriberPC,
         vars, transportVars, threadVars, frameVars, historyVars, Threads, Goto, CloseFrame
<1>1. CASE \E p \in Producers : Publish(p)
  BY <1>1 DEF Publish
<1>2. CASE \E p \in Producers : CheckClosed(p)
  BY <1>2 DEF CheckClosed
<1>3. CASE \E p \in Producers : Swap(p)
  BY <1>3 DEF Swap
<1>4. CASE \E p \in Producers : DropSkipped(p)
  BY <1>4 DEF DropSkipped
<1>5. CASE \E p \in Producers : RecheckClosed(p)
  BY <1>5 DEF RecheckClosed
<1>6. CASE \E p \in Producers : Retract(p)
  BY <1>6 DEF Retract
<1>7. CASE \E p \in Producers : ReadListener(p)
  BY <1>7 DEF ReadListener
<1>8. CASE \E p \in Producers : ConfirmPending(p)
  BY <1>8 DEF ConfirmPending
<1>9. CASE \E p \in Producers : Notify(p)
  BY <1>9 DEF Notify
<1>10. CASE \E c \in Closers : BeginClose(c)
  BY <1>10 DEF BeginClose
<1>11. CASE \E c \in Closers : DetachListener(c)
  BY <1>11 DEF DetachListener
<1>12. CASE \E c \in Closers : DrainPending(c)
  BY <1>12 DEF DrainPending
<1>13. CASE \E c \in Closers : ReleaseDrained(c)
  BY <1>13 DEF ReleaseDrained
<1>14. CASE \E s \in Subscribers : Subscribe(s)
  BY <1>14 DEF Subscribe
<1>15. CASE \E s \in Subscribers : Register(s)
  BY <1>15 DEF Register
<1>16. CASE \E s \in Subscribers : ReopenCheck(s)
  BY <1>16 DEF ReopenCheck
<1>17. CASE \E s \in Subscribers : Revert(s)
  BY <1>17 DEF Revert
<1>18. CASE \E s \in Subscribers : Unsubscribe(s)
  BY <1>18 DEF Unsubscribe
<1>19. CASE AcquireLatest
  BY <1>19 DEF AcquireLatest
<1>20. CASE \E f \in Frames : ConsumerClose(f)
  BY <1>20 DEF ConsumerClose
<1>21. CASE UNCHANGED vars
  BY <1>21
<1> QED
  BY <1>1, <1>2, <1>3, <1>4, <1>5, <1>6, <1>7, <1>8, <1>9, <1>10,
     <1>11, <1>12, <1>13, <1>14, <1>15, <1>16, <1>17, <1>18, <1>19, <1>20, <1>21
     DEF Next, ProducerStep, CloserStep, SubscriberStep

\* A delivered frame never comes back into the transport.
LEMMA DeliveredStep ==
  ASSUME TypeOK, LocalsOK, OnePlace, DeliveredLeft, [Next]_vars
  PROVE  DeliveredLeft'
<1> USE ConstantsAssumption DEF LocalsOK, OnePlace, DeliveredLeft, Owns,
         TypeOK, SharedOK, ThreadsOK, FramesOK, FrameOrNull, ListenerOrNull, ProducerPC, CloserPC, SubscriberPC,
         vars, transportVars, threadVars, frameVars, historyVars, Threads, Goto, CloseFrame
<1>1. CASE \E p \in Producers : Publish(p)
  BY <1>1 DEF Publish
<1>2. CASE \E p \in Producers : CheckClosed(p)
  BY <1>2 DEF CheckClosed
<1>3. CASE \E p \in Producers : Swap(p)
  BY <1>3 DEF Swap
<1>4. CASE \E p \in Producers : DropSkipped(p)
  BY <1>4 DEF DropSkipped
<1>5. CASE \E p \in Producers : RecheckClosed(p)
  BY <1>5 DEF RecheckClosed
<1>6. CASE \E p \in Producers : Retract(p)
  BY <1>6 DEF Retract
<1>7. CASE \E p \in Producers : ReadListener(p)
  BY <1>7 DEF ReadListener
<1>8. CASE \E p \in Producers : ConfirmPending(p)
  BY <1>8 DEF ConfirmPending
<1>9. CASE \E p \in Producers : Notify(p)
  BY <1>9 DEF Notify
<1>10. CASE \E c \in Closers : BeginClose(c)
  BY <1>10 DEF BeginClose
<1>11. CASE \E c \in Closers : DetachListener(c)
  BY <1>11 DEF DetachListener
<1>12. CASE \E c \in Closers : DrainPending(c)
  BY <1>12 DEF DrainPending
<1>13. CASE \E c \in Closers : ReleaseDrained(c)
  BY <1>13 DEF ReleaseDrained
<1>14. CASE \E s \in Subscribers : Subscribe(s)
  BY <1>14 DEF Subscribe
<1>15. CASE \E s \in Subscribers : Register(s)
  BY <1>15 DEF Register
<1>16. CASE \E s \in Subscribers : ReopenCheck(s)
  BY <1>16 DEF ReopenCheck
<1>17. CASE \E s \in Subscribers : Revert(s)
  BY <1>17 DEF Revert
<1>18. CASE \E s \in Subscribers : Unsubscribe(s)
  BY <1>18 DEF Unsubscribe
<1>19. CASE AcquireLatest
  BY <1>19 DEF AcquireLatest
<1>20. CASE \E f \in Frames : ConsumerClose(f)
  BY <1>20 DEF ConsumerClose
<1>21. CASE UNCHANGED vars
  BY <1>21
<1> QED
  BY <1>1, <1>2, <1>3, <1>4, <1>5, <1>6, <1>7, <1>8, <1>9, <1>10,
     <1>11, <1>12, <1>13, <1>14, <1>15, <1>16, <1>17, <1>18, <1>19, <1>20, <1>21
     DEF Next, ProducerStep, CloserStep, SubscriberStep

\* A frame that leaves a place enters another one or is closed.
LEMMA NoFrameLostStep ==
  ASSUME TypeOK, LocalsOK, NoFrameLost, [Next]_vars
  PROVE  NoFrameLost'
<1> USE ConstantsAssumption DEF LocalsOK, NoFrameLost, Owns,
         TypeOK, SharedOK, ThreadsOK, FramesOK, FrameOrNull, ListenerOrNull, ProducerPC, CloserPC, SubscriberPC,
         vars, transportVars, threadVars, frameVars, historyVars, Threads, Goto, CloseFrame
<1>1. CASE \E p \in Producers : Publish(p)
  BY <1>1 DEF Publish
<1>2. CASE \E p \in Producers : CheckClosed(p)
  BY <1>2 DEF CheckClosed
<1>3. CASE \E p \in Producers : Swap(p)
  BY <1>3 DEF Swap
<1>4. CASE \E p \in Producers : DropSkipped(p)
  BY <1>4 DEF DropSkipped
<1>5. CASE \E p \in Producers : RecheckClosed(p)
  BY <1>5 DEF RecheckClosed
<1>6. CASE \E p \in Producers : Retract(p)
  BY <1>6 DEF Retract
<1>7. CASE \E p \in Producers : ReadListener(p)
  BY <1>7 DEF ReadListener
<1>8. CASE \E p \in Producers : ConfirmPending(p)
  BY <1>8 DEF ConfirmPending
<1>9. CASE \E p \in Producers : Notify(p)
  BY <1>9 DEF Notify
<1>10. CASE \E c \in Closers : BeginClose(c)
  BY <1>10 DEF BeginClose
<1>11. CASE \E c \in Closers : DetachListener(c)
  BY <1>11 DEF DetachListener
<1>12. CASE \E c \in Closers : DrainPending(c)
  BY <1>12 DEF DrainPending
<1>13. CASE \E c \in Closers : ReleaseDrained(c)
  BY <1>13 DEF ReleaseDrained
<1>14. CASE \E s \in Subscribers : Subscribe(s)
  BY <1>14 DEF Subscribe
<1>15. CASE \E s \in Subscribers : Register(s)
  BY <1>15 DEF Register
<1>16. CASE \E s \in Subscribers : ReopenCheck(s)
  BY <1>16 DEF ReopenCheck
<1>17. CASE \E s \in Subscribers : Revert(s)
  BY <1>17 DEF Revert
<1>18. CASE \E s \in Subscribers : Unsubscribe(s)
  BY <1>18 DEF Unsubscribe
<1>19. CASE AcquireLatest
  BY <1>19 DEF AcquireLatest
<1>20. CASE \E f \in Frames : ConsumerClose(f)
  BY <1>20 DEF ConsumerClose
<1>21. CASE UNCHANGED vars
  BY <1>21
<1> QED
  BY <1>1, <1>2, <1>3, <1>4, <1>5, <1>6, <1>7, <1>8, <1>9, <1>10,
     <1>11, <1>12, <1>13, <1>14, <1>15, <1>16, <1>17, <1>18, <1>19, <1>20, <1>21
     DEF Next, ProducerStep, CloserStep, SubscriberStep

\* publish() answers false only where it closed its own frame.
LEMMA RefusedStep ==
  ASSUME TypeOK, LocalsOK, OnePlace, DeliveredLeft, RefusedNeverDelivered, [Next]_vars
  PROVE  RefusedNeverDelivered'
<1> USE ConstantsAssumption DEF LocalsOK, OnePlace, DeliveredLeft, RefusedNeverDelivered, Owns,
         TypeOK, SharedOK, ThreadsOK, FramesOK, FrameOrNull, ListenerOrNull, ProducerPC, CloserPC, SubscriberPC,
         vars, transportVars, threadVars, frameVars, historyVars, Threads, Goto, CloseFrame, Return
<1>1. CASE \E p \in Producers : Publish(p)
  BY <1>1 DEF Publish
<1>2. CASE \E p \in Producers : CheckClosed(p)
  BY <1>2 DEF CheckClosed
<1>3. CASE \E p \in Producers : Swap(p)
  BY <1>3 DEF Swap
<1>4. CASE \E p \in Producers : DropSkipped(p)
  BY <1>4 DEF DropSkipped
<1>5. CASE \E p \in Producers : RecheckClosed(p)
  BY <1>5 DEF RecheckClosed
<1>6. CASE \E p \in Producers : Retract(p)
  BY <1>6 DEF Retract
<1>7. CASE \E p \in Producers : ReadListener(p)
  BY <1>7 DEF ReadListener
<1>8. CASE \E p \in Producers : ConfirmPending(p)
  BY <1>8 DEF ConfirmPending
<1>9. CASE \E p \in Producers : Notify(p)
  BY <1>9 DEF Notify
<1>10. CASE \E c \in Closers : BeginClose(c)
  BY <1>10 DEF BeginClose
<1>11. CASE \E c \in Closers : DetachListener(c)
  BY <1>11 DEF DetachListener
<1>12. CASE \E c \in Closers : DrainPending(c)
  BY <1>12 DEF DrainPending
<1>13. CASE \E c \in Closers : ReleaseDrained(c)
  BY <1>13 DEF ReleaseDrained
<1>14. CASE \E s \in Subscribers : Subscribe(s)
  BY <1>14 DEF Subscribe
<1>15. CASE \E s \in Subscribers : Register(s)
  BY <1>15 DEF Register
<1>16. CASE \E s \in Subscribers : ReopenCheck(s)
  BY <1>16 DEF ReopenCheck
<1>17. CASE \E s \in Subscribers : Revert(s)
  BY <1>17 DEF Revert
<1>18. CASE \E s \in Subscribers : Unsubscribe(s)
  BY <1>18 DEF Unsubscribe
<1>19. CASE AcquireLatest
  BY <1>19 DEF AcquireLatest
<1>20. CASE \E f \in Frames : ConsumerClose(f)
  BY <1>20 DEF ConsumerClose
<1>21. CASE UNCHANGED vars
  BY <1>21
<1> QED
  BY <1>1, <1>2, <1>3, <1>4, <1>5, <1>6, <1>7, <1>8, <1>9, <1>10,
     <1>11, <1>12, <1>13, <1>14, <1>15, <1>16, <1>17, <1>18, <1>19, <1>20, <1>21
     DEF Next, ProducerStep, CloserStep, SubscriberStep

\* Whoever fills a closed transport will look at `closed` again.
LEMMA EmptyingStep ==
  ASSUME TypeOK, EmptyingUnderWay, [Next]_vars
  PROVE  EmptyingUnderWay'
<1> USE ConstantsAssumption DEF EmptyingUnderWay,
         TypeOK, SharedOK, ThreadsOK, FramesOK, FrameOrNull, ListenerOrNull, ProducerPC, CloserPC, SubscriberPC,
         vars, transportVars, threadVars, frameVars, historyVars, Threads, Goto, ClearOwn
<1>1. CASE \E p \in Producers : Publish(p)
  BY <1>1 DEF Publish
<1>2. CASE \E p \in Producers : CheckClosed(p)
  BY <1>2 DEF CheckClosed
<1>3. CASE \E p \in Producers : Swap(p)
  BY <1>3 DEF Swap
<1>4. CASE \E p \in Producers : DropSkipped(p)
  BY <1>4 DEF DropSkipped
<1>5. CASE \E p \in Producers : RecheckClosed(p)
  BY <1>5 DEF RecheckClosed
<1>6. CASE \E p \in Producers : Retract(p)
  BY <1>6 DEF Retract
<1>7. CASE \E p \in Producers : ReadListener(p)
  BY <1>7 DEF ReadListener
<1>8. CASE \E p \in Producers : ConfirmPending(p)
  BY <1>8 DEF ConfirmPending
<1>9. CASE \E p \in Producers : Notify(p)
  BY <1>9 DEF Notify
<1>10. CASE \E c \in Closers : BeginClose(c)
  BY <1>10 DEF BeginClose
<1>11. CASE \E c \in Closers : DetachListener(c)
  BY <1>11 DEF DetachListener
<1>12. CASE \E c \in Closers : DrainPending(c)
  BY <1>12 DEF DrainPending
<1>13. CASE \E c \in Closers : ReleaseDrained(c)
  BY <1>13 DEF ReleaseDrained
<1>14. CASE \E s \in Subscribers : Subscribe(s)
  BY <1>14 DEF Subscribe
<1>15. CASE \E s \in Subscribers : Register(s)
  BY <1>15 DEF Register
<1>16. CASE \E s \in Subscribers : ReopenCheck(s)
  BY <1>16 DEF ReopenCheck
<1>17. CASE \E s \in Subscribers : Revert(s)
  BY <1>17 DEF Revert
<1>18. CASE \E s \in Subscribers : Unsubscribe(s)
  BY <1>18 DEF Unsubscribe
<1>19. CASE AcquireLatest
  BY <1>19 DEF AcquireLatest
<1>20. CASE \E f \in Frames : ConsumerClose(f)
  BY <1>20 DEF ConsumerClose
<1>21. CASE UNCHANGED vars
  BY <1>21
<1> QED
  BY <1>1, <1>2, <1>3, <1>4, <1>5, <1>6, <1>7, <1>8, <1>9, <1>10,
     <1>11, <1>12, <1>13, <1>14, <1>15, <1>16, <1>17, <1>18, <1>19, <1>20, <1>21
     DEF Next, ProducerStep, CloserStep, SubscriberStep

\* A listener that was watching is still in place; publishers have frames of their own.
LEMMA WatchStep ==
  ASSUME TypeOK, LocalsOK, OnePlace, WatchingOK, NoLostNotification, [Next]_vars
  PROVE  (WatchingOK /\ NoLostNotification)'
<1> USE ConstantsAssumption DEF LocalsOK, OnePlace, WatchingOK, NoLostNotification, Owns,
         TypeOK, SharedOK, ThreadsOK, FramesOK, FrameOrNull, ListenerOrNull, ProducerPC, CloserPC, SubscriberPC,
         vars, transportVars, threadVars, frameVars, historyVars, Threads, Goto, Rewatch, ClearOwn
<1>1. CASE \E p \in Producers : Publish(p)
  BY <1>1 DEF Publish
<1>2. CASE \E p \in Producers : CheckClosed(p)
  BY <1>2 DEF CheckClosed
<1>3. CASE \E p \in Producers : Swap(p)
  BY <1>3 DEF Swap
<1>4. CASE \E p \in Producers : DropSkipped(p)
  BY <1>4 DEF DropSkipped
<1>5. CASE \E p \in Producers : RecheckClosed(p)
  BY <1>5 DEF RecheckClosed
<1>6. CASE \E p \in Producers : Retract(p)
  BY <1>6 DEF Retract
<1>7. CASE \E p \in Producers : ReadListener(p)
  BY <1>7 DEF ReadListener
<1>8. CASE \E p \in Producers : ConfirmPending(p)
  BY <1>8 DEF ConfirmPending
<1>9. CASE \E p \in Producers : Notify(p)
  BY <1>9 DEF Notify
<1>10. CASE \E c \in Closers : BeginClose(c)
  BY <1>10 DEF BeginClose
<1>11. CASE \E c \in Closers : DetachListener(c)
  BY <1>11 DEF DetachListener
<1>12. CASE \E c \in Closers : DrainPending(c)
  BY <1>12 DEF DrainPending
<1>13. CASE \E c \in Closers : ReleaseDrained(c)
  BY <1>13 DEF ReleaseDrained
<1>14. CASE \E s \in Subscribers : Subscribe(s)
  BY <1>14 DEF Subscribe
<1>15. CASE \E s \in Subscribers : Register(s)
  BY <1>15 DEF Register
<1>16. CASE \E s \in Subscribers : ReopenCheck(s)
  BY <1>16 DEF ReopenCheck
<1>17. CASE \E s \in Subscribers : Revert(s)
  BY <1>17 DEF Revert
<1>18. CASE \E s \in Subscribers : Unsubscribe(s)
  BY <1>18 DEF Unsubscribe
<1>19. CASE AcquireLatest
  BY <1>19 DEF AcquireLatest
<1>20. CASE \E f \in Frames : ConsumerClose(f)
  BY <1>20 DEF ConsumerClose
<1>21. CASE UNCHANGED vars
  BY <1>21
<1> QED
  BY <1>1, <1>2, <1>3, <1>4, <1>5, <1>6, <1>7, <1>8, <1>9, <1>10,
     <1>11, <1>12, <1>13, <1>14, <1>15, <1>16, <1>17, <1>18, <1>19, <1>20, <1>21
     DEF Next, ProducerStep, CloserStep, SubscriberStep

\* A thread that retracts or drains has seen the transport closed.
LEMMA ClosedSeenStep ==
  ASSUME TypeOK, ClosedSeen, [Next]_vars
  PROVE  ClosedSeen'
<1> USE ConstantsAssumption DEF ClosedSeen,
         TypeOK, SharedOK, ThreadsOK, FramesOK, FrameOrNull, ListenerOrNull, ProducerPC, CloserPC, SubscriberPC,
         vars, transportVars, threadVars, frameVars, historyVars, Threads, Goto
<1>1. CASE \E p \in Producers : Publish(p)
  BY <1>1 DEF Publish
<1>2. CASE \E p \in Producers : CheckClosed(p)
  BY <1>2 DEF CheckClosed
<1>3. CASE \E p \in Producers : Swap(p)
  BY <1>3 DEF Swap
<1>4. CASE \E p \in Producers : DropSkipped(p)
  BY <1>4 DEF DropSkipped
<1>5. CASE \E p \in Producers : RecheckClosed(p)
  BY <1>5 DEF RecheckClosed
<1>6. CASE \E p \in Producers : Retract(p)
  BY <1>6 DEF Retract
<1>7. CASE \E p \in Producers : ReadListener(p)
  BY <1>7 DEF ReadListener
<1>8. CASE \E p \in Producers : ConfirmPending(p)
  BY <1>8 DEF ConfirmPending
<1>9. CASE \E p \in Producers : Notify(p)
  BY <1>9 DEF Notify
<1>10. CASE \E c \in Closers : BeginClose(c)
  BY <1>10 DEF BeginClose
<1>11. CASE \E c \in Closers : DetachListener(c)
  BY <1>11 DEF DetachListener
<1>12. CASE \E c \in Closers : DrainPending(c)
  BY <1>12 DEF DrainPending
<1>13. CASE \E c \in Closers : ReleaseDrained(c)
  BY <1>13 DEF ReleaseDrained
<1>14. CASE \E s \in Subscribers : Subscribe(s)
  BY <1>14 DEF Subscribe
<1>15. CASE \E s \in Subscribers : Register(s)
  BY <1>15 DEF Register
<1>16. CASE \E s \in Subscribers : ReopenCheck(s)
  BY <1>16 DEF ReopenCheck
<1>17. CASE \E s \in Subscribers : Revert(s)
  BY <1>17 DEF Revert
<1>18. CASE \E s \in Subscribers : Unsubscribe(s)
  BY <1>18 DEF Unsubscribe
<1>19. CASE AcquireLatest
  BY <1>19 DEF AcquireLatest
<1>20. CASE \E f \in Frames : ConsumerClose(f)
  BY <1>20 DEF ConsumerClose
<1>21. CASE UNCHANGED vars
  BY <1>21
<1> QED
  BY <1>1, <1>2, <1>3, <1>4, <1>5, <1>6, <1>7, <1>8, <1>9, <1>10,
     <1>11, <1>12, <1>13, <1>14, <1>15, <1>16, <1>17, <1>18, <1>19, <1>20, <1>21
     DEF Next, ProducerStep, CloserStep, SubscriberStep

\* Every step of every thread keeps the discipline.
LEMMA IInvStep == IInv /\ [Next]_vars => IInv'
  BY TypeStep, LocalsStep, OnePlaceStep, DeliveredStep, NoFrameLostStep,
     RefusedStep, EmptyingStep, WatchStep, ClosedSeenStep DEF IInv

\* The ownership discipline is an invariant of the transport.
THEOREM Ownership == Spec => []IInv
  BY InitIInv, IInvStep, PTL DEF Spec

-----------------------------------------------------------------------------
\* The variables of LatestFrameTransport keep their types.
THEOREM TypeCorrect == Spec => []TypeOK
<1>1. IInv => TypeOK
  BY DEF IInv
<1> QED
  BY Ownership, <1>1, PTL

\* No interleaving of publish(), acquireLatest() and close() closes a frame
\* twice.
THEOREM NeverReleasedTwice == Spec => []ReleasedAtMostOnce
<1>1. IInv => ReleasedAtMostOnce
  BY DEF IInv, OnePlace, ReleasedAtMostOnce
<1> QED
  BY Ownership, <1>1, PTL

\* No interleaving of publish(), acquireLatest() and close() loses a frame.
THEOREM NeverLost == Spec => []NoFrameLost
<1>1. IInv => NoFrameLost
  BY DEF IInv
<1> QED
  BY Ownership, <1>1, PTL

\* After close() and the calls it raced with, the transport is empty.
THEOREM CloseEmpties == Spec => []ClosedTransportIsEmpty
<1>1. ASSUME EmptyingUnderWay, closed, Quiescent
      PROVE  pending = NoFrame /\ listener = NoListener
  <2>1. \A c \in Closers : pc[c] \notin {"detach", "drain"}
    BY <1>1 DEF Quiescent, Threads
  <2>2. \A p \in Producers : pc[p] \notin {"drop", "recheck", "retract"}
    BY <1>1 DEF Quiescent, Threads
  <2>3. \A s \in Subscribers : pc[s] \notin {"reopen", "revert"}
    BY <1>1 DEF Quiescent, Threads
  <2> QED
    BY <1>1, <2>1, <2>2, <2>3 DEF EmptyingUnderWay
<1>2. IInv => ClosedTransportIsEmpty
  BY <1>1 DEF IInv, ClosedTransportIsEmpty
<1> QED
  BY Ownership, <1>2, PTL

\* publish() answers false only for a frame the consumer never saw.
THEOREM RefusedNotDelivered == Spec => []RefusedNeverDelivered
<1>1. IInv => RefusedNeverDelivered
  BY DEF IInv
<1> QED
  BY Ownership, <1>1, PTL

\* A publication that stays pending under a listener has been notified.
THEOREM NotificationNotLost == Spec => []NoLostNotification
<1>1. IInv => NoLostNotification
  BY DEF IInv
<1> QED
  BY Ownership, <1>1, PTL
-----------------------------------------------------------------------------
(* What droppedFrames counts. *)

\* Whoever works on a frame has not answered for it yet, and who was handed
\* out has been delivered.
ResultsOK ==
  /\ \A f \in fresh : result[f] = "none"
  /\ \A p \in Producers : pc[p] # "idle" => result[frame[p]] = "none"
  /\ \A f \in Frames \ fresh : result[f] = "none" =>
       \E p \in Producers : pc[p] # "idle" /\ frame[p] = f
  /\ acquired \subseteq delivered

\* The frame that close() found pending.
Drained(f) == \E c \in Closers : removed[c] = f

\* One call of close() drains the transport, and drains it once.
OneDrain ==
  /\ \A c \in Closers : removed[c] # NoFrame => closed
  /\ \A c, d \in Closers : pc[c] \in {"detach", "drain"} =>
       removed[d] = NoFrame /\ (pc[d] \in {"detach", "drain"} => c = d)
  /\ \A c, d \in Closers : removed[c] # NoFrame /\ removed[d] # NoFrame => c = d

\* A drained frame is out of everybody else's reach.
DrainedOK ==
  \A f \in Frames : Drained(f) =>
    /\ f \notin fresh
    /\ f \notin delivered
    /\ pending # f
    /\ result[f] # "false"
    /\ \A p \in Producers : ~Owns(p, f)

\* The frames that were released because a newer one took their place.
Displaced == {f \in Frames : /\ releases[f] >= 1
                             /\ f \notin delivered
                             /\ result[f] # "false"
                             /\ ~Drained(f)}

CountOK == droppedFrames = Cardinality(Displaced)

Books == ResultsOK /\ OneDrain /\ DrainedOK /\ CountOK

\* Every step that answers for a frame answers for its own.
LEMMA ResultsStep ==
  ASSUME TypeOK, LocalsOK, OnePlace, WatchingOK, ResultsOK, [Next]_vars
  PROVE  ResultsOK'
<1> USE ConstantsAssumption DEF LocalsOK, OnePlace, WatchingOK, ResultsOK, Owns,
         TypeOK, SharedOK, ThreadsOK, FramesOK, FrameOrNull, ListenerOrNull, ProducerPC, CloserPC, SubscriberPC,
         vars, transportVars, threadVars, frameVars, historyVars, Threads, Goto, CloseFrame, Return
<1>1. CASE \E p \in Producers : Publish(p)
  BY <1>1 DEF Publish
<1>2. CASE \E p \in Producers : CheckClosed(p)
  BY <1>2 DEF CheckClosed
<1>3. CASE \E p \in Producers : Swap(p)
  BY <1>3 DEF Swap
<1>4. CASE \E p \in Producers : DropSkipped(p)
  BY <1>4 DEF DropSkipped
<1>5. CASE \E p \in Producers : RecheckClosed(p)
  BY <1>5 DEF RecheckClosed
<1>6. CASE \E p \in Producers : Retract(p)
  BY <1>6 DEF Retract
<1>7. CASE \E p \in Producers : ReadListener(p)
  BY <1>7 DEF ReadListener
<1>8. CASE \E p \in Producers : ConfirmPending(p)
  BY <1>8 DEF ConfirmPending
<1>9. CASE \E p \in Producers : Notify(p)
  BY <1>9 DEF Notify
<1>10. CASE \E c \in Closers : BeginClose(c)
  BY <1>10 DEF BeginClose
<1>11. CASE \E c \in Closers : DetachListener(c)
  BY <1>11 DEF DetachListener
<1>12. CASE \E c \in Closers : DrainPending(c)
  BY <1>12 DEF DrainPending
<1>13. CASE \E c \in Closers : ReleaseDrained(c)
  BY <1>13 DEF ReleaseDrained
<1>14. CASE \E s \in Subscribers : Subscribe(s)
  BY <1>14 DEF Subscribe
<1>15. CASE \E s \in Subscribers : Register(s)
  BY <1>15 DEF Register
<1>16. CASE \E s \in Subscribers : ReopenCheck(s)
  BY <1>16 DEF ReopenCheck
<1>17. CASE \E s \in Subscribers : Revert(s)
  BY <1>17 DEF Revert
<1>18. CASE \E s \in Subscribers : Unsubscribe(s)
  BY <1>18 DEF Unsubscribe
<1>19. CASE AcquireLatest
  BY <1>19 DEF AcquireLatest
<1>20. CASE \E f \in Frames : ConsumerClose(f)
  BY <1>20 DEF ConsumerClose
<1>21. CASE UNCHANGED vars
  BY <1>21
<1> QED
  BY <1>1, <1>2, <1>3, <1>4, <1>5, <1>6, <1>7, <1>8, <1>9, <1>10,
     <1>11, <1>12, <1>13, <1>14, <1>15, <1>16, <1>17, <1>18, <1>19, <1>20, <1>21
     DEF Next, ProducerStep, CloserStep, SubscriberStep

\* Only the call that found the transport open gets to drain it.
LEMMA OneDrainStep ==
  ASSUME TypeOK, ClosedSeen, OneDrain, [Next]_vars
  PROVE  OneDrain'
<1> USE ConstantsAssumption DEF ClosedSeen, OneDrain,
         TypeOK, SharedOK, ThreadsOK, FramesOK, FrameOrNull, ListenerOrNull, ProducerPC, CloserPC, SubscriberPC,
         vars, transportVars, threadVars, frameVars, historyVars, Threads, Goto, CloseFrame, Return
<1>1. CASE \E p \in Producers : Publish(p)
  BY <1>1 DEF Publish
<1>2. CASE \E p \in Producers : CheckClosed(p)
  BY <1>2 DEF CheckClosed
<1>3. CASE \E p \in Producers : Swap(p)
  BY <1>3 DEF Swap
<1>4. CASE \E p \in Producers : DropSkipped(p)
  BY <1>4 DEF DropSkipped
<1>5. CASE \E p \in Producers : RecheckClosed(p)
  BY <1>5 DEF RecheckClosed
<1>6. CASE \E p \in Producers : Retract(p)
  BY <1>6 DEF Retract
<1>7. CASE \E p \in Producers : ReadListener(p)
  BY <1>7 DEF ReadListener
<1>8. CASE \E p \in Producers : ConfirmPending(p)
  BY <1>8 DEF ConfirmPending
<1>9. CASE \E p \in Producers : Notify(p)
  BY <1>9 DEF Notify
<1>10. CASE \E c \in Closers : BeginClose(c)
  BY <1>10 DEF BeginClose
<1>11. CASE \E c \in Closers : DetachListener(c)
  BY <1>11 DEF DetachListener
<1>12. CASE \E c \in Closers : DrainPending(c)
  BY <1>12 DEF DrainPending
<1>13. CASE \E c \in Closers : ReleaseDrained(c)
  BY <1>13 DEF ReleaseDrained
<1>14. CASE \E s \in Subscribers : Subscribe(s)
  BY <1>14 DEF Subscribe
<1>15. CASE \E s \in Subscribers : Register(s)
  BY <1>15 DEF Register
<1>16. CASE \E s \in Subscribers : ReopenCheck(s)
  BY <1>16 DEF ReopenCheck
<1>17. CASE \E s \in Subscribers : Revert(s)
  BY <1>17 DEF Revert
<1>18. CASE \E s \in Subscribers : Unsubscribe(s)
  BY <1>18 DEF Unsubscribe
<1>19. CASE AcquireLatest
  BY <1>19 DEF AcquireLatest
<1>20. CASE \E f \in Frames : ConsumerClose(f)
  BY <1>20 DEF ConsumerClose
<1>21. CASE UNCHANGED vars
  BY <1>21
<1> QED
  BY <1>1, <1>2, <1>3, <1>4, <1>5, <1>6, <1>7, <1>8, <1>9, <1>10,
     <1>11, <1>12, <1>13, <1>14, <1>15, <1>16, <1>17, <1>18, <1>19, <1>20, <1>21
     DEF Next, ProducerStep, CloserStep, SubscriberStep

\* Nobody lays hands on a frame that close() has taken.
LEMMA DrainedStep ==
  ASSUME TypeOK, LocalsOK, OnePlace, DeliveredLeft, RefusedNeverDelivered, WatchingOK,
         ResultsOK, OneDrain, DrainedOK, [Next]_vars
  PROVE  DrainedOK'
<1> USE ConstantsAssumption DEF LocalsOK, OnePlace, DeliveredLeft, RefusedNeverDelivered,
         WatchingOK, ResultsOK, OneDrain, DrainedOK, Drained, Owns,
         TypeOK, SharedOK, ThreadsOK, FramesOK, FrameOrNull, ListenerOrNull, ProducerPC, CloserPC, SubscriberPC,
         vars, transportVars, threadVars, frameVars, historyVars, Threads, Goto, CloseFrame, Return
<1>1. CASE \E p \in Producers : Publish(p)
  BY <1>1 DEF Publish
<1>2. CASE \E p \in Producers : CheckClosed(p)
  BY <1>2 DEF CheckClosed
<1>3. CASE \E p \in Producers : Swap(p)
  BY <1>3 DEF Swap
<1>4. CASE \E p \in Producers : DropSkipped(p)
  BY <1>4 DEF DropSkipped
<1>5. CASE \E p \in Producers : RecheckClosed(p)
  BY <1>5 DEF RecheckClosed
<1>6. CASE \E p \in Producers : Retract(p)
  BY <1>6 DEF Retract
<1>7. CASE \E p \in Producers : ReadListener(p)
  BY <1>7 DEF ReadListener
<1>8. CASE \E p \in Producers : ConfirmPending(p)
  BY <1>8 DEF ConfirmPending
<1>9. CASE \E p \in Producers : Notify(p)
  BY <1>9 DEF Notify
<1>10. CASE \E c \in Closers : BeginClose(c)
  BY <1>10 DEF BeginClose
<1>11. CASE \E c \in Closers : DetachListener(c)
  BY <1>11 DEF DetachListener
<1>12. CASE \E c \in Closers : DrainPending(c)
  BY <1>12 DEF DrainPending
<1>13. CASE \E c \in Closers : ReleaseDrained(c)
  BY <1>13 DEF ReleaseDrained
<1>14. CASE \E s \in Subscribers : Subscribe(s)
  BY <1>14 DEF Subscribe
<1>15. CASE \E s \in Subscribers : Register(s)
  BY <1>15 DEF Register
<1>16. CASE \E s \in Subscribers : ReopenCheck(s)
  BY <1>16 DEF ReopenCheck
<1>17. CASE \E s \in Subscribers : Revert(s)
  BY <1>17 DEF Revert
<1>18. CASE \E s \in Subscribers : Unsubscribe(s)
  BY <1>18 DEF Unsubscribe
<1>19. CASE AcquireLatest
  BY <1>19 DEF AcquireLatest
<1>20. CASE \E f \in Frames : ConsumerClose(f)
  BY <1>20 DEF ConsumerClose
<1>21. CASE UNCHANGED vars
  BY <1>21
<1> QED
  BY <1>1, <1>2, <1>3, <1>4, <1>5, <1>6, <1>7, <1>8, <1>9, <1>10,
     <1>11, <1>12, <1>13, <1>14, <1>15, <1>16, <1>17, <1>18, <1>19, <1>20, <1>21
     DEF Next, ProducerStep, CloserStep, SubscriberStep

\* Two sets that differ in one element, which the second has.
LEMMA AddsOne ==
  ASSUME NEW D \in SUBSET Frames, NEW E \in SUBSET Frames, NEW g \in E,
         \A f \in Frames : f # g => (f \in E <=> f \in D)
  PROVE  E = D \cup {g}
  OBVIOUS

\* The displaced frames can be counted.
LEMMA DisplacedFinite == IsFiniteSet(Displaced)
  BY ConstantsAssumption, FS_Subset DEF Displaced

\* Closing a displaced frame adds one to the displaced ones.
LEMMA OneMoreDisplaced ==
  ASSUME TypeOK, LocalsOK, OnePlace, DeliveredLeft, RefusedNeverDelivered, DrainedOK,
         NEW p \in Producers, DropSkipped(p)
  PROVE  Cardinality(Displaced') = Cardinality(Displaced) + 1
<1>1. /\ pc[p] = "drop" /\ removed[p] \in Frames
      /\ releases' = [releases EXCEPT ![removed[p]] = @ + 1]
      /\ UNCHANGED <<removed, result, delivered>>
  BY DEF DropSkipped, Goto, LocalsOK, CloseFrame, historyVars
<1>2. /\ releases \in [Frames -> Nat]
      /\ Owns(p, removed[p])
  BY <1>1 DEF TypeOK, FramesOK, Owns
<1>3. /\ releases[removed[p]] = 0
      /\ removed[p] \notin delivered
      /\ ~Drained(removed[p])
  BY <1>1, <1>2 DEF OnePlace, DeliveredLeft, DrainedOK, Threads
<1>4. result[removed[p]] # "false"
  BY <1>1, <1>3 DEF RefusedNeverDelivered
<1>5. removed[p] \notin Displaced
  BY <1>3 DEF Displaced
<1>6. removed[p] \in Displaced'
  BY <1>1, <1>2, <1>3, <1>4 DEF Displaced, Drained
<1>7. \A f \in Frames : f # removed[p] => (f \in Displaced' <=> f \in Displaced)
  BY <1>1, <1>2 DEF Displaced, Drained
<1>8. Displaced \in SUBSET Frames /\ Displaced' \in SUBSET Frames
  BY DEF Displaced
<1>9. Displaced' = Displaced \cup {removed[p]}
  BY <1>6, <1>7, <1>8, AddsOne
<1> QED
  BY <1>5, <1>9, DisplacedFinite, FS_AddElement

\* The step that counts a frame is the one that releases it displaced.
LEMMA CountStep ==
  ASSUME TypeOK, LocalsOK, OnePlace, DeliveredLeft, RefusedNeverDelivered, WatchingOK,
         ResultsOK, OneDrain, DrainedOK, CountOK, [Next]_vars
  PROVE  CountOK'
<1> USE ConstantsAssumption DEF LocalsOK, OnePlace, DeliveredLeft, RefusedNeverDelivered,
         WatchingOK, ResultsOK, OneDrain, DrainedOK, Drained, Displaced, Owns,
         TypeOK, SharedOK, ThreadsOK, FramesOK, FrameOrNull, ListenerOrNull, ProducerPC, CloserPC, SubscriberPC,
         vars, transportVars, threadVars, frameVars, historyVars, Threads, Goto, CloseFrame, Return
<1>1. CASE \E p \in Producers : Publish(p)
  <2>1. Displaced' = Displaced
    BY <1>1 DEF Publish
  <2> QED
    BY <1>1, <2>1 DEF CountOK, Publish
<1>2. CASE \E p \in Producers : CheckClosed(p)
  <2>1. Displaced' = Displaced
    BY <1>2 DEF CheckClosed
  <2> QED
    BY <1>2, <2>1 DEF CountOK, CheckClosed
<1>3. CASE \E p \in Producers : Swap(p)
  <2>1. Displaced' = Displaced
    BY <1>3 DEF Swap
  <2> QED
    BY <1>3, <2>1 DEF CountOK, Swap
<1>4. CASE \E p \in Producers : DropSkipped(p)
  <2>1. PICK p \in Producers : DropSkipped(p)
    BY <1>4
  <2>2. Cardinality(Displaced') = Cardinality(Displaced) + 1
    BY <2>1, OneMoreDisplaced
  <2> QED
    BY <2>1, <2>2 DEF CountOK, DropSkipped
<1>5. CASE \E p \in Producers : RecheckClosed(p)
  <2>1. Displaced' = Displaced
    BY <1>5 DEF RecheckClosed
  <2> QED
    BY <1>5, <2>1 DEF CountOK, RecheckClosed
<1>6. CASE \E p \in Producers : Retract(p)
  <2>1. Displaced' = Displaced
    BY <1>6 DEF Retract
  <2> QED
    BY <1>6, <2>1 DEF CountOK, Retract
<1>7. CASE \E p \in Producers : ReadListener(p)
  <2>1. Displaced' = Displaced
    BY <1>7 DEF ReadListener
  <2> QED
    BY <1>7, <2>1 DEF CountOK, ReadListener
<1>8. CASE \E p \in Producers : ConfirmPending(p)
  <2>1. Displaced' = Displaced
    BY <1>8 DEF ConfirmPending
  <2> QED
    BY <1>8, <2>1 DEF CountOK, ConfirmPending
<1>9. CASE \E p \in Producers : Notify(p)
  <2>1. Displaced' = Displaced
    BY <1>9 DEF Notify
  <2> QED
    BY <1>9, <2>1 DEF CountOK, Notify
<1>10. CASE \E c \in Closers : BeginClose(c)
  <2>1. Displaced' = Displaced
    BY <1>10 DEF BeginClose
  <2> QED
    BY <1>10, <2>1 DEF CountOK, BeginClose
<1>11. CASE \E c \in Closers : DetachListener(c)
  <2>1. Displaced' = Displaced
    BY <1>11 DEF DetachListener
  <2> QED
    BY <1>11, <2>1 DEF CountOK, DetachListener
<1>12. CASE \E c \in Closers : DrainPending(c)
  <2>1. Displaced' = Displaced
    BY <1>12 DEF DrainPending
  <2> QED
    BY <1>12, <2>1 DEF CountOK, DrainPending
<1>13. CASE \E c \in Closers : ReleaseDrained(c)
  <2>1. Displaced' = Displaced
    BY <1>13 DEF ReleaseDrained
  <2> QED
    BY <1>13, <2>1 DEF CountOK, ReleaseDrained
<1>14. CASE \E s \in Subscribers : Subscribe(s)
  <2>1. Displaced' = Displaced
    BY <1>14 DEF Subscribe
  <2> QED
    BY <1>14, <2>1 DEF CountOK, Subscribe
<1>15. CASE \E s \in Subscribers : Register(s)
  <2>1. Displaced' = Displaced
    BY <1>15 DEF Register
  <2> QED
    BY <1>15, <2>1 DEF CountOK, Register
<1>16. CASE \E s \in Subscribers : ReopenCheck(s)
  <2>1. Displaced' = Displaced
    BY <1>16 DEF ReopenCheck
  <2> QED
    BY <1>16, <2>1 DEF CountOK, ReopenCheck
<1>17. CASE \E s \in Subscribers : Revert(s)
  <2>1. Displaced' = Displaced
    BY <1>17 DEF Revert
  <2> QED
    BY <1>17, <2>1 DEF CountOK, Revert
<1>18. CASE \E s \in Subscribers : Unsubscribe(s)
  <2>1. Displaced' = Displaced
    BY <1>18 DEF Unsubscribe
  <2> QED
    BY <1>18, <2>1 DEF CountOK, Unsubscribe
<1>19. CASE AcquireLatest
  <2>1. Displaced' = Displaced
    BY <1>19 DEF AcquireLatest
  <2> QED
    BY <1>19, <2>1 DEF CountOK, AcquireLatest
<1>20. CASE \E f \in Frames : ConsumerClose(f)
  <2>1. Displaced' = Displaced
    BY <1>20 DEF ConsumerClose
  <2> QED
    BY <1>20, <2>1 DEF CountOK, ConsumerClose
<1>21. CASE UNCHANGED vars
  BY <1>21 DEF CountOK, Displaced, Drained
<1> QED
  BY <1>1, <1>2, <1>3, <1>4, <1>5, <1>6, <1>7, <1>8, <1>9, <1>10,
     <1>11, <1>12, <1>13, <1>14, <1>15, <1>16, <1>17, <1>18, <1>19, <1>20, <1>21
     DEF Next, ProducerStep, CloserStep, SubscriberStep
\* The books are kept along with the ownership discipline.
LEMMA BooksStep == IInv /\ Books /\ [Next]_vars => Books'
  BY ResultsStep, OneDrainStep, DrainedStep, CountStep DEF IInv, Books

\* Before the first call every frame is new and nothing has been counted.
LEMMA InitBooks == Init => Books
<1> SUFFICES ASSUME Init PROVE Books
  OBVIOUS
<1> USE ConstantsAssumption
<1>1. ResultsOK
  BY DEF Init, ResultsOK, Threads
<1>2. OneDrain /\ DrainedOK
  BY DEF Init, OneDrain, DrainedOK, Drained, Threads
<1>3. Displaced = {}
  BY DEF Init, Displaced
<1>4. CountOK
  BY <1>3, FS_EmptySet DEF Init, CountOK
<1> QED
  BY <1>1, <1>2, <1>4 DEF Books

\* Between calls, the accepted frames that are neither pending nor delivered
\* are those that a newer one displaced and the one that close() drained.
LEMMA GoneFrames ==
  ASSUME IInv, Books, Quiescent
  PROVE  {f \in Frames : result[f] = "true" /\ f \notin delivered /\ f # pending}
           = Displaced \cup {f \in Frames : Drained(f)}
<1> DEFINE gone == {f \in Frames : result[f] = "true" /\ f \notin delivered /\ f # pending}
<1>1. ASSUME NEW f \in Frames, NEW t \in Threads
      PROVE  ~Owns(t, f)
  BY DEF Quiescent, Owns
<1>2. \A f \in Frames \ fresh : result[f] # "none"
  BY DEF Books, ResultsOK, Quiescent, Threads, IInv, TypeOK, ThreadsOK, ProducerPC
<1>3. ASSUME NEW f \in gone
      PROVE  f \in Displaced \/ Drained(f)
  <2>1. f \notin fresh /\ f \notin acquired
    BY DEF Books, ResultsOK
  <2>2. releases[f] >= 1
    BY <1>1, <2>1 DEF IInv, NoFrameLost
  <2> QED
    BY <2>2 DEF Displaced
<1>4. ASSUME NEW f \in Displaced
      PROVE  f \in gone
  <2>1. f \notin fresh /\ pending # f
    BY DEF IInv, TypeOK, FramesOK, OnePlace, Displaced
  <2>2. result[f] = "true"
    BY <1>2, <2>1 DEF Displaced, IInv, TypeOK, FramesOK
  <2> QED
    BY <2>1, <2>2 DEF Displaced
<1>5. ASSUME NEW f \in Frames, Drained(f)
      PROVE  f \in gone
  <2>1. f \notin fresh /\ f \notin delivered /\ pending # f /\ result[f] # "false"
    BY <1>5 DEF Books, DrainedOK
  <2>2. result[f] = "true"
    BY <1>2, <2>1 DEF IInv, TypeOK, FramesOK
  <2> QED
    BY <2>1, <2>2
<1>6. Displaced \subseteq Frames /\ gone \subseteq Frames
  BY DEF Displaced
<1> QED
  BY <1>3, <1>4, <1>5, <1>6

\* droppedFrames() counts the frames that a newer one displaced: all the
\* accepted ones that are neither pending nor delivered, but for the one that
\* close() may have drained.
THEOREM DropsAccounted == Spec => []DropAccounting
<1>1. ASSUME IInv, Books, Quiescent
      PROVE  LET gone == {f \in Frames : result[f] = "true" /\ f \notin delivered /\ f # pending}
             IN  \/ droppedFrames = Cardinality(gone)
                 \/ closed /\ droppedFrames + 1 = Cardinality(gone)
  <2> DEFINE gone == {f \in Frames : result[f] = "true" /\ f \notin delivered /\ f # pending}
             drained == {f \in Frames : Drained(f)}
  <2>1. gone = Displaced \cup drained
    BY <1>1, GoneFrames
  <2>2. droppedFrames = Cardinality(Displaced)
    BY <1>1 DEF Books, CountOK
  <2>3. IsFiniteSet(Displaced)
    BY DisplacedFinite
  <2>4. CASE drained = {}
    BY <2>1, <2>2, <2>4
  <2>5. CASE drained # {}
    <3>1. PICK c \in Closers : removed[c] \in Frames
      BY <2>5 DEF Drained
    <3>2. drained = {removed[c]} /\ closed
      BY <1>1, <3>1, ConstantsAssumption DEF Books, OneDrain, Drained
    <3>3. removed[c] \notin Displaced
      BY <3>1 DEF Displaced, Drained
    <3>4. Cardinality(gone) = Cardinality(Displaced) + 1
      BY <2>1, <2>3, <3>2, <3>3, FS_AddElement
    <3> QED
      BY <2>2, <3>2, <3>4
  <2> QED
    BY <2>4, <2>5
<1>2. IInv /\ Books => DropAccounting
  BY <1>1 DEF DropAccounting
<1>3. Spec => []Books
  BY Ownership, InitBooks, BooksStep, PTL DEF Spec
<1> QED
  BY Ownership, <1>2, <1>3, PTL

-----------------------------------------------------------------------------
(* The transport implements the mailbox: each step moves one frame, or the *)
(* published and the displaced one, as FrameMailbox allows, or none.       *)

\* The frame f moves, the others stay where they are.
LEMMA MovesOne ==
  ASSUME NEW f \in Frames, NEW from, NEW to,
         StageOf(f) = from, StageOf(f)' = to,
         \A g \in Frames \ {f} : StageOf(g)' = StageOf(g)
  PROVE  Mailbox!Move(f, from, to)
BY DEF Mailbox!Move

\* No frame moves and the mailbox is not closed: a stutter of the mailbox.
LEMMA MovesNone ==
  ASSUME \A g \in Frames : StageOf(g)' = StageOf(g), closed' = closed
  PROVE  UNCHANGED Mailbox!vars
BY DEF Mailbox!vars

\* Every step of the transport is a step of the mailbox or a stutter.
LEMMA MailboxStep ==
  ASSUME IInv, [Next]_vars
  PROVE  [Mailbox!Next]_(Mailbox!vars)
<1> USE ConstantsAssumption DEF IInv
<1> DEFINE Same == \A g \in Frames : StageOf(g)' = StageOf(g)
<1> DEFINE SameBut(f) == \A g \in Frames \ {f} : StageOf(g)' = StageOf(g)
<1> HIDE DEF Same, SameBut
<1> USE DEF OnePlace, LocalsOK, ClosedSeen, Owns, StageOf, TypeOK, SharedOK, ThreadsOK,
        FramesOK, FrameOrNull, ListenerOrNull, ProducerPC, CloserPC, SubscriberPC,
        vars, transportVars, threadVars, frameVars, historyVars, Threads, Goto,
        CloseFrame
<1>1. ASSUME NEW p \in Producers, Publish(p) PROVE Mailbox!Next
  <2>0. PICK f \in Frames : f \in fresh /\ f = frame'[p]
    BY <1>1 DEF Publish
  <2>1. StageOf(f) = "new" /\ StageOf(f)' = "offered"
    BY <1>1, <2>0 DEF Publish
  <2>2. SameBut(f)
    BY <1>1, <2>0 DEF Publish, SameBut
  <2>3. closed' = closed
    BY <1>1 DEF Publish
  <2>4. Mailbox!Move(f, "new", "offered")
    BY <2>1, <2>2, MovesOne DEF SameBut
  <2> QED
    BY <2>3, <2>4 DEF Mailbox!Offer, Mailbox!Next
<1>2. ASSUME NEW p \in Producers, CheckClosed(p) PROVE [Mailbox!Next]_(Mailbox!vars)
  <2>1. CASE closed
    <3>0. PICK f \in Frames : f = frame[p]
      BY <1>2, <2>1 DEF CheckClosed
    <3>1. StageOf(f) = "offered" /\ StageOf(f)' = "released"
      BY <1>2, <2>1, <3>0 DEF CheckClosed
    <3>2. SameBut(f)
      BY <1>2, <2>1, <3>0 DEF CheckClosed, SameBut
    <3>3. closed' = closed /\ closed
      BY <1>2, <2>1 DEF CheckClosed
    <3>4. Mailbox!Move(f, "offered", "released")
      BY <3>1, <3>2, MovesOne DEF SameBut
    <3> QED
      BY <3>3, <3>4 DEF Mailbox!Refuse, Mailbox!Next
  <2>2. CASE ~(closed)
    BY <1>2, <2>2, MovesNone DEF CheckClosed
  <2> QED
    BY <2>1, <2>2
<1>3. ASSUME NEW p \in Producers, Swap(p) PROVE Mailbox!Next
  <2>0. PICK f \in Frames : f = frame[p]
    BY <1>3 DEF Swap
  <2>1. StageOf(f) = "offered"
    BY <1>3, <2>0 DEF Swap
  <2>2. \A g \in Frames : StageOf(g)' = IF g = f THEN "pending"
                                     ELSE IF StageOf(g) = "pending" THEN "retiring"
                                     ELSE StageOf(g)
    BY <1>3, <2>0 DEF Swap
  <2>3. closed' = closed
    BY <1>3 DEF Swap
  <2>4. Mailbox!Put(f)
    BY <2>1, <2>2, <2>3 DEF Mailbox!Put, Mailbox!Waiting
  <2> QED
    BY <2>4 DEF Mailbox!Next
<1>4. ASSUME NEW p \in Producers, DropSkipped(p) PROVE Mailbox!Next
  <2>0. PICK f \in Frames : f = removed[p]
    BY <1>4 DEF DropSkipped
  <2>1. StageOf(f) = "retiring" /\ StageOf(f)' = "released"
    BY <1>4, <2>0 DEF DropSkipped
  <2>2. SameBut(f)
    BY <1>4, <2>0 DEF DropSkipped, SameBut
  <2>3. closed' = closed
    BY <1>4 DEF DropSkipped
  <2>4. Mailbox!Move(f, "retiring", "released")
    BY <2>1, <2>2, MovesOne DEF SameBut
  <2> QED
    BY <2>3, <2>4 DEF Mailbox!Release, Mailbox!Next
<1>5. ASSUME NEW p \in Producers, RecheckClosed(p) PROVE UNCHANGED Mailbox!vars
  BY <1>5, MovesNone DEF RecheckClosed
<1>6. ASSUME NEW p \in Producers, Retract(p) PROVE [Mailbox!Next]_(Mailbox!vars)
  <2>1. CASE pending = frame[p]
    <3>0. PICK f \in Frames : f = frame[p]
      BY <1>6, <2>1 DEF Retract
    <3>1. StageOf(f) = "pending" /\ StageOf(f)' = "released"
      BY <1>6, <2>1, <3>0 DEF Retract
    <3>2. SameBut(f)
      BY <1>6, <2>1, <3>0 DEF Retract, SameBut
    <3>3. closed' = closed /\ closed
      BY <1>6, <2>1 DEF Retract
    <3>4. Mailbox!Move(f, "pending", "released")
      BY <3>1, <3>2, MovesOne DEF SameBut
    <3> QED
      BY <3>3, <3>4 DEF Mailbox!Drain, Mailbox!Next
  <2>2. CASE ~(pending = frame[p])
    BY <1>6, <2>2, MovesNone DEF Retract
  <2> QED
    BY <2>1, <2>2
<1>7. ASSUME NEW p \in Producers, ReadListener(p) PROVE UNCHANGED Mailbox!vars
  BY <1>7, MovesNone DEF ReadListener
<1>8. ASSUME NEW p \in Producers, ConfirmPending(p) PROVE UNCHANGED Mailbox!vars
  BY <1>8, MovesNone DEF ConfirmPending
<1>9. ASSUME NEW p \in Producers, Notify(p) PROVE UNCHANGED Mailbox!vars
  BY <1>9, MovesNone DEF Notify
<1>10. ASSUME NEW c \in Closers, BeginClose(c) PROVE Mailbox!Next
  <2>1. Same
    BY <1>10 DEF BeginClose, Same
  <2>2. ~closed /\ closed' = TRUE
    BY <1>10 DEF BeginClose
  <2> QED
    BY <2>1, <2>2 DEF Mailbox!Close, Mailbox!Next, Same
<1>11. ASSUME NEW c \in Closers, DetachListener(c) PROVE UNCHANGED Mailbox!vars
  BY <1>11, MovesNone DEF DetachListener
<1>12. ASSUME NEW c \in Closers, DrainPending(c) PROVE [Mailbox!Next]_(Mailbox!vars)
  <2>1. CASE pending # NoFrame
    <3>0. PICK f \in Frames : f = pending
      BY <1>12, <2>1 DEF DrainPending
    <3>1. StageOf(f) = "pending" /\ StageOf(f)' = "retiring"
      BY <1>12, <2>1, <3>0 DEF DrainPending
    <3>2. SameBut(f)
      BY <1>12, <2>1, <3>0 DEF DrainPending, SameBut
    <3>3. closed' = closed /\ closed
      BY <1>12, <2>1 DEF DrainPending
    <3>4. Mailbox!Move(f, "pending", "retiring")
      BY <3>1, <3>2, MovesOne DEF SameBut
    <3> QED
      BY <3>3, <3>4 DEF Mailbox!Drain, Mailbox!Next
  <2>2. CASE ~(pending # NoFrame)
    BY <1>12, <2>2, MovesNone DEF DrainPending
  <2> QED
    BY <2>1, <2>2
<1>13. ASSUME NEW c \in Closers, ReleaseDrained(c) PROVE Mailbox!Next
  <2>0. PICK f \in Frames : f = removed[c]
    BY <1>13 DEF ReleaseDrained
  <2>1. StageOf(f) = "retiring" /\ StageOf(f)' = "released"
    BY <1>13, <2>0 DEF ReleaseDrained
  <2>2. SameBut(f)
    BY <1>13, <2>0 DEF ReleaseDrained, SameBut
  <2>3. closed' = closed
    BY <1>13 DEF ReleaseDrained
  <2>4. Mailbox!Move(f, "retiring", "released")
    BY <2>1, <2>2, MovesOne DEF SameBut
  <2> QED
    BY <2>3, <2>4 DEF Mailbox!Release, Mailbox!Next
<1>14. ASSUME NEW s \in Subscribers, Subscribe(s) PROVE UNCHANGED Mailbox!vars
  BY <1>14, MovesNone DEF Subscribe
<1>15. ASSUME NEW s \in Subscribers, Register(s) PROVE UNCHANGED Mailbox!vars
  BY <1>15, MovesNone DEF Register
<1>16. ASSUME NEW s \in Subscribers, ReopenCheck(s) PROVE UNCHANGED Mailbox!vars
  BY <1>16, MovesNone DEF ReopenCheck
<1>17. ASSUME NEW s \in Subscribers, Revert(s) PROVE UNCHANGED Mailbox!vars
  BY <1>17, MovesNone DEF Revert
<1>18. ASSUME NEW s \in Subscribers, Unsubscribe(s) PROVE UNCHANGED Mailbox!vars
  BY <1>18, MovesNone DEF Unsubscribe
<1>19. ASSUME AcquireLatest PROVE Mailbox!Next
  <2>0. PICK f \in Frames : f = pending
    BY <1>19 DEF AcquireLatest
  <2>1. StageOf(f) = "pending" /\ StageOf(f)' = "acquired"
    BY <1>19, <2>0 DEF AcquireLatest
  <2>2. SameBut(f)
    BY <1>19, <2>0 DEF AcquireLatest, SameBut
  <2>3. closed' = closed
    BY <1>19 DEF AcquireLatest
  <2>4. Mailbox!Move(f, "pending", "acquired")
    BY <2>1, <2>2, MovesOne DEF SameBut
  <2> QED
    BY <2>3, <2>4 DEF Mailbox!Take, Mailbox!Next
<1>20. ASSUME NEW h \in Frames, ConsumerClose(h) PROVE Mailbox!Next
  <2>0. PICK f \in Frames : f = h
    BY <1>20 DEF ConsumerClose
  <2>1. StageOf(f) = "acquired" /\ StageOf(f)' = "released"
    BY <1>20, <2>0 DEF ConsumerClose
  <2>2. SameBut(f)
    BY <1>20, <2>0 DEF ConsumerClose, SameBut
  <2>3. closed' = closed
    BY <1>20 DEF ConsumerClose
  <2>4. Mailbox!Move(f, "acquired", "released")
    BY <2>1, <2>2, MovesOne DEF SameBut
  <2> QED
    BY <2>3, <2>4 DEF Mailbox!Release, Mailbox!Next
<1>21. CASE UNCHANGED vars
  BY <1>21, MovesNone
<1> QED
  BY <1>1, <1>2, <1>3, <1>4, <1>5, <1>6, <1>7, <1>8, <1>9, <1>10,
     <1>11, <1>12, <1>13, <1>14, <1>15, <1>16, <1>17, <1>18, <1>19, <1>20, <1>21
     DEF Next, ProducerStep, CloserStep, SubscriberStep

\* Every behaviour of the transport is, step by step, one of the mailbox.
THEOREM ImplementsMailbox == Spec => MailboxSteps
<1>1. Init => Mailbox!Init
  BY DEF Init, Mailbox!Init, StageOf
<1> QED
  BY <1>1, MailboxStep, Ownership, PTL DEF Spec, MailboxSteps
=============================================================================
