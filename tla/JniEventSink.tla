---------------------------- MODULE JniEventSink ----------------------------
(***************************************************************************)
(* native/src/kmediavlc_jni.cpp, class JniEventSink: libVLC's threads call *)
(* a Java listener through a global reference, and destroyPlayer() deletes *)
(* that reference as soon as no callback uses it.  The callbacks count     *)
(* themselves in an atomic; a condition variable tells the deleting thread *)
(* that the count has come down to zero.  Every access to an atomic, to    *)
(* the mutex or to the condition variable is a step, in one total order.   *)
(***************************************************************************)
EXTENDS Naturals, FiniteSets

CONSTANTS Callbacks,   \* threads of libVLC that notify the listener
          Releaser,    \* the thread in disable_and_release()
          Nobody       \* active_mutex_ is free

ASSUME SinkAssumption ==
  /\ IsFiniteSet(Callbacks)
  /\ Releaser \notin Callbacks
  /\ Nobody \notin Callbacks \cup {Releaser}

Threads == Callbacks \cup {Releaser}

VARIABLES
  enabled,   \* enabled_
  active,    \* active_callbacks_
  mutex,     \* active_mutex_
  object,    \* is object_ a global reference?
  pc         \* where each thread is; "idle" outside the class

vars == <<enabled, active, mutex, object, pc>>

CallbackPC == {"idle", "count", "recheck", "invoke", "finish", "lock", "notify"}
ReleaserPC == {"idle", "lock", "test", "wait", "waiting", "delete", "released"}

\* The callbacks that active_callbacks_ counts.
Counted == {t \in Callbacks : pc[t] \in {"recheck", "invoke", "finish"}}

TypeOK ==
  /\ enabled \in BOOLEAN
  /\ active \in Nat
  /\ mutex \in Threads \cup {Nobody}
  /\ object \in BOOLEAN
  /\ pc \in [Threads -> CallbackPC \cup ReleaserPC]
  /\ \A t \in Callbacks : pc[t] \in CallbackPC
  /\ pc[Releaser] \in ReleaserPC

Init ==
  /\ enabled = TRUE
  /\ active = 0
  /\ mutex = Nobody
  /\ object = TRUE
  /\ pc = [t \in Threads |-> "idle"]

Goto(t, from, to) == pc[t] = from /\ pc' = [pc EXCEPT ![t] = to]

-----------------------------------------------------------------------------
(* CallbackGuard and invoke() *)

CheckEnabled(t) ==
  /\ Goto(t, "idle", IF enabled THEN "count" ELSE "idle")
  /\ UNCHANGED <<enabled, active, mutex, object>>

Count(t) ==
  /\ Goto(t, "count", "recheck")
  /\ active' = active + 1
  /\ UNCHANGED <<enabled, mutex, object>>

\* Mutant: enabled_ is looked at once only, before the count.
RecheckNothing(t) ==
  /\ Goto(t, "recheck", "invoke")
  /\ UNCHANGED <<enabled, active, mutex, object>>

\* Mutant: the early return of the guard forgets finish().
RecheckLeaking(t) ==
  /\ Goto(t, "recheck", IF enabled THEN "invoke" ELSE "idle")
  /\ UNCHANGED <<enabled, active, mutex, object>>

Recheck(t) ==
  /\ Goto(t, "recheck", IF enabled THEN "invoke" ELSE "finish")
  /\ UNCHANGED <<enabled, active, mutex, object>>

\* CallVoidMethod on the global reference, if there is one.
Invoke(t) ==
  /\ Goto(t, "invoke", "finish")
  /\ UNCHANGED <<enabled, active, mutex, object>>

\* Mutant: the value before fetch_sub is taken for the value after it.
FinishOffByOne(t) ==
  /\ Goto(t, "finish", IF active = 0 THEN "lock" ELSE "idle")
  /\ active' = active - 1
  /\ UNCHANGED <<enabled, mutex, object>>

\* Mutant: the destructor of the guard finishes once more.
FinishTwice(t) ==
  /\ Goto(t, "finish", IF active = 1 THEN "lock" ELSE "finish")
  /\ active' = active - 1
  /\ UNCHANGED <<enabled, mutex, object>>

Finish(t) ==
  /\ Goto(t, "finish", IF active = 1 THEN "lock" ELSE "idle")
  /\ active' = active - 1
  /\ UNCHANGED <<enabled, mutex, object>>

LockToNotify(t) ==
  /\ mutex = Nobody
  /\ mutex' = t
  /\ Goto(t, "lock", "notify")
  /\ UNCHANGED <<enabled, active, object>>

\* Mutant: the lock is taken and nobody is woken.
LockWithoutNotify(t) ==
  /\ pc[t] = "notify"
  /\ pc' = [pc EXCEPT ![t] = "idle"]
  /\ mutex' = Nobody
  /\ UNCHANGED <<enabled, active, object>>

\* notify_all(), and the end of the lock's scope.
Notify(t) ==
  /\ pc[t] = "notify"
  /\ pc' = [pc EXCEPT ![t] = "idle",
                      ![Releaser] = IF @ = "waiting" THEN "lock" ELSE @]
  /\ mutex' = Nobody
  /\ UNCHANGED <<enabled, active, object>>

-----------------------------------------------------------------------------
(* disable_and_release() *)

Disable ==
  /\ Goto(Releaser, "idle", "lock")
  /\ enabled' = FALSE
  /\ UNCHANGED <<active, mutex, object>>

Lock ==
  /\ mutex = Nobody
  /\ mutex' = Releaser
  /\ Goto(Releaser, "lock", "test")
  /\ UNCHANGED <<enabled, active, object>>

\* The predicate of active_changed_.wait().
Test ==
  /\ Goto(Releaser, "test", IF active = 0 THEN "delete" ELSE "wait")
  /\ UNCHANGED <<enabled, active, mutex, object>>

\* The wait gives the mutex back as it begins.
Wait ==
  /\ Goto(Releaser, "wait", "waiting")
  /\ mutex' = Nobody
  /\ UNCHANGED <<enabled, active, object>>

WakeSpuriously ==
  /\ Goto(Releaser, "waiting", "lock")
  /\ UNCHANGED <<enabled, active, mutex, object>>

Delete ==
  /\ Goto(Releaser, "delete", "released")
  /\ object' = FALSE
  /\ mutex' = Nobody
  /\ UNCHANGED <<enabled, active>>

-----------------------------------------------------------------------------
CallbackStep(t) ==
  \/ Count(t) \/ Recheck(t) \/ Invoke(t) \/ Finish(t)
  \/ LockToNotify(t) \/ Notify(t)

ReleaserStep == Lock \/ Test \/ Wait \/ Delete

Next ==
  \/ \E t \in Callbacks : CheckEnabled(t) \/ CallbackStep(t)
  \/ Disable \/ ReleaserStep \/ WakeSpuriously

\* A listener "must return immediately" (VlcPlayerListener), no thread holds
\* active_mutex_ for ever, and who waits for it gets it in the end.  Nobody has
\* to notify, and no wait has to wake up by itself.
Fairness ==
  /\ \A t \in Callbacks : SF_vars(CallbackStep(t))
  /\ SF_vars(ReleaserStep)

Spec == Init /\ [][Next]_vars
FairSpec == Spec /\ Fairness

-----------------------------------------------------------------------------
(* Properties *)

\* The count is never off: neither the early return of the guard nor a late
\* callback leaves a thread uncounted while it may use the reference.
CountExact == active = Cardinality(Counted)

\* No callback calls through a reference that has been deleted, whatever the
\* order of the two checks of enabled_, the count and the deletion.
ReferenceOutlivesCalls == \A t \in Callbacks : pc[t] = "invoke" => object

\* The releasing thread never sleeps on a count of zero that nobody is going to
\* tell it about.
NoWakeupLost ==
  pc[Releaser] = "waiting" /\ active = 0 =>
    \E t \in Callbacks : pc[t] \in {"lock", "notify"}

\* destroyPlayer() does not hang in disable_and_release().
ReleaseReturns == pc[Releaser] # "idle" ~> pc[Releaser] = "released"
=============================================================================
