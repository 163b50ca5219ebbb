------------------------------ MODULE LockMode ------------------------------
(***************************************************************************)
(* How an outer thread gets to use an extension's ten_env: by a            *)
(* ten_env_proxy it acquires the lock mode, in which the extension thread  *)
(* is blocked, runs functions at once with notify(sync), and releases the  *)
(* lock mode.  It may also post functions to the extension thread with     *)
(* notify(async).                                                          *)
(*                                                                         *)
(* The extension thread is blocked by a mutex: lock_mode_lock is held by   *)
(* the outer thread, and the task `acquire` makes the extension thread     *)
(* lock it.  When it gets the mutex it goes on with its tasks, the task    *)
(* `release` among them, which unlocks it.                                 *)
(***************************************************************************)
EXTENDS Naturals, Sequences, FiniteSets

CONSTANTS
    Outer,          \* the outer threads
    Ext,            \* the extension thread
    Nobody,
    Proxy,          \* the ten_env_proxys of the thread's extensions
    ProxyOf,        \* [Outer -> Proxy]: outer threads may share a proxy
    MaxRounds,      \* bound: how often each outer thread acquires the lock mode
    MaxWork         \* bound: the functions posted and not yet run

Thread == Outer \union {Ext}

ASSUME LockModeAssumption ==
    /\ Ext \notin Outer
    /\ Nobody \notin Thread
    /\ ProxyOf \in [Outer -> Proxy]
    /\ MaxRounds \in Nat
    /\ MaxWork \in Nat

VARIABLES
    lock_mode_lock, \* extension_thread->lock_mode_lock: who holds it
    in_lock_mode,   \* extension_thread->in_lock_mode
    queue,          \* the tasks in the extension thread's runloop
    ext,            \* what the extension thread does
    pc,             \* what each outer thread does
    lock,           \* proxy->lock: who holds it
    acquired,       \* proxy->acquired_lock_mode_thread
    completed,      \* the outer threads whose event is set
    rounds          \* how often each outer thread has acquired the lock mode

vars == <<lock_mode_lock, in_lock_mode, queue, ext, pc, lock, acquired, completed, rounds>>

Work == <<"work", Ext>>
Release == <<"release", Ext>>
Acquire(t) == <<"acquire", t>>

Init ==
    /\ lock_mode_lock = Nobody
    /\ in_lock_mode = FALSE
    /\ queue = <<>>
    /\ ext = "idle"
    /\ pc = [t \in Outer |-> "idle"]
    /\ lock = [p \in Proxy |-> Nobody]
    /\ acquired = [p \in Proxy |-> Nobody]
    /\ completed = {}
    /\ rounds = [t \in Outer |-> 0]

-----------------------------------------------------------------------------
(* Outer threads.                                                          *)

Go(t, from, to) ==
    /\ pc[t] = from
    /\ pc' = [pc EXCEPT ![t] = to]

LockProxy(t) ==
    /\ lock[ProxyOf[t]] = Nobody
    /\ lock' = [lock EXCEPT ![ProxyOf[t]] = t]

UnlockProxy(t) == lock' = [lock EXCEPT ![ProxyOf[t]] = Nobody]

\* ten_env_proxy_acquire_lock_mode is called.
AcquireLockMode(t) ==
    /\ Go(t, "idle", "wanting")
    /\ rounds[t] < MaxRounds
    /\ rounds' = [rounds EXCEPT ![t] = @ + 1]
    /\ UNCHANGED <<lock_mode_lock, in_lock_mode, queue, ext, lock, acquired, completed>>

\* Only one outer thread gets further than this.
LockLockMode(t) ==
    /\ Go(t, "wanting", "locked")
    /\ lock_mode_lock = Nobody
    /\ lock_mode_lock' = t
    /\ UNCHANGED <<in_lock_mode, queue, ext, lock, acquired, completed, rounds>>

\* The extension thread may be blocked still from the last round; if it is not, a task in
\* front of all others is to block it.
BlockExtension(t) ==
    /\ LockProxy(t)
    /\ acquired' = [acquired EXCEPT ![ProxyOf[t]] = t]
    /\ \/ /\ in_lock_mode
          /\ Go(t, "locked", "blocked_ext")
          /\ UNCHANGED queue
       \/ /\ ~in_lock_mode
          /\ Go(t, "locked", "waiting")
          /\ queue' = <<Acquire(t)>> \o queue
    /\ UNCHANGED <<lock_mode_lock, in_lock_mode, ext, completed, rounds>>

\* ten_event_wait returns; the event is destroyed.
EventIsSet(t) ==
    /\ Go(t, "waiting", "blocked_ext")
    /\ t \in completed
    /\ completed' = completed \ {t}
    /\ UNCHANGED <<lock_mode_lock, in_lock_mode, queue, ext, lock, acquired, rounds>>

\* ten_env_proxy_acquire_lock_mode returns, with the lock mode lock held.
Acquired(t) ==
    /\ Go(t, "blocked_ext", "holding")
    /\ UnlockProxy(t)
    /\ UNCHANGED <<lock_mode_lock, in_lock_mode, queue, ext, acquired, completed, rounds>>

\* Faulty variant: notify(sync) does not look who has acquired the lock mode.
NotifySyncAnyway(t) ==
    /\ \E from \in {"idle", "holding"} : Go(t, from, "notifying")
    /\ LockProxy(t)
    /\ UNCHANGED <<lock_mode_lock, in_lock_mode, queue, ext, acquired, completed, rounds>>

\* ten_env_proxy_notify(sync), which is refused to a thread that has not acquired the lock
\* mode by this proxy: the function runs in the calling thread.
NotifySync(t) ==
    /\ \E from \in {"idle", "holding"} : Go(t, from, "notifying")
    /\ LockProxy(t)
    /\ acquired[ProxyOf[t]] = t
    /\ UNCHANGED <<lock_mode_lock, in_lock_mode, queue, ext, acquired, completed, rounds>>

Notified(t) ==
    /\ Go(t, "notifying", "holding")
    /\ UnlockProxy(t)
    /\ UNCHANGED <<lock_mode_lock, in_lock_mode, queue, ext, acquired, completed, rounds>>

\* ten_env_proxy_notify(async), in the lock mode or not.
NotifyAsync(t) ==
    /\ pc[t] \in {"idle", "holding"}
    /\ Cardinality({i \in DOMAIN queue : queue[i] = Work}) < MaxWork
    /\ queue' = Append(queue, Work)
    /\ UNCHANGED <<lock_mode_lock, in_lock_mode, ext, pc, lock, acquired, completed, rounds>>

\* ten_env_proxy_release_lock_mode: unlocks the lock mode lock, and forgets the thread.
ReleaseLockMode(t) ==
    /\ Go(t, "holding", "releasing")
    /\ LockProxy(t)
    /\ acquired[ProxyOf[t]] = t
    /\ lock_mode_lock' = Nobody
    /\ UNCHANGED <<in_lock_mode, queue, ext, acquired, completed, rounds>>

\* Faulty variant: the proxy still says that the thread has the lock mode.
NotForgotten(t) ==
    /\ Go(t, "releasing", "idle")
    /\ UnlockProxy(t)
    /\ UNCHANGED <<lock_mode_lock, in_lock_mode, queue, ext, acquired, completed, rounds>>

Released(t) ==
    /\ Go(t, "releasing", "idle")
    /\ acquired' = [acquired EXCEPT ![ProxyOf[t]] = Nobody]
    /\ UnlockProxy(t)
    /\ UNCHANGED <<lock_mode_lock, in_lock_mode, queue, ext, completed, rounds>>

-----------------------------------------------------------------------------
(* The extension thread.                                                   *)

Takes(task) ==
    /\ ext = "idle"
    /\ queue # <<>>
    /\ Head(queue) = task

\* A function of notify(async), or any other task of the thread.
StartWork ==
    /\ Takes(Work)
    /\ queue' = Tail(queue)
    /\ ext' = "working"
    /\ UNCHANGED <<lock_mode_lock, in_lock_mode, pc, lock, acquired, completed, rounds>>

EndWork ==
    /\ ext = "working"
    /\ ext' = "idle"
    /\ UNCHANGED <<lock_mode_lock, in_lock_mode, queue, pc, lock, acquired, completed, rounds>>

\* Faulty variant: nobody will unlock the lock mode lock.
AcquireTaskAlone(t) ==
    /\ Takes(Acquire(t))
    /\ queue' = Tail(queue)
    /\ in_lock_mode' = TRUE
    /\ completed' = completed \union {t}
    /\ ext' = "blocked"
    /\ UNCHANGED <<lock_mode_lock, pc, lock, acquired, rounds>>

\* The acquire task: posts the release task, says that the thread is about to be blocked,
\* and lets the outer thread go on.
AcquireTask(t) ==
    /\ Takes(Acquire(t))
    /\ queue' = Append(Tail(queue), Release)
    /\ in_lock_mode' = TRUE
    /\ completed' = completed \union {t}
    /\ ext' = "blocked"
    /\ UNCHANGED <<lock_mode_lock, pc, lock, acquired, rounds>>

\* The thread gets the lock mode lock: the acquire task ends.
Unblocked ==
    /\ ext = "blocked"
    /\ lock_mode_lock = Nobody
    /\ lock_mode_lock' = Ext
    /\ ext' = "idle"
    /\ UNCHANGED <<in_lock_mode, queue, pc, lock, acquired, completed, rounds>>

\* The release task.
ReleaseTask ==
    /\ Takes(Release)
    /\ queue' = Tail(queue)
    /\ in_lock_mode' = FALSE
    /\ ext' = "releasing"
    /\ UNCHANGED <<lock_mode_lock, pc, lock, acquired, completed, rounds>>

UnlockLockMode ==
    /\ ext = "releasing"
    /\ lock_mode_lock' = Nobody
    /\ ext' = "idle"
    /\ UNCHANGED <<in_lock_mode, queue, pc, lock, acquired, completed, rounds>>

-----------------------------------------------------------------------------
ExtNext ==
    \/ StartWork \/ EndWork
    \/ \E t \in Outer : AcquireTask(t)
    \/ Unblocked \/ ReleaseTask \/ UnlockLockMode

\* What an outer thread does without fail.
OuterGoesOn(t) ==
    \/ LockLockMode(t) \/ BlockExtension(t) \/ EventIsSet(t) \/ Acquired(t)
    \/ Notified(t) \/ ReleaseLockMode(t) \/ Released(t)

\* Everybody is done.
Finished ==
    /\ \A t \in Outer : pc[t] = "idle" /\ rounds[t] = MaxRounds
    /\ queue = <<>>
    /\ ext = "idle"
    /\ UNCHANGED vars

Next ==
    \/ ExtNext
    \/ \E t \in Outer :
          OuterGoesOn(t) \/ AcquireLockMode(t) \/ NotifySync(t) \/ NotifyAsync(t)
    \/ Finished

Spec == Init /\ [][Next]_vars

\* The extension thread's runloop runs, and an outer thread ends what it has begun: its
\* functions return, and after a number of them it releases the lock mode.
FairSpec ==
    /\ Spec
    /\ WF_vars(ExtNext)
    /\ \A t \in Outer : WF_vars(OuterGoesOn(t)) /\ SF_vars(ReleaseLockMode(t))

-----------------------------------------------------------------------------
(* Properties.                                                             *)

Tasks == {Work, Release} \union {Acquire(t) : t \in Outer}

\* Every variable keeps its type.
TypeOK ==
    /\ lock_mode_lock \in Thread \union {Nobody}
    /\ in_lock_mode \in BOOLEAN
    /\ queue \in Seq(Tasks)
    /\ ext \in {"idle", "working", "blocked", "releasing"}
    /\ pc \in [Outer -> {"idle", "wanting", "locked", "waiting", "blocked_ext", "holding",
                         "notifying", "releasing"}]
    /\ lock \in [Proxy -> Outer \union {Nobody}]
    /\ acquired \in [Proxy -> Outer \union {Nobody}]
    /\ completed \subseteq Outer
    /\ rounds \in [Outer -> 0..MaxRounds]

\* While a function runs in an outer thread the extension thread is blocked, whichever
\* proxies the outer threads use, and no other outer thread runs one (common.c:175,
\* acquire_lock_mode.c:73): they use the same extensions without a lock.
OneRunsAtATime ==
    \A t \in Outer :
        pc[t] = "notifying" =>
            /\ ext = "blocked"
            /\ \A u \in Outer \ {t} : pc[u] # "notifying"

\* From the time its acquire_lock_mode returns until it calls release_lock_mode, an outer
\* thread passes for the extension thread (ten_extension_thread_check_integrity looks at
\* in_lock_mode): acquire_lock_mode.c:136 asserts it.
FlagIsSet ==
    \A t \in Outer : pc[t] \in {"blocked_ext", "holding", "notifying"} => in_lock_mode

\* Two threads that share a proxy do not find each other's acquisition in it
\* (asserted at acquire_lock_mode.c:84).
ProxyIsForgotten ==
    \A t \in Outer :
        pc[t] = "locked" /\ lock[ProxyOf[t]] = Nobody => acquired[ProxyOf[t]] = Nobody

\* The extension thread unlocks the lock mode lock only when it holds it, however many
\* rounds overlap: there is one release task for each time it was blocked.
UnlocksItsOwn == ext = "releasing" => lock_mode_lock = Ext

\* What acquire_lock_mode and the release task assert or take for granted.
AssertionsHold == FlagIsSet /\ ProxyIsForgotten /\ UnlocksItsOwn

\* An outer thread that wants the lock mode gets it.
AcquireEnds == \A t \in Outer : pc[t] = "wanting" ~> pc[t] = "holding"

\* The extension thread goes on after it has been blocked, and gives the lock back.
ExtensionGoesOn == in_lock_mode ~> ~in_lock_mode

\* Nobody waits for ever, however the rounds of several outer threads overlap.
NobodyStarves == AcquireEnds /\ ExtensionGoesOn
=============================================================================
