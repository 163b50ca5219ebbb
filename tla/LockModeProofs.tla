--------------------------- MODULE LockModeProofs ---------------------------
(***************************************************************************)
(* Proofs about LockMode, for any number of outer threads, proxies, rounds *)
(* and posted functions.                                                   *)
(***************************************************************************)
EXTENDS LockMode, TLAPS

\* Exactly the outer threads that are past the lock mode lock hold it.
HolderInv ==
    \A t \in Outer :
        pc[t] \in {"locked", "waiting", "blocked_ext", "holding", "notifying"}
            <=> lock_mode_lock = t

\* The flag is set from the acquire task to the release task; in between, the extension
\* thread is blocked, or has the lock mode lock.
ExtInv ==
    /\ lock_mode_lock = Ext <=>
          \/ ext = "releasing"
          \/ ext \in {"idle", "working"} /\ in_lock_mode
    /\ ext = "blocked" => in_lock_mode
    /\ ext = "releasing" => ~in_lock_mode

\* An outer thread that knows that the extension thread is blocked is right.
OuterInv ==
    /\ \A t \in Outer : pc[t] \in {"blocked_ext", "holding", "notifying"} => ext = "blocked"
    /\ \A t \in completed : pc[t] = "waiting" /\ ext = "blocked"

\* There is one acquire task at most, of a thread that waits for it, and one release task
\* at most, as long as the flag is set.
QueueInv ==
    /\ \A i, j \in DOMAIN queue : queue[i] = queue[j] /\ queue[i] # Work => i = j
    /\ \A t \in Outer : \A i \in DOMAIN queue :
          queue[i] = Acquire(t) => pc[t] = "waiting" /\ ~in_lock_mode /\ t \notin completed
    /\ \A i \in DOMAIN queue : queue[i] = Release => in_lock_mode

\* A proxy remembers a thread from its acquisition until the end of its release, and is
\* locked at both ends.
ProxyInv ==
    /\ \A p \in Proxy : acquired[p] # Nobody =>
          /\ ProxyOf[acquired[p]] = p
          /\ pc[acquired[p]] \in {"waiting", "blocked_ext", "holding", "notifying", "releasing"}
    /\ \A t \in Outer : pc[t] \in {"waiting", "blocked_ext", "notifying", "releasing"} =>
          lock[ProxyOf[t]] = t

IInv == TypeOK /\ HolderInv /\ ExtInv /\ OuterInv /\ QueueInv /\ ProxyInv

-----------------------------------------------------------------------------
\* Tasks of different kinds, or of different threads, are different.
LEMMA TaskFacts ==
    /\ Work # Release
    /\ \A t \in Outer : Acquire(t) # Work /\ Acquire(t) # Release
    /\ \A t, u \in Outer : Acquire(t) = Acquire(u) => t = u
BY DEF Work, Release, Acquire

\* What is in a queue after its head has been taken.
LEMMA TailFacts ==
    ASSUME NEW q \in Seq(Tasks), q # <<>>
    PROVE  /\ Tail(q) \in Seq(Tasks)
           /\ Head(q) = q[1] /\ 1 \in DOMAIN q
           /\ \A i \in DOMAIN Tail(q) : i + 1 \in DOMAIN q /\ Tail(q)[i] = q[i + 1]
           /\ \A i \in DOMAIN Tail(q) : i \in Nat /\ i + 1 # 1
OBVIOUS

\* What is in a queue after a task has been posted to its tail.
LEMMA AppendFacts ==
    ASSUME NEW q \in Seq(Tasks), NEW e \in Tasks
    PROVE  /\ Append(q, e) \in Seq(Tasks)
           /\ \A i \in DOMAIN Append(q, e) :
                 \/ i \in DOMAIN q /\ Append(q, e)[i] = q[i]
                 \/ i = Len(q) + 1 /\ i \notin DOMAIN q /\ Append(q, e)[i] = e
OBVIOUS

\* What is in a queue after a task has been posted to its front.
LEMMA FrontFacts ==
    ASSUME NEW q \in Seq(Tasks), NEW e \in Tasks
    PROVE  /\ <<e>> \o q \in Seq(Tasks)
           /\ \A i \in DOMAIN (<<e>> \o q) :
                 \/ i = 1 /\ (<<e>> \o q)[i] = e
                 \/ i - 1 \in DOMAIN q /\ (<<e>> \o q)[i] = q[i - 1] /\ i # 1 /\ i \in Nat
OBVIOUS

-----------------------------------------------------------------------------
(* The invariant is inductive.                                             *)

LEMMA InitInv == Init => IInv
<1> SUFFICES ASSUME Init PROVE IInv
  OBVIOUS
<1> USE LockModeAssumption DEF Init, Thread
<1>1. TypeOK
  <2>1. queue \in Seq(Tasks)
    OBVIOUS
  <2>2. rounds \in [Outer -> 0..MaxRounds]
    OBVIOUS
  <2> QED BY <2>1, <2>2 DEF TypeOK
<1>2. HolderInv /\ ExtInv
  BY DEF HolderInv, ExtInv
<1>3. OuterInv /\ QueueInv /\ ProxyInv
  BY DEF OuterInv, QueueInv, ProxyInv
<1> QED BY <1>1, <1>2, <1>3 DEF IInv

\* The types survive every step.
LEMMA NextType == TypeOK /\ [Next]_vars => TypeOK'
<1> SUFFICES ASSUME TypeOK, [Next]_vars PROVE TypeOK'
  OBVIOUS
<1> USE LockModeAssumption DEF TypeOK, Thread
<1> DEFINE Same == UNCHANGED vars
<1>1. ASSUME NEW t \in Outer, AcquireLockMode(t) PROVE TypeOK'
  BY <1>1 DEF AcquireLockMode, Go
<1>2. ASSUME NEW t \in Outer, LockLockMode(t) PROVE TypeOK'
  BY <1>2 DEF LockLockMode, Go
<1>3. ASSUME NEW t \in Outer, BlockExtension(t) PROVE TypeOK'
  <2>1. Acquire(t) \in Tasks
    BY DEF Tasks
  <2>2. queue' \in Seq(Tasks)
    BY <1>3, <2>1, FrontFacts DEF BlockExtension
  <2> QED BY <1>3, <2>2 DEF BlockExtension, Go, LockProxy
<1>4. ASSUME NEW t \in Outer, EventIsSet(t) PROVE TypeOK'
  BY <1>4 DEF EventIsSet, Go
<1>5. ASSUME NEW t \in Outer, Acquired(t) \/ Notified(t) PROVE TypeOK'
  BY <1>5 DEF Acquired, Notified, Go, UnlockProxy
<1>6. ASSUME NEW t \in Outer, NotifySync(t) PROVE TypeOK'
  BY <1>6 DEF NotifySync, Go, LockProxy
<1>7. ASSUME NEW t \in Outer, NotifyAsync(t) PROVE TypeOK'
  <2>1. queue' \in Seq(Tasks)
    BY <1>7, AppendFacts DEF NotifyAsync, Tasks
  <2> QED BY <1>7, <2>1 DEF NotifyAsync
<1>8. ASSUME NEW t \in Outer, ReleaseLockMode(t) PROVE TypeOK'
  BY <1>8 DEF ReleaseLockMode, Go, LockProxy
<1>9. ASSUME NEW t \in Outer, Released(t) PROVE TypeOK'
  BY <1>9 DEF Released, Go, UnlockProxy
<1>10. ASSUME StartWork \/ ReleaseTask PROVE TypeOK'
  <2>1. queue' \in Seq(Tasks)
    BY <1>10, TailFacts DEF StartWork, ReleaseTask, Takes
  <2> QED BY <1>10, <2>1 DEF StartWork, ReleaseTask
<1>11. ASSUME NEW t \in Outer, AcquireTask(t) PROVE TypeOK'
  <2>1. Tail(queue) \in Seq(Tasks)
    BY <1>11, TailFacts DEF AcquireTask, Takes
  <2>2. queue' \in Seq(Tasks)
    BY <1>11, <2>1, AppendFacts DEF AcquireTask, Tasks
  <2> QED BY <1>11, <2>2 DEF AcquireTask
<1>12. ASSUME EndWork \/ Unblocked \/ UnlockLockMode PROVE TypeOK'
  BY <1>12 DEF EndWork, Unblocked, UnlockLockMode
<1>13. CASE UNCHANGED vars
  BY <1>13 DEF vars
<1> QED
  BY <1>1, <1>2, <1>3, <1>4, <1>5, <1>6, <1>7, <1>8, <1>9, <1>10, <1>11, <1>12, <1>13
     DEF Next, ExtNext, OuterGoesOn, Finished

\* A step of an outer thread keeps the invariant.
LEMMA OuterStep ==
    ASSUME IInv, TypeOK', NEW t \in Outer,
           \/ OuterGoesOn(t) \/ AcquireLockMode(t) \/ NotifySync(t) \/ NotifyAsync(t)
    PROVE  HolderInv' /\ ExtInv' /\ OuterInv' /\ QueueInv' /\ ProxyInv'
<1> USE LockModeAssumption DEF IInv, TypeOK, Thread
<1>1. CASE AcquireLockMode(t)
  <2>1. HolderInv' /\ ExtInv' /\ OuterInv'
    BY <1>1 DEF AcquireLockMode, Go, HolderInv, ExtInv, OuterInv
  <2>2. QueueInv' /\ ProxyInv'
    BY <1>1 DEF AcquireLockMode, Go, QueueInv, ProxyInv
  <2> QED BY <2>1, <2>2
<1>2. CASE LockLockMode(t)
  <2>1. HolderInv' /\ ExtInv' /\ OuterInv'
    BY <1>2 DEF LockLockMode, Go, HolderInv, ExtInv, OuterInv
  <2>2. QueueInv' /\ ProxyInv'
    BY <1>2 DEF LockLockMode, Go, QueueInv, ProxyInv
  <2> QED BY <2>1, <2>2
<1>3. CASE BlockExtension(t)
  <2>1. HolderInv'
    BY <1>3 DEF BlockExtension, Go, HolderInv
  <2>2. ExtInv'
    BY <1>3 DEF BlockExtension, Go, ExtInv
  <2>3. OuterInv'
    BY <1>3 DEF BlockExtension, Go, HolderInv, ExtInv, OuterInv
  <2>4. QueueInv'
    <3>1. CASE in_lock_mode
      BY <1>3, <3>1 DEF BlockExtension, Go, QueueInv
    <3>2. CASE ~in_lock_mode
      <4>1. Acquire(t) \in Tasks
        BY DEF Tasks
      <4>2. pc[t] = "locked" /\ queue' = <<Acquire(t)>> \o queue
        BY <1>3, <3>2 DEF BlockExtension, Go
      <4>3. ASSUME NEW i \in DOMAIN queue PROVE queue[i] = Work
        <5>1. queue[i] \in Tasks
          OBVIOUS
        <5>2. queue[i] # Release
          BY <3>2 DEF QueueInv
        <5>3. ASSUME NEW u \in Outer PROVE queue[i] # Acquire(u)
          BY <4>2 DEF QueueInv, HolderInv
        <5> QED BY <5>1, <5>2, <5>3 DEF Tasks
      <4> QED BY <1>3, <3>2, <4>1, <4>2, <4>3, FrontFacts, TaskFacts
                 DEF BlockExtension, Go, OuterInv, QueueInv
    <3> QED BY <3>1, <3>2
  <2>5. ProxyInv'
    <3>1. /\ lock[ProxyOf[t]] = Nobody /\ lock' = [lock EXCEPT ![ProxyOf[t]] = t]
          /\ acquired' = [acquired EXCEPT ![ProxyOf[t]] = t]
      BY <1>3 DEF BlockExtension, LockProxy
    <3>2. /\ pc[t] = "locked" /\ pc'[t] \in {"waiting", "blocked_ext"}
          /\ \A u \in Outer \ {t} : pc'[u] = pc[u]
      BY <1>3 DEF BlockExtension, Go
    <3>3. ASSUME NEW p \in Proxy, acquired'[p] # Nobody
          PROVE  /\ ProxyOf[acquired'[p]] = p
                 /\ pc'[acquired'[p]] \in {"waiting", "blocked_ext", "holding", "notifying",
                                           "releasing"}
      <4>1. CASE p = ProxyOf[t]
        BY <3>1, <3>2, <4>1
      <4>2. CASE p # ProxyOf[t]
        BY <3>1, <3>2, <3>3, <4>2, ZenonT(60) DEF ProxyInv
      <4> QED BY <4>1, <4>2
    <3>4. ASSUME NEW u \in Outer,
                 pc'[u] \in {"waiting", "blocked_ext", "notifying", "releasing"}
          PROVE  lock'[ProxyOf[u]] = u
      BY <3>1, <3>2, <3>4 DEF ProxyInv
    <3> QED BY <3>3, <3>4 DEF ProxyInv
  <2> QED BY <2>1, <2>2, <2>3, <2>4, <2>5
<1>4. CASE EventIsSet(t)
  <2>1. HolderInv' /\ ExtInv' /\ OuterInv'
    BY <1>4 DEF EventIsSet, Go, HolderInv, ExtInv, OuterInv
  <2>2. QueueInv' /\ ProxyInv'
    BY <1>4 DEF EventIsSet, Go, QueueInv, ProxyInv
  <2> QED BY <2>1, <2>2
<1>5. CASE Acquired(t) \/ Notified(t)
  <2>1. HolderInv' /\ ExtInv' /\ OuterInv'
    BY <1>5 DEF Acquired, Notified, Go, HolderInv, ExtInv, OuterInv
  <2>2. QueueInv'
    BY <1>5 DEF Acquired, Notified, Go, QueueInv
  <2>3. ProxyInv'
    <3>1. lock[ProxyOf[t]] = t /\ lock' = [lock EXCEPT ![ProxyOf[t]] = Nobody]
      BY <1>5 DEF Acquired, Notified, Go, UnlockProxy, ProxyInv
    <3>2. /\ pc[t] \in {"blocked_ext", "notifying"} /\ pc'[t] = "holding"
          /\ \A u \in Outer \ {t} : pc'[u] = pc[u]
      BY <1>5 DEF Acquired, Notified, Go
    <3>3. acquired' = acquired
      BY <1>5 DEF Acquired, Notified
    <3> QED BY <3>1, <3>2, <3>3, ZenonT(60) DEF ProxyInv
  <2> QED BY <2>1, <2>2, <2>3
<1>6. CASE NotifySync(t)
  <2>0. pc[t] = "holding"
    BY <1>6, SMTT(30) DEF NotifySync, Go, ProxyInv
  <2>1. HolderInv' /\ ExtInv' /\ OuterInv'
    BY <1>6, <2>0 DEF NotifySync, Go, HolderInv, ExtInv, OuterInv
  <2>2. QueueInv'
    BY <1>6 DEF NotifySync, Go, QueueInv
  <2>3. ProxyInv'
    BY <1>6, <2>0 DEF NotifySync, Go, LockProxy, ProxyInv
  <2> QED BY <2>1, <2>2, <2>3
<1>7. CASE NotifyAsync(t)
  <2>1. HolderInv' /\ ExtInv' /\ OuterInv' /\ ProxyInv'
    BY <1>7 DEF NotifyAsync, HolderInv, ExtInv, OuterInv, ProxyInv
  <2>2. QueueInv'
    BY <1>7, AppendFacts, TaskFacts DEF NotifyAsync, QueueInv, Tasks
  <2> QED BY <2>1, <2>2
<1>8. CASE ReleaseLockMode(t)
  <2>1. HolderInv' /\ ExtInv' /\ OuterInv'
    BY <1>8 DEF ReleaseLockMode, Go, HolderInv, ExtInv, OuterInv
  <2>2. QueueInv'
    BY <1>8 DEF ReleaseLockMode, Go, QueueInv
  <2>3. ProxyInv'
    BY <1>8 DEF ReleaseLockMode, Go, LockProxy, ProxyInv
  <2> QED BY <2>1, <2>2, <2>3
<1>9. CASE Released(t)
  <2>1. HolderInv' /\ ExtInv' /\ OuterInv'
    BY <1>9 DEF Released, Go, HolderInv, ExtInv, OuterInv
  <2>2. QueueInv'
    BY <1>9 DEF Released, Go, QueueInv
  <2>3. ProxyInv'
    BY <1>9 DEF Released, Go, UnlockProxy, ProxyInv
  <2> QED BY <2>1, <2>2, <2>3
<1> QED
  BY <1>1, <1>2, <1>3, <1>4, <1>5, <1>6, <1>7, <1>8, <1>9 DEF OuterGoesOn

\* A step of the extension thread keeps the invariant.
LEMMA ExtStep ==
    ASSUME IInv, TypeOK', ExtNext
    PROVE  HolderInv' /\ ExtInv' /\ OuterInv' /\ QueueInv' /\ ProxyInv'
<1> USE LockModeAssumption DEF IInv, TypeOK, Thread
<1>1. CASE StartWork
  <2>1. HolderInv' /\ ExtInv' /\ OuterInv' /\ ProxyInv'
    BY <1>1 DEF StartWork, Takes, HolderInv, ExtInv, OuterInv, ProxyInv
  <2>2. QueueInv'
    BY <1>1, TailFacts DEF StartWork, Takes, QueueInv
  <2> QED BY <2>1, <2>2
<1>2. CASE EndWork
  <2>1. HolderInv' /\ ExtInv' /\ OuterInv' /\ ProxyInv' /\ QueueInv'
    BY <1>2 DEF EndWork, HolderInv, ExtInv, OuterInv, ProxyInv, QueueInv
  <2> QED BY <2>1
<1>3. ASSUME NEW t \in Outer, AcquireTask(t)
      PROVE  HolderInv' /\ ExtInv' /\ OuterInv' /\ QueueInv' /\ ProxyInv'
  <2>1. pc[t] = "waiting" /\ ~in_lock_mode /\ t \notin completed /\ queue[1] = Acquire(t)
    BY <1>3, TailFacts DEF AcquireTask, Takes, QueueInv
  <2>2. lock_mode_lock = t
    BY <2>1 DEF HolderInv
  <2>3. HolderInv' /\ ExtInv' /\ ProxyInv'
    BY <1>3, <2>1, <2>2 DEF AcquireTask, Takes, HolderInv, ExtInv, ProxyInv
  <2>4. OuterInv'
    BY <1>3, <2>1 DEF AcquireTask, Takes, OuterInv
  <2>5. QueueInv'
    <3> DEFINE rest == Tail(queue)
    <3>1. /\ rest \in Seq(Tasks)
          /\ \A i \in DOMAIN rest : i \in Nat /\ i + 1 # 1 /\ i + 1 \in DOMAIN queue
                                     /\ rest[i] = queue[i + 1]
          /\ 1 \in DOMAIN queue
      BY <1>3, TailFacts DEF AcquireTask, Takes
    <3>2. ASSUME NEW i \in DOMAIN rest PROVE rest[i] = Work
      <4>1. rest[i] \in Tasks
        BY <3>1
      <4>2. rest[i] # Release
        BY <2>1, <3>1 DEF QueueInv
      <4>3. rest[i] # Acquire(t)
        BY <2>1, <3>1, TaskFacts DEF QueueInv
      <4>4. ASSUME NEW u \in Outer, u # t PROVE rest[i] # Acquire(u)
        BY <2>2, <3>1, <4>4 DEF QueueInv, HolderInv
      <4> QED BY <4>1, <4>2, <4>3, <4>4 DEF Tasks
    <3>3. queue' = Append(rest, Release) /\ Release \in Tasks /\ in_lock_mode'
      BY <1>3 DEF AcquireTask, Tasks
    <3>4. \A i \in DOMAIN queue' :
             \/ i \in DOMAIN rest /\ queue'[i] = Work
             \/ i = Len(rest) + 1 /\ queue'[i] = Release
      BY <3>1, <3>2, <3>3, AppendFacts
    <3> QED BY <3>3, <3>4, TaskFacts DEF QueueInv
  <2> QED BY <2>3, <2>4, <2>5
<1>4. CASE Unblocked
  <2>1. HolderInv' /\ ExtInv' /\ OuterInv' /\ ProxyInv' /\ QueueInv'
    BY <1>4 DEF Unblocked, HolderInv, ExtInv, OuterInv, ProxyInv, QueueInv
  <2> QED BY <2>1
<1>5. CASE ReleaseTask
  <2>1. in_lock_mode /\ queue[1] = Release
    BY <1>5, TailFacts DEF ReleaseTask, Takes, QueueInv
  <2>2. HolderInv' /\ ExtInv' /\ ProxyInv'
    BY <1>5, <2>1 DEF ReleaseTask, Takes, HolderInv, ExtInv, ProxyInv
  <2>3. OuterInv'
    BY <1>5 DEF ReleaseTask, Takes, OuterInv
  <2>4. QueueInv'
    BY <1>5, <2>1, TailFacts, TaskFacts DEF ReleaseTask, Takes, QueueInv
  <2> QED BY <2>2, <2>3, <2>4
<1>6. CASE UnlockLockMode
  <2>1. HolderInv' /\ ExtInv' /\ OuterInv' /\ ProxyInv' /\ QueueInv'
    BY <1>6 DEF UnlockLockMode, HolderInv, ExtInv, OuterInv, ProxyInv, QueueInv
  <2> QED BY <2>1
<1> QED BY <1>1, <1>2, <1>3, <1>4, <1>5, <1>6 DEF ExtNext

\* The invariant holds in every reachable state.
THEOREM Invariant == Spec => []IInv
<1>1. IInv /\ [Next]_vars => IInv'
  <2> SUFFICES ASSUME IInv, [Next]_vars PROVE IInv'
    OBVIOUS
  <2>1. TypeOK'
    BY NextType DEF IInv
  <2>2. CASE ExtNext
    BY <2>1, <2>2, ExtStep DEF IInv
  <2>3. ASSUME NEW t \in Outer,
               \/ OuterGoesOn(t) \/ AcquireLockMode(t) \/ NotifySync(t) \/ NotifyAsync(t)
        PROVE  IInv'
    BY <2>1, <2>3, OuterStep DEF IInv
  <2>4. CASE UNCHANGED vars
    BY <2>1, <2>4 DEF vars, IInv, HolderInv, ExtInv, OuterInv, QueueInv, ProxyInv
  <2> QED BY <2>2, <2>3, <2>4 DEF Next, Finished
<1> QED BY <1>1, InitInv, PTL DEF Spec

\* Type correctness.
THEOREM TypeCorrect == Spec => []TypeOK
<1>1. IInv => TypeOK
  BY DEF IInv
<1> QED BY <1>1, Invariant, PTL

\* Mutual exclusion of functions run by notify(sync), and of them with the extension thread.
THEOREM MutualExclusion == Spec => []OneRunsAtATime
<1>1. IInv => OneRunsAtATime
  BY LockModeAssumption DEF IInv, HolderInv, OuterInv, OneRunsAtATime
<1> QED BY <1>1, Invariant, PTL

\* The assertion after the wait in ten_env_proxy_acquire_lock_mode never fails.
THEOREM BlockedWhenAcquired == Spec => []FlagIsSet
<1>1. IInv => FlagIsSet
  BY DEF IInv, ExtInv, OuterInv, FlagIsSet
<1> QED BY <1>1, Invariant, PTL

\* The assertion before it neither.
THEOREM NoLeftover == Spec => []ProxyIsForgotten
<1>1. IInv => ProxyIsForgotten
  BY LockModeAssumption DEF IInv, TypeOK, HolderInv, ProxyInv, ProxyIsForgotten, Thread
<1> QED BY <1>1, Invariant, PTL

\* The extension thread never unlocks a mutex that an outer thread holds.
THEOREM UnlockIsSafe == Spec => []UnlocksItsOwn
<1>1. IInv => UnlocksItsOwn
  BY DEF IInv, ExtInv, UnlocksItsOwn
<1> QED BY <1>1, Invariant, PTL

\* The assertions of acquire_lock_mode and of the release task hold.
THEOREM AssertionsAlwaysHold == Spec => []AssertionsHold
BY BlockedWhenAcquired, NoLeftover, UnlockIsSafe, PTL DEF AssertionsHold
=============================================================================
