---------------------------- MODULE SynchProofs ----------------------------
(***************************************************************************)
(* Proofs, for any number of threads, locks, condition variables and       *)
(* semaphores, of the safety invariants of module Synch and of what its    *)
(* queues promise: Semaphore::V loses no wakeup (NoLostWakeup), and nobody *)
(* overtakes a thread that waits for a lock (NoOvertaking).  Then proofs   *)
(* about the synchronised list: every step of the list is a step of the    *)
(* kernel primitives it calls, so their inductive invariant is one of the  *)
(* list too.                                                               *)
(***************************************************************************)
EXTENDS SynchList, QueueLemmas, FiniteSetTheorems

-----------------------------------------------------------------------------
\* The inductive invariant.
IInv ==
    /\ TypeOK
    /\ OnePlace
    /\ CallShape
    /\ NoWaiterOnFreeLock
    /\ HandOff
    /\ OneLockPerCondition
    /\ OnlyFinishedDeleted

USE ThreadAssumption, SynchAssumption
USE DEF threadVars, lockVars, condVars, semVars, argVars, synchVars,
        ThreadStatus, Routine

LEMMA InitIInv == Init => IInv
<1> SUFFICES ASSUME Init PROVE IInv
  OBVIOUS
<1> USE DEF Init, ThreadInit, SynchInit
<1>1. TypeOK
  BY EmptyQueue DEF TypeOK, ThreadTypeOK, ThreadStatus, Routine
<1>2. OnePlace
  BY EmptyQueue DEF OnePlace, OnReadyList, OnLockQueue, OnCondQueue, OnSemQueue
<1>3. CallShape
  BY DEF CallShape
<1>4. NoWaiterOnFreeLock /\ HandOff /\ OneLockPerCondition
  BY EmptyQueue DEF NoWaiterOnFreeLock, HandOff, OneLockPerCondition
<1>5. OnlyFinishedDeleted
  BY DEF OnlyFinishedDeleted
<1> QED
  BY <1>1, <1>2, <1>3, <1>4, <1>5 DEF IInv

-----------------------------------------------------------------------------
(* One lemma per action: it preserves the inductive invariant. *)

\* Scheduler::ReadyToRun on a thread that is not on the ready list.
LEMMA ReadyToRunPlace ==
    ASSUME TypeOK, OnReadyList, NEW u \in Thread, status[u] # "READY",
           readyList' = Append(readyList, u),
           status' \in [Thread -> ThreadStatus],
           status'[u] = "READY",
           \A t \in Thread \ {u} : status'[t] = "READY" <=> status[t] = "READY"
    PROVE  OnReadyList' /\ readyList' \in Seq(Thread)
<1>1. readyList \in Seq(Thread) /\ IsInjective(readyList) /\ u \notin Range(readyList)
  BY DEF TypeOK, ThreadTypeOK, OnReadyList
<1>2. /\ Range(readyList') = Range(readyList) \cup {u}
      /\ IsInjective(readyList')
      /\ readyList' \in Seq(Thread)
  BY <1>1, AppendQueue
<1> QED
  BY <1>2 DEF OnReadyList

LEMMA ForkStep ==
    ASSUME IInv, NEW t \in Thread, NEW child \in Thread,
           Fork(t, child), UNCHANGED synchVars
    PROVE  IInv'
<1> USE DEF IInv, Fork, TypeOK, ThreadTypeOK, CallShape
<1>1. OnReadyList' /\ readyList' \in Seq(Thread)
  BY ReadyToRunPlace DEF OnePlace
<1>2. TypeOK'
  BY <1>1
<1>3. OnePlace'
  BY <1>1 DEF OnePlace, OnLockQueue, OnCondQueue, OnSemQueue
<1>4. CallShape'
  OBVIOUS
<1>5. NoWaiterOnFreeLock' /\ HandOff' /\ OneLockPerCondition' /\ OnlyFinishedDeleted'
  BY DEF NoWaiterOnFreeLock, HandOff, OneLockPerCondition, OnlyFinishedDeleted
<1> QED
  BY <1>2, <1>3, <1>4, <1>5

LEMMA YieldStep ==
    ASSUME IInv, NEW t \in Thread, Yield(t), UNCHANGED synchVars
    PROVE  IInv'
<1> USE DEF IInv, Yield, Interruptible, TypeOK, ThreadTypeOK, CallShape
<1>1. OnReadyList' /\ readyList' \in Seq(Thread)
  BY ReadyToRunPlace DEF OnePlace
<1>2. TypeOK'
  BY <1>1
<1>3. OnePlace'
  BY <1>1 DEF OnePlace, OnLockQueue, OnCondQueue, OnSemQueue
<1>4. CallShape'
  OBVIOUS
<1>5. NoWaiterOnFreeLock' /\ HandOff' /\ OneLockPerCondition' /\ OnlyFinishedDeleted'
  BY DEF NoWaiterOnFreeLock, HandOff, OneLockPerCondition, OnlyFinishedDeleted
<1> QED
  BY <1>2, <1>3, <1>4, <1>5

LEMMA FinishStep ==
    ASSUME IInv, NEW t \in Thread, Finish(t), UNCHANGED synchVars
    PROVE  IInv'
<1> USE DEF IInv, Finish, AtUser, TypeOK, ThreadTypeOK, CallShape
<1>1. TypeOK'
  OBVIOUS
<1>2. OnePlace'
  BY DEF OnePlace, OnReadyList, OnLockQueue, OnCondQueue, OnSemQueue
<1>3. CallShape'
  OBVIOUS
<1>4. NoWaiterOnFreeLock' /\ HandOff' /\ OneLockPerCondition'
  BY DEF NoWaiterOnFreeLock, HandOff, OneLockPerCondition
<1>5. OnlyFinishedDeleted'
  BY DEF OnlyFinishedDeleted
<1> QED
  BY <1>1, <1>2, <1>3, <1>4, <1>5

LEMMA RunStep ==
    ASSUME IInv, Run, UNCHANGED synchVars
    PROVE  IInv'
<1> DEFINE next == Head(readyList)
<1> USE DEF IInv, TypeOK, ThreadTypeOK, CallShape
<1>1. /\ next \in Thread /\ next \in Range(readyList)
      /\ Tail(readyList) \in Seq(Thread)
      /\ Range(Tail(readyList)) = Range(readyList) \ {next}
      /\ IsInjective(Tail(readyList))
  BY RemoveQueue DEF OnePlace, OnReadyList, Run
<1>2. /\ status[next] = "READY"
      /\ status[currentThread] # "RUNNING"
      /\ currentThread' = next
      /\ readyList' = Tail(readyList)
      /\ status' = [status EXCEPT ![next] = "RUNNING"]
  BY <1>1 DEF OnePlace, OnReadyList, Run
<1>3. /\ resume' \in [Thread -> Routine]
      /\ \A t \in Thread : resume'[t] # resume[t] =>
            t = next /\ resume[t] = "New" /\ resume'[t] = "User"
      /\ resume'[next] # "New"
      /\ threadToBeDestroyed' \in Thread \cup {NULL}
      /\ deleted' \in SUBSET Thread
  <2>1. CASE resume[next] = "New"
    <3>1. resume' = [resume EXCEPT ![next] = "User"]
      BY <2>1 DEF Run
    <3>2. UNCHANGED <<threadToBeDestroyed, deleted>>
      BY <2>1 DEF Run
    <3> QED
      BY <1>1, <2>1, <3>1, <3>2
  <2>2. CASE resume[next] # "New"
    <3>1. resume' = resume
      BY <2>2 DEF Run
    <3>2. /\ threadToBeDestroyed' = NULL
          /\ deleted' = deleted \cup ({threadToBeDestroyed} \ {NULL})
      BY <2>2 DEF Run
    <3> QED
      BY <1>1, <2>2, <3>1, <3>2
  <2> QED
    BY <2>1, <2>2
<1> HIDE DEF next
<1>4. TypeOK'
  BY <1>1, <1>2, <1>3
<1>5. CallShape'
  BY <1>1, <1>2, <1>3 DEF OnePlace
<1>6. OnReadyList'
  BY <1>1, <1>2 DEF OnePlace, OnReadyList
<1>7. OnLockQueue' /\ OnCondQueue' /\ OnSemQueue'
  BY <1>1, <1>2, <1>3 DEF OnePlace, OnLockQueue, OnCondQueue, OnSemQueue
<1>8. OnePlace'
  BY <1>2, <1>5, <1>6, <1>7 DEF OnePlace
<1>9. NoWaiterOnFreeLock' /\ HandOff' /\ OneLockPerCondition'
  BY <1>1, <1>2, <1>3 DEF NoWaiterOnFreeLock, HandOff, OneLockPerCondition
<1>10. OnlyFinishedDeleted'
  <2>1. resume[next] # "Finished"
    BY <1>1, <1>2
  <2>2. next \notin deleted /\ next # threadToBeDestroyed
    BY <1>1, <2>1 DEF OnlyFinishedDeleted
  <2>3. \/ threadToBeDestroyed' = threadToBeDestroyed /\ deleted' = deleted
        \/ threadToBeDestroyed' = NULL
           /\ deleted' = deleted \cup ({threadToBeDestroyed} \ {NULL})
    BY DEF Run
  <2> QED
    BY <1>1, <1>2, <1>3, <2>1, <2>2, <2>3 DEF OnlyFinishedDeleted
<1> QED
  BY <1>4, <1>5, <1>8, <1>9, <1>10

LEMMA AcquireFreeStep ==
    ASSUME IInv, NEW t \in Thread, NEW l \in Lock, AcquireFree(t, l)
    PROVE  IInv'
<1> USE DEF IInv, AcquireFree, AtUser, IsHeldBy, TypeOK, ThreadTypeOK, CallShape
<1>1. TypeOK' /\ CallShape'
  OBVIOUS
<1>2. OnePlace'
  BY DEF OnePlace, OnReadyList, OnLockQueue, OnCondQueue, OnSemQueue
<1>3. NoWaiterOnFreeLock' /\ HandOff' /\ OneLockPerCondition' /\ OnlyFinishedDeleted'
  BY DEF NoWaiterOnFreeLock, HandOff, OneLockPerCondition, OnlyFinishedDeleted
<1> QED
  BY <1>1, <1>2, <1>3

\* The caller queues for the lock l, from Acquire or at the end of Wait.
LEMMA LockQueueAppend ==
    ASSUME TypeOK, OnLockQueue, NEW t \in Thread, NEW l \in Lock,
           status[t] # "BLOCKED",
           lockWaiters' = [lockWaiters EXCEPT ![l] = Append(@, t)],
           status' = [status EXCEPT ![t] = "BLOCKED"],
           resume' = [resume EXCEPT ![t] = "Acquire"],
           argLock' \in [Thread -> Lock \cup {NULL}],
           argLock'[t] = l,
           \A u \in Thread \ {t} : argLock'[u] = argLock[u]
    PROVE  OnLockQueue' /\ lockWaiters' \in [Lock -> Seq(Thread)]
<1> USE DEF TypeOK, ThreadTypeOK
<1>1. lockWaiters[l] \in Seq(Thread) /\ IsInjective(lockWaiters[l])
      /\ t \notin Range(lockWaiters[l])
  BY DEF OnLockQueue
<1>2. /\ Append(lockWaiters[l], t) \in Seq(Thread)
      /\ Range(Append(lockWaiters[l], t)) = Range(lockWaiters[l]) \cup {t}
      /\ IsInjective(Append(lockWaiters[l], t))
  BY <1>1, AppendQueue
<1>3. lockWaiters' \in [Lock -> Seq(Thread)]
  BY <1>2
<1>4. ASSUME NEW k \in Lock
      PROVE  /\ IsInjective(lockWaiters'[k])
             /\ \A u \in Thread : u \in Range(lockWaiters'[k]) <=>
                   status'[u] = "BLOCKED" /\ resume'[u] = "Acquire" /\ argLock'[u] = k
  <2>1. CASE k = l
    BY <1>2, <2>1 DEF OnLockQueue
  <2>2. CASE k # l
    BY <1>1, <2>2 DEF OnLockQueue
  <2> QED
    BY <2>1, <2>2
<1> QED
  BY <1>3, <1>4 DEF OnLockQueue

LEMMA AcquireBusyStep ==
    ASSUME IInv, NEW t \in Thread, NEW l \in Lock, AcquireBusy(t, l)
    PROVE  IInv'
<1> USE DEF IInv, AcquireBusy, AtUser, IsHeldBy, TypeOK, ThreadTypeOK, CallShape
<1>1. OnLockQueue' /\ lockWaiters' \in [Lock -> Seq(Thread)]
  BY LockQueueAppend DEF OnePlace
<1>2. TypeOK' /\ CallShape'
  BY <1>1
<1>3. OnePlace'
  BY <1>1 DEF OnePlace, OnReadyList, OnCondQueue, OnSemQueue
<1>4. NoWaiterOnFreeLock' /\ HandOff' /\ OnlyFinishedDeleted'
  BY DEF NoWaiterOnFreeLock, HandOff, OnlyFinishedDeleted
<1>5. OneLockPerCondition'
  BY DEF OneLockPerCondition, OnePlace, OnCondQueue
<1> QED
  BY <1>2, <1>3, <1>4, <1>5

LEMMA AcquireReturnStep ==
    ASSUME IInv, NEW t \in Thread, AcquireReturn(t)
    PROVE  IInv'
<1> USE DEF IInv, AcquireReturn, TypeOK, ThreadTypeOK, CallShape
<1>1. TypeOK' /\ CallShape'
  OBVIOUS
<1>2. OnePlace'
  BY DEF OnePlace, OnReadyList, OnLockQueue, OnCondQueue, OnSemQueue
<1>3. NoWaiterOnFreeLock' /\ HandOff' /\ OnlyFinishedDeleted'
  BY DEF NoWaiterOnFreeLock, HandOff, OnlyFinishedDeleted
<1>4. OneLockPerCondition'
  BY DEF OneLockPerCondition, OnePlace, OnCondQueue
<1> QED
  BY <1>1, <1>2, <1>3, <1>4

\* The first waiter of lock l is taken off its queue and made ready; the
\* releasing thread t may be put to sleep in the same step (Condition::Wait).
LEMMA LockQueueRemove ==
    ASSUME IInv, NEW l \in Lock, lockWaiters[l] # <<>>,
           lockWaiters' = [lockWaiters EXCEPT ![l] = Tail(@)],
           NEW t \in Thread, status[t] = "RUNNING",
           status' \in [Thread -> ThreadStatus],
           status'[Head(lockWaiters[l])] = "READY",
           status'[t] \in {"RUNNING", "BLOCKED"},
           \A u \in Thread \ {t, Head(lockWaiters[l])} : status'[u] = status[u],
           resume' \in [Thread -> Routine],
           resume'[t] # "Acquire",
           \A u \in Thread \ {t} : resume'[u] = resume[u] /\ argLock'[u] = argLock[u],
           readyList' = Append(readyList, Head(lockWaiters[l]))
    PROVE  /\ Head(lockWaiters[l]) \in Thread
           /\ Head(lockWaiters[l]) # t
           /\ status[Head(lockWaiters[l])] = "BLOCKED"
           /\ resume[Head(lockWaiters[l])] = "Acquire"
           /\ argLock[Head(lockWaiters[l])] = l
           /\ OnLockQueue' /\ lockWaiters' \in [Lock -> Seq(Thread)]
           /\ OnReadyList' /\ readyList' \in Seq(Thread)
<1> DEFINE thread == Head(lockWaiters[l])
<1> USE DEF TypeOK, ThreadTypeOK, IInv, OnePlace
<1>1. lockWaiters[l] \in Seq(Thread) /\ IsInjective(lockWaiters[l])
  BY DEF OnLockQueue
<1>2. /\ thread \in Thread /\ thread \in Range(lockWaiters[l])
      /\ Tail(lockWaiters[l]) \in Seq(Thread)
      /\ Range(Tail(lockWaiters[l])) = Range(lockWaiters[l]) \ {thread}
      /\ IsInjective(Tail(lockWaiters[l]))
  BY <1>1, RemoveQueue
<1>3. /\ status[thread] = "BLOCKED"
      /\ resume[thread] = "Acquire"
      /\ argLock[thread] = l
      /\ thread # t
  BY <1>2 DEF OnLockQueue
<1> HIDE DEF thread
<1>4. lockWaiters' \in [Lock -> Seq(Thread)]
  BY <1>2
<1>5. OnReadyList' /\ readyList' \in Seq(Thread)
  BY <1>2, <1>3, ReadyToRunPlace DEF thread
<1>6. ASSUME NEW k \in Lock
      PROVE  /\ IsInjective(lockWaiters'[k])
             /\ \A u \in Thread : u \in Range(lockWaiters'[k]) <=>
                   status'[u] = "BLOCKED" /\ resume'[u] = "Acquire" /\ argLock'[u] = k
  <2>1. status'[thread] = "READY" /\ \A u \in Thread \ {t, thread} : status'[u] = status[u]
    BY DEF thread
  <2>2. /\ IsInjective(lockWaiters[k])
        /\ \A u \in Thread : u \in Range(lockWaiters[k]) <=>
              status[u] = "BLOCKED" /\ resume[u] = "Acquire" /\ argLock[u] = k
    BY DEF OnLockQueue
  <2>3. /\ IsInjective(lockWaiters'[k])
        /\ Range(lockWaiters'[k]) = Range(lockWaiters[k]) \ (IF k = l THEN {thread} ELSE {})
    BY <1>2, <2>2 DEF thread
  <2>4. ASSUME NEW u \in Thread
        PROVE  u \in Range(lockWaiters'[k]) <=>
                 status'[u] = "BLOCKED" /\ resume'[u] = "Acquire" /\ argLock'[u] = k
    <3>1. CASE u = t
      BY <2>2, <2>3, <3>1
    <3>2. CASE u = thread
      BY <1>3, <2>1, <2>2, <2>3, <3>2
    <3>3. CASE u \notin {t, thread}
      BY <2>1, <2>2, <2>3, <3>3
    <3> QED
      BY <3>1, <3>2, <3>3
  <2> QED
    BY <2>3, <2>4
<1> QED
  BY <1>2, <1>3, <1>4, <1>5, <1>6 DEF thread, OnLockQueue

LEMMA ReleaseHandOffStep ==
    ASSUME IInv, NEW t \in Thread, NEW l \in Lock, ReleaseHandOff(t, l)
    PROVE  IInv'
<1> DEFINE thread == Head(lockWaiters[l])
<1> USE DEF IInv, ReleaseHandOff, AtUser, IsHeldBy, TypeOK, ThreadTypeOK, CallShape
<1>1. /\ thread \in Thread /\ thread # t
      /\ status[thread] = "BLOCKED"
      /\ resume[thread] = "Acquire"
      /\ argLock[thread] = l
      /\ OnLockQueue' /\ lockWaiters' \in [Lock -> Seq(Thread)]
      /\ OnReadyList' /\ readyList' \in Seq(Thread)
  <2>1. /\ status' = [status EXCEPT ![thread] = "READY"]
        /\ readyList' = Append(readyList, thread)
        /\ lockWaiters' = [lockWaiters EXCEPT ![l] = Tail(@)]
    OBVIOUS
  <2>2. thread \in Thread /\ thread # t
    BY RemoveQueue DEF OnePlace, OnLockQueue
  <2>3. /\ status' \in [Thread -> ThreadStatus]
        /\ status'[thread] = "READY"
        /\ status'[t] = "RUNNING"
        /\ \A u \in Thread \ {t, thread} : status'[u] = status[u]
    BY <2>1, <2>2
  <2> QED
    BY <2>1, <2>3, LockQueueRemove
<1>2. /\ status' = [status EXCEPT ![thread] = "READY"]
      /\ lockOwner' = [lockOwner EXCEPT ![l] = thread]
  OBVIOUS
<1> HIDE DEF thread
<1>3. TypeOK' /\ CallShape'
  BY <1>1, <1>2
<1>4. OnePlace'
  BY <1>1, <1>2 DEF OnePlace, OnCondQueue, OnSemQueue
<1>5. NoWaiterOnFreeLock' /\ OnlyFinishedDeleted' /\ OneLockPerCondition'
  BY <1>1, <1>2 DEF NoWaiterOnFreeLock, OnlyFinishedDeleted, OneLockPerCondition
<1>6. HandOff'
  BY <1>1, <1>2 DEF HandOff
<1> QED
  BY <1>3, <1>4, <1>5, <1>6

LEMMA ReleaseFreeStep ==
    ASSUME IInv, NEW t \in Thread, NEW l \in Lock, ReleaseFree(t, l)
    PROVE  IInv'
<1> USE DEF IInv, ReleaseFree, AtUser, IsHeldBy, TypeOK, ThreadTypeOK, CallShape
<1>1. TypeOK' /\ CallShape'
  OBVIOUS
<1>2. OnePlace'
  BY DEF OnePlace, OnReadyList, OnLockQueue, OnCondQueue, OnSemQueue
<1>3. NoWaiterOnFreeLock' /\ HandOff' /\ OneLockPerCondition' /\ OnlyFinishedDeleted'
  BY DEF NoWaiterOnFreeLock, HandOff, OneLockPerCondition, OnlyFinishedDeleted
<1> QED
  BY <1>1, <1>2, <1>3

\* The caller is appended to the queue of condition variable c.
LEMMA CondQueueAppend ==
    ASSUME TypeOK, OnCondQueue, NEW t \in Thread, NEW c \in Cond,
           status[t] = "RUNNING",
           condWaiters' = [condWaiters EXCEPT ![c] = Append(@, t)],
           status'[t] = "BLOCKED",
           \A u \in Thread \ {t} : resume[u] = "Wait" => status'[u] = status[u],
           resume' = [resume EXCEPT ![t] = "Wait"],
           argCond' = [argCond EXCEPT ![t] = c]
    PROVE  /\ OnCondQueue' /\ condWaiters' \in [Cond -> Seq(Thread)]
           /\ condWaiters'[c] # <<>>
           /\ Range(condWaiters'[c]) = Range(condWaiters[c]) \cup {t}
<1> USE DEF TypeOK, ThreadTypeOK
<1>1. condWaiters[c] \in Seq(Thread) /\ IsInjective(condWaiters[c])
      /\ t \notin Range(condWaiters[c])
  BY DEF OnCondQueue
<1>2. /\ Append(condWaiters[c], t) \in Seq(Thread)
      /\ Append(condWaiters[c], t) # <<>>
      /\ Range(Append(condWaiters[c], t)) = Range(condWaiters[c]) \cup {t}
      /\ IsInjective(Append(condWaiters[c], t))
  <2> HIDE DEF TypeOK, ThreadTypeOK
  <2> DEFINE q == condWaiters[c]
  <2>1. q \in Seq(Thread) /\ IsInjective(q) /\ t \notin Range(q)
    BY <1>1
  <2> HIDE DEF q
  <2>2. /\ Append(q, t) \in Seq(Thread)
        /\ Append(q, t) # <<>>
        /\ Range(Append(q, t)) = Range(q) \cup {t}
        /\ IsInjective(Append(q, t))
    BY ONLY <2>1, t \in Thread, AppendQueue, ZenonT(40)
  <2> QED
    BY <2>2 DEF q
<1>3. condWaiters' \in [Cond -> Seq(Thread)]
  BY <1>2
<1>4. ASSUME NEW k \in Cond
      PROVE  /\ IsInjective(condWaiters'[k])
             /\ \A u \in Thread : u \in Range(condWaiters'[k]) <=>
                   status'[u] = "BLOCKED" /\ resume'[u] = "Wait" /\ argCond'[u] = k
  <2>1. /\ IsInjective(condWaiters[k])
        /\ \A u \in Thread : u \in Range(condWaiters[k]) <=>
              status[u] = "BLOCKED" /\ resume[u] = "Wait" /\ argCond[u] = k
    BY DEF OnCondQueue
  <2>2. /\ IsInjective(condWaiters'[k])
        /\ Range(condWaiters'[k]) = Range(condWaiters[k]) \cup (IF k = c THEN {t} ELSE {})
    BY <1>2, <2>1
  <2>3. ASSUME NEW u \in Thread
        PROVE  u \in Range(condWaiters'[k]) <=>
                 status'[u] = "BLOCKED" /\ resume'[u] = "Wait" /\ argCond'[u] = k
    <3>1. CASE u = t
      BY <2>1, <2>2, <3>1
    <3>2. CASE u # t
      BY <2>1, <2>2, <3>2
    <3> QED
      BY <3>1, <3>2
  <2> QED
    BY <2>2, <2>3
<1> QED
  BY <1>2, <1>3, <1>4 DEF OnCondQueue

\* OneLockPerCondition after a thread has been queued with lock l.
LEMMA CondLockAppend ==
    ASSUME TypeOK, OneLockPerCondition, OnCondQueue,
           NEW t \in Thread, NEW c \in Cond, NEW l \in Lock,
           condLock[c] \in {NULL, l},
           condLock' = [condLock EXCEPT ![c] = l],
           condWaiters' = [condWaiters EXCEPT ![c] = Append(@, t)],
           condWaiters'[c] # <<>>,
           Range(condWaiters'[c]) = Range(condWaiters[c]) \cup {t},
           argLock' = [argLock EXCEPT ![t] = l],
           status[t] = "RUNNING"
    PROVE  OneLockPerCondition'
<1> USE DEF TypeOK, ThreadTypeOK
<1> SUFFICES ASSUME NEW k \in Cond
             PROVE  /\ condLock'[k] = NULL <=> condWaiters'[k] = <<>>
                    /\ \A u \in Range(condWaiters'[k]) : argLock'[u] = condLock'[k]
  BY DEF OneLockPerCondition
<1>1. \A j \in Cond : Range(condWaiters[j]) \subseteq Thread /\ t \notin Range(condWaiters[j])
  BY RangeOfSeq DEF OnCondQueue
<1>2. CASE k # c
  BY <1>1, <1>2 DEF OneLockPerCondition
<1>3. CASE k = c
  <2>1. condLock'[k] = l /\ l # NULL
    BY <1>3
  <2>2. ASSUME NEW u \in Range(condWaiters[c]) PROVE argLock'[u] = l
    <3>1. condWaiters[c] # <<>>
      BY <2>2, EmptyQueue
    <3>2. condLock[c] = l /\ argLock[u] = l
      BY <2>2, <3>1 DEF OneLockPerCondition
    <3> QED
      BY <1>1, <2>2, <3>2
  <2> QED
    BY <1>3, <2>1, <2>2
<1> QED
  BY <1>2, <1>3

LEMMA WaitSleepStep ==
    ASSUME IInv, NEW t \in Thread, NEW c \in Cond, NEW l \in Lock, WaitSleep(t, c, l)
    PROVE  IInv'
<1> USE DEF IInv, AtUser, IsHeldBy, TypeOK, ThreadTypeOK, CallShape
<1>1. /\ t = currentThread /\ status[t] = "RUNNING" /\ resume[t] = "User"
      /\ condLock[c] \in {NULL, l}
      /\ condLock' = [condLock EXCEPT ![c] = l]
      /\ condWaiters' = [condWaiters EXCEPT ![c] = Append(@, t)]
      /\ resume' = [resume EXCEPT ![t] = "Wait"]
      /\ argCond' = [argCond EXCEPT ![t] = c]
      /\ argLock' = [argLock EXCEPT ![t] = l]
      /\ UNCHANGED <<currentThread, threadToBeDestroyed, deleted, semVars, argSem, pending>>
  BY DEF WaitSleep
<1>2. /\ lockOwner' \in [Lock -> Thread \cup {NULL}]
      /\ lockState' \in [Lock -> {"FREE", "BUSY"}]
      /\ lockWaiters' \in [Lock -> Seq(Thread)]
      /\ readyList' \in Seq(Thread)
      /\ status' \in [Thread -> ThreadStatus]
      /\ status'[t] = "BLOCKED"
      /\ \A u \in Thread \ {t} :
            \/ status'[u] = status[u]
            \/ status'[u] = "READY" /\ status[u] = "BLOCKED" /\ resume[u] = "Acquire"
      /\ OnReadyList' /\ OnLockQueue'
      /\ NoWaiterOnFreeLock' /\ HandOff'
  <2>1. CASE ~IsHeldBy(l, t)
    <3>1. /\ status' = [status EXCEPT ![t] = "BLOCKED"]
          /\ UNCHANGED <<readyList, lockVars>>
      BY <2>1 DEF WaitSleep
    <3>2. OnReadyList' /\ OnLockQueue'
      BY <1>1, <3>1 DEF OnePlace, OnReadyList, OnLockQueue
    <3>3. NoWaiterOnFreeLock' /\ HandOff'
      BY <1>1, <3>1 DEF NoWaiterOnFreeLock, HandOff
    <3> QED
      BY <3>1, <3>2, <3>3
  <2>2. CASE IsHeldBy(l, t) /\ lockWaiters[l] = <<>>
    <3>1. /\ status' = [status EXCEPT ![t] = "BLOCKED"]
          /\ lockState' = [lockState EXCEPT ![l] = "FREE"]
          /\ lockOwner' = [lockOwner EXCEPT ![l] = NULL]
          /\ UNCHANGED <<readyList, lockWaiters>>
      BY <2>2 DEF WaitSleep
    <3>2. OnReadyList' /\ OnLockQueue'
      BY <1>1, <3>1 DEF OnePlace, OnReadyList, OnLockQueue
    <3>3. NoWaiterOnFreeLock' /\ HandOff'
      BY <1>1, <2>2, <3>1 DEF NoWaiterOnFreeLock, HandOff
    <3> QED
      BY <3>1, <3>2, <3>3
  <2>3. CASE IsHeldBy(l, t) /\ lockWaiters[l] # <<>>
    <3> DEFINE thread == Head(lockWaiters[l])
    <3>1. /\ lockWaiters' = [lockWaiters EXCEPT ![l] = Tail(@)]
          /\ lockOwner' = [lockOwner EXCEPT ![l] = thread]
          /\ status' = [status EXCEPT ![t] = "BLOCKED", ![thread] = "READY"]
          /\ readyList' = Append(readyList, thread)
          /\ UNCHANGED lockState
      BY <2>3 DEF WaitSleep
    <3>2. thread \in Thread /\ thread # t
      BY <1>1, <2>3, RemoveQueue DEF OnePlace, OnLockQueue
    <3>3. /\ status' \in [Thread -> ThreadStatus]
          /\ status'[thread] = "READY"
          /\ status'[t] = "BLOCKED"
          /\ \A u \in Thread \ {t, thread} : status'[u] = status[u]
          /\ resume' \in [Thread -> Routine]
          /\ resume'[t] = "Wait"
          /\ \A u \in Thread \ {t} : resume'[u] = resume[u] /\ argLock'[u] = argLock[u]
      BY <1>1, <3>1, <3>2
    <3>4. /\ status[thread] = "BLOCKED"
          /\ resume[thread] = "Acquire"
          /\ argLock[thread] = l
          /\ OnLockQueue' /\ lockWaiters' \in [Lock -> Seq(Thread)]
          /\ OnReadyList' /\ readyList' \in Seq(Thread)
      BY <1>1, <2>3, <3>1, <3>3, LockQueueRemove
    <3> HIDE DEF thread
    <3>5. NoWaiterOnFreeLock'
      BY <2>3, <3>1, <3>2 DEF NoWaiterOnFreeLock
    <3>6. HandOff'
      BY <1>1, <2>3, <3>1, <3>2, <3>3, <3>4 DEF HandOff
    <3>7. lockOwner' \in [Lock -> Thread \cup {NULL}] /\ lockState' \in [Lock -> {"FREE", "BUSY"}]
      BY <3>1, <3>2
    <3> QED
      BY <3>2, <3>3, <3>4, <3>5, <3>6, <3>7
  <2> QED
    BY <2>1, <2>2, <2>3
<1>3. /\ OnCondQueue' /\ condWaiters' \in [Cond -> Seq(Thread)]
      /\ condWaiters'[c] # <<>>
      /\ Range(condWaiters'[c]) = Range(condWaiters[c]) \cup {t}
  BY <1>1, <1>2, CondQueueAppend DEF OnePlace
<1>4. TypeOK'
  BY <1>1, <1>2, <1>3
<1>5. CallShape'
  BY <1>1, <1>2
<1>6. OnSemQueue'
  BY <1>1, <1>2 DEF OnePlace, OnSemQueue
<1>7. OnePlace'
  BY <1>1, <1>2, <1>3, <1>6 DEF OnePlace
<1>8. OneLockPerCondition'
  BY <1>1, <1>3, CondLockAppend DEF OnePlace
<1>9. OnlyFinishedDeleted'
  BY <1>1 DEF OnlyFinishedDeleted
<1> QED
  BY <1>2, <1>4, <1>5, <1>7, <1>8, <1>9

LEMMA WaitTakesLockStep ==
    ASSUME IInv, NEW t \in Thread, WaitTakesLock(t)
    PROVE  IInv'
<1> USE DEF IInv, WaitTakesLock, IsHeldBy, TypeOK, ThreadTypeOK, CallShape
<1>1. TypeOK' /\ CallShape'
  OBVIOUS
<1>2. OnePlace'
  BY DEF OnePlace, OnReadyList, OnLockQueue, OnCondQueue, OnSemQueue
<1>3. NoWaiterOnFreeLock' /\ HandOff' /\ OnlyFinishedDeleted'
  BY DEF NoWaiterOnFreeLock, HandOff, OnlyFinishedDeleted
<1>4. OneLockPerCondition'
  BY DEF OneLockPerCondition, OnePlace, OnCondQueue
<1> QED
  BY <1>1, <1>2, <1>3, <1>4

LEMMA WaitQueuesForLockStep ==
    ASSUME IInv, NEW t \in Thread, WaitQueuesForLock(t)
    PROVE  IInv'
<1> USE DEF IInv, WaitQueuesForLock, IsHeldBy, TypeOK, ThreadTypeOK, CallShape
<1>1. OnLockQueue' /\ lockWaiters' \in [Lock -> Seq(Thread)]
  BY LockQueueAppend DEF OnePlace
<1>2. TypeOK' /\ CallShape'
  BY <1>1
<1>3. OnePlace'
  BY <1>1 DEF OnePlace, OnReadyList, OnCondQueue, OnSemQueue
<1>4. NoWaiterOnFreeLock' /\ HandOff' /\ OnlyFinishedDeleted'
  BY DEF NoWaiterOnFreeLock, HandOff, OnlyFinishedDeleted
<1>5. OneLockPerCondition'
  BY DEF OneLockPerCondition, OnePlace, OnCondQueue
<1> QED
  BY <1>2, <1>3, <1>4, <1>5

\* Condition::Signal, called by Signal and by every iteration of Broadcast.
LEMMA SignalWakesStep ==
    ASSUME IInv, NEW t \in Thread, NEW c \in Cond, NEW l \in Lock,
           t = currentThread, status[t] = "RUNNING",
           SignalWakes(c, l),
           UNCHANGED <<currentThread, resume, threadToBeDestroyed, deleted,
                       lockVars, semVars, argVars, pending>>
    PROVE  IInv'
<1> DEFINE thread == Head(condWaiters[c])
<1> USE DEF IInv, TypeOK, ThreadTypeOK, CallShape
<1>1. /\ condWaiters[c] # <<>>
      /\ condLock[c] = l
      /\ condWaiters' = [condWaiters EXCEPT ![c] = Tail(@)]
      /\ condLock' = [condLock EXCEPT ![c] = IF Len(condWaiters[c]) = 1 THEN NULL ELSE @]
      /\ status' = [status EXCEPT ![thread] = "READY"]
      /\ readyList' = Append(readyList, thread)
  BY DEF SignalWakes
<1>2. condWaiters[c] \in Seq(Thread) /\ IsInjective(condWaiters[c])
  BY DEF OnePlace, OnCondQueue
<1>3. /\ thread \in Thread /\ thread \in Range(condWaiters[c])
      /\ Tail(condWaiters[c]) \in Seq(Thread)
      /\ Range(Tail(condWaiters[c])) = Range(condWaiters[c]) \ {thread}
      /\ IsInjective(Tail(condWaiters[c]))
  BY <1>1, <1>2, RemoveQueue
<1>4. /\ status[thread] = "BLOCKED"
      /\ resume[thread] = "Wait"
      /\ argCond[thread] = c
  BY <1>3 DEF OnePlace, OnCondQueue
<1>5. Tail(condWaiters[c]) = <<>> <=> Len(condWaiters[c]) = 1
  <2>1. Len(Tail(condWaiters[c])) = Len(condWaiters[c]) - 1
    BY <1>1, <1>2, HeadTailProperties
  <2>2. Len(condWaiters[c]) \in Nat
    BY <1>2, LenProperties
  <2>3. Tail(condWaiters[c]) = <<>> <=> Len(Tail(condWaiters[c])) = 0
    BY <1>3, EmptySeq
  <2> QED
    BY <2>1, <2>2, <2>3
<1> HIDE DEF thread
<1>6. OnReadyList' /\ readyList' \in Seq(Thread)
  BY <1>1, <1>3, <1>4, ReadyToRunPlace DEF OnePlace
<1>7. TypeOK' /\ CallShape'
  BY <1>1, <1>3, <1>4, <1>6
<1>8. OnLockQueue' /\ OnSemQueue'
  BY <1>1, <1>3, <1>4 DEF OnePlace, OnLockQueue, OnSemQueue
<1>9. \A k \in Cond : /\ IsInjective(condWaiters'[k])
                       /\ Range(condWaiters'[k]) =
                             Range(condWaiters[k]) \ (IF k = c THEN {thread} ELSE {})
  BY <1>1, <1>3 DEF OnePlace, OnCondQueue
<1>10. OnCondQueue'
  BY <1>1, <1>3, <1>4, <1>9 DEF OnePlace, OnCondQueue
<1>11. OnePlace'
  BY <1>1, <1>3, <1>6, <1>8, <1>10 DEF OnePlace
<1>12. OneLockPerCondition'
  <2> SUFFICES ASSUME NEW k \in Cond
               PROVE  /\ condLock'[k] = NULL <=> condWaiters'[k] = <<>>
                      /\ \A u \in Range(condWaiters'[k]) : argLock'[u] = condLock'[k]
    BY DEF OneLockPerCondition
  <2>1. CASE k # c
    BY <1>1, <2>1 DEF OneLockPerCondition
  <2>2. CASE k = c /\ Len(condWaiters[c]) = 1
    BY <1>1, <1>5, <2>2, EmptyQueue
  <2>3. CASE k = c /\ Len(condWaiters[c]) # 1
    BY <1>1, <1>5, <1>9, <2>3 DEF OneLockPerCondition
  <2> QED
    BY <2>1, <2>2, <2>3
<1>13. NoWaiterOnFreeLock' /\ HandOff' /\ OnlyFinishedDeleted'
  BY <1>1, <1>3, <1>4 DEF NoWaiterOnFreeLock, HandOff, OnlyFinishedDeleted
<1> QED
  BY <1>7, <1>11, <1>12, <1>13

\* A step that changes no variable preserves the invariant.
LEMMA StutterStep ==
    ASSUME IInv, UNCHANGED vars
    PROVE  IInv'
BY DEF vars, IInv, TypeOK, ThreadTypeOK, OnePlace, OnReadyList, OnLockQueue,
       OnCondQueue, OnSemQueue, CallShape, NoWaiterOnFreeLock, HandOff,
       OneLockPerCondition, OnlyFinishedDeleted

LEMMA SignalStep ==
    ASSUME IInv, NEW t \in Thread, NEW c \in Cond, NEW l \in Lock, Signal(t, c, l)
    PROVE  IInv'
<1>1. CASE SignalWakes(c, l)
  BY <1>1, SignalWakesStep DEF Signal, AtUser
<1>2. CASE SignalIgnored(c, l)
  BY <1>2, StutterStep DEF Signal, SignalIgnored, vars
<1> QED
  BY <1>1, <1>2 DEF Signal

LEMMA BroadcastLoopStep ==
    ASSUME IInv, NEW t \in Thread, BroadcastLoop(t)
    PROVE  IInv'
<1>1. argCond[t] \in Cond /\ argLock[t] \in Lock
  BY DEF BroadcastLoop, InBroadcast, IInv, CallShape
<1>2. CASE SignalWakes(argCond[t], argLock[t])
  BY <1>1, <1>2, SignalWakesStep DEF BroadcastLoop, InBroadcast
<1>3. CASE SignalIgnored(argCond[t], argLock[t])
  BY <1>3, StutterStep DEF BroadcastLoop, SignalIgnored, vars
<1> QED
  BY <1>2, <1>3 DEF BroadcastLoop

LEMMA BroadcastCallStep ==
    ASSUME IInv, NEW t \in Thread, NEW c \in Cond, NEW l \in Lock, BroadcastCall(t, c, l)
    PROVE  IInv'
<1> USE DEF IInv, BroadcastCall, AtUser, TypeOK, ThreadTypeOK, CallShape
<1>1. TypeOK' /\ CallShape'
  OBVIOUS
<1>2. OnePlace'
  BY DEF OnePlace, OnReadyList, OnLockQueue, OnCondQueue, OnSemQueue
<1>3. NoWaiterOnFreeLock' /\ HandOff' /\ OnlyFinishedDeleted'
  BY DEF NoWaiterOnFreeLock, HandOff, OnlyFinishedDeleted
<1>4. OneLockPerCondition'
  BY DEF OneLockPerCondition, OnePlace, OnCondQueue
<1> QED
  BY <1>1, <1>2, <1>3, <1>4

LEMMA BroadcastReturnStep ==
    ASSUME IInv, NEW t \in Thread, BroadcastReturn(t)
    PROVE  IInv'
<1> USE DEF IInv, BroadcastReturn, InBroadcast, TypeOK, ThreadTypeOK, CallShape
<1>1. TypeOK' /\ CallShape'
  OBVIOUS
<1>2. OnePlace'
  BY DEF OnePlace, OnReadyList, OnLockQueue, OnCondQueue, OnSemQueue
<1>3. NoWaiterOnFreeLock' /\ HandOff' /\ OnlyFinishedDeleted'
  BY DEF NoWaiterOnFreeLock, HandOff, OnlyFinishedDeleted
<1>4. OneLockPerCondition'
  BY DEF OneLockPerCondition, OnePlace, OnCondQueue
<1> QED
  BY <1>1, <1>2, <1>3, <1>4

\* One evaluation of the loop of Semaphore::P, on entry or after Sleep.
LEMMA PEvaluationStep ==
    ASSUME IInv, NEW t \in Thread, NEW s \in Sem,
           t = currentThread, status[t] = "RUNNING", resume[t] \in {"User", "P"},
           PTakes(t, s) \/ PSleeps(t, s),
           UNCHANGED <<currentThread, readyList, threadToBeDestroyed, deleted,
                       lockVars, condVars, argLock, argCond, pending>>
    PROVE  IInv'
<1> USE DEF IInv, TypeOK, ThreadTypeOK, CallShape
<1>1. CASE PTakes(t, s)
  <2> USE <1>1 DEF PTakes
  <2>1. TypeOK' /\ CallShape'
    OBVIOUS
  <2>2. OnePlace'
    BY DEF OnePlace, OnReadyList, OnLockQueue, OnCondQueue, OnSemQueue
  <2>3. NoWaiterOnFreeLock' /\ HandOff' /\ OneLockPerCondition' /\ OnlyFinishedDeleted'
    BY DEF NoWaiterOnFreeLock, HandOff, OneLockPerCondition, OnlyFinishedDeleted
  <2> QED
    BY <2>1, <2>2, <2>3
<1>2. CASE PSleeps(t, s)
  <2> USE <1>2 DEF PSleeps
  <2>1. semQueue[s] \in Seq(Thread) /\ IsInjective(semQueue[s]) /\ t \notin Range(semQueue[s])
    BY DEF OnePlace, OnSemQueue
  <2>2. /\ Append(semQueue[s], t) \in Seq(Thread)
        /\ Range(Append(semQueue[s], t)) = Range(semQueue[s]) \cup {t}
        /\ IsInjective(Append(semQueue[s], t))
    <3> DEFINE q == semQueue[s]
    <3>1. q \in Seq(Thread) /\ IsInjective(q) /\ t \notin Range(q)
      BY <2>1
    <3> HIDE DEF q
    <3>2. /\ Append(q, t) \in Seq(Thread)
          /\ Range(Append(q, t)) = Range(q) \cup {t}
          /\ IsInjective(Append(q, t))
      BY ONLY <3>1, t \in Thread, AppendQueue, Zenon
    <3> QED
      BY <3>2 DEF q
  <2>3. TypeOK' /\ CallShape'
    BY <2>2
  <2>4. \A k \in Sem : /\ IsInjective(semQueue'[k])
                        /\ Range(semQueue'[k]) =
                              Range(semQueue[k]) \cup (IF k = s THEN {t} ELSE {})
    BY <2>2 DEF OnePlace, OnSemQueue
  <2>5. OnSemQueue'
    BY <2>4 DEF OnePlace, OnSemQueue
  <2>6. OnePlace'
    BY <2>5 DEF OnePlace, OnReadyList, OnLockQueue, OnCondQueue
  <2>7. NoWaiterOnFreeLock' /\ HandOff' /\ OneLockPerCondition' /\ OnlyFinishedDeleted'
    BY DEF NoWaiterOnFreeLock, HandOff, OneLockPerCondition, OnlyFinishedDeleted
  <2> QED
    BY <2>3, <2>6, <2>7
<1> QED
  BY <1>1, <1>2

\* The body of Semaphore::V, in a thread or in an interrupt handler.
LEMMA IncrementStep ==
    ASSUME IInv, NEW s \in Sem, Increment(s), pending' \in Nat,
           UNCHANGED <<currentThread, resume, threadToBeDestroyed, deleted,
                       lockVars, condVars, argVars>>
    PROVE  IInv'
<1> USE DEF IInv, TypeOK, ThreadTypeOK, CallShape
<1>1. semValue' \in [Sem -> Nat]
  BY DEF Increment
<1>2. CASE semQueue[s] = <<>>
  <2>1. UNCHANGED <<readyList, status, semQueue>>
    BY <1>2 DEF Increment
  <2> QED
    BY <1>1, <2>1 DEF OnePlace, OnReadyList, OnLockQueue, OnCondQueue, OnSemQueue,
                      NoWaiterOnFreeLock, HandOff, OneLockPerCondition, OnlyFinishedDeleted
<1>3. CASE semQueue[s] # <<>>
  <2> DEFINE thread == Head(semQueue[s])
  <2>1. /\ semQueue' = [semQueue EXCEPT ![s] = Tail(@)]
        /\ status' = [status EXCEPT ![thread] = "READY"]
        /\ readyList' = Append(readyList, thread)
    BY <1>3 DEF Increment
  <2>2. /\ thread \in Thread /\ thread \in Range(semQueue[s])
        /\ Tail(semQueue[s]) \in Seq(Thread)
        /\ Range(Tail(semQueue[s])) = Range(semQueue[s]) \ {thread}
        /\ IsInjective(Tail(semQueue[s]))
    BY <1>3, RemoveQueue DEF OnePlace, OnSemQueue
  <2>3. status[thread] = "BLOCKED" /\ resume[thread] = "P" /\ argSem[thread] = s
    BY <2>2 DEF OnePlace, OnSemQueue
  <2> HIDE DEF thread
  <2>4. OnReadyList' /\ readyList' \in Seq(Thread)
    BY <2>1, <2>2, <2>3, ReadyToRunPlace DEF OnePlace
  <2>5. TypeOK' /\ CallShape'
    BY <1>1, <2>1, <2>2, <2>3, <2>4
  <2>6. \A k \in Sem : /\ IsInjective(semQueue'[k])
                        /\ Range(semQueue'[k]) =
                              Range(semQueue[k]) \ (IF k = s THEN {thread} ELSE {})
    BY <2>1, <2>2 DEF OnePlace, OnSemQueue
  <2>7. OnSemQueue'
    BY <2>1, <2>2, <2>3, <2>6 DEF OnePlace, OnSemQueue
  <2>8. OnLockQueue' /\ OnCondQueue'
    BY <2>1, <2>2, <2>3 DEF OnePlace, OnLockQueue, OnCondQueue
  <2>9. OnePlace'
    BY <2>1, <2>2, <2>4, <2>7, <2>8 DEF OnePlace
  <2>10. NoWaiterOnFreeLock' /\ HandOff' /\ OneLockPerCondition' /\ OnlyFinishedDeleted'
    BY <2>1, <2>2, <2>3 DEF NoWaiterOnFreeLock, HandOff, OneLockPerCondition, OnlyFinishedDeleted
  <2> QED
    BY <2>5, <2>9, <2>10
<1> QED
  BY <1>2, <1>3

LEMMA StartDeviceStep ==
    ASSUME IInv, NEW t \in Thread, StartDevice(t)
    PROVE  IInv'
BY DEF StartDevice, IInv, TypeOK, ThreadTypeOK, OnePlace, OnReadyList, OnLockQueue,
       OnCondQueue, OnSemQueue, CallShape, NoWaiterOnFreeLock, HandOff,
       OneLockPerCondition, OnlyFinishedDeleted

-----------------------------------------------------------------------------
\* Every step preserves the inductive invariant.
LEMMA NextIInv == IInv /\ [Next]_vars => IInv'
<1> SUFFICES ASSUME IInv, [Next]_vars PROVE IInv'
  OBVIOUS
<1>1. ASSUME NEW t \in Thread, Call(t) PROVE IInv'
  <2>1. ASSUME NEW child \in Thread, Fork(t, child), UNCHANGED synchVars PROVE IInv'
    BY <2>1, ForkStep
  <2>2. ASSUME Finish(t), UNCHANGED synchVars PROVE IInv'
    BY <2>2, FinishStep
  <2>3. ASSUME NEW l \in Lock, Acquire(t, l) PROVE IInv'
    BY <2>3, StutterStep, AcquireFreeStep, AcquireBusyStep DEF Acquire, AcquireHeld
  <2>4. ASSUME NEW l \in Lock, Release(t, l) PROVE IInv'
    BY <2>4, StutterStep, ReleaseHandOffStep, ReleaseFreeStep DEF Release, ReleaseNotHeld
  <2>5. ASSUME NEW c \in Cond, NEW l \in Lock, Wait(t, c, l) PROVE IInv'
    BY <2>5, StutterStep, WaitSleepStep DEF Wait, WaitMismatch
  <2>6. ASSUME NEW c \in Cond, NEW l \in Lock, Signal(t, c, l) \/ BroadcastCall(t, c, l)
        PROVE  IInv'
    BY <2>6, SignalStep, BroadcastCallStep
  <2>7. ASSUME NEW s \in Sem, P(t, s) PROVE IInv'
    BY <2>7, PEvaluationStep DEF P, AtUser
  <2>8. ASSUME NEW s \in Sem, V(t, s) PROVE IInv'
    <3>1. pending' \in Nat
      BY <2>8 DEF V, IInv, TypeOK
    <3> QED
      BY <2>8, <3>1, IncrementStep DEF V
  <2>9. ASSUME StartDevice(t) PROVE IInv'
    BY <2>9, StartDeviceStep
  <2> QED
    BY <1>1, <2>1, <2>2, <2>3, <2>4, <2>5, <2>6, <2>7, <2>8, <2>9 DEF Call
<1>2. ASSUME NEW t \in Thread, Continue(t) PROVE IInv'
  <2>1. ASSUME PResume(t) PROVE IInv'
    <3>1. argSem[t] \in Sem
      BY <2>1 DEF PResume, IInv, CallShape
    <3> QED
      BY <2>1, <3>1, PEvaluationStep DEF PResume
  <2> QED
    BY <1>2, <2>1, AcquireReturnStep, WaitTakesLockStep, WaitQueuesForLockStep,
       BroadcastLoopStep, BroadcastReturnStep DEF Continue, WaitResume
<1>3. ASSUME Switch PROVE IInv'
  <2>1. ASSUME NEW s \in Sem, DeviceInterrupt(s) PROVE IInv'
    <3>1. pending' \in Nat
      BY <2>1 DEF DeviceInterrupt, IInv, TypeOK
    <3> QED
      BY <2>1, <3>1, IncrementStep DEF DeviceInterrupt
  <2> QED
    BY <1>3, <2>1, RunStep, YieldStep DEF Switch
<1>4. CASE UNCHANGED vars
  BY <1>4, StutterStep
<1> QED
  BY <1>1, <1>2, <1>3, <1>4 DEF Next

LEMMA Invariance == Spec => []IInv
BY InitIInv, NextIInv, PTL DEF Spec

\* Type correctness of the kernel's thread and synchronisation state
\* (threads/thread.h, scheduler.h, synch.h).
THEOREM TypeCorrect == Spec => []TypeOK
<1>1. IInv => TypeOK
  BY DEF IInv
<1> QED
  BY <1>1, Invariance, PTL

\* Every thread is in exactly one place: running, on the ready list, or on the
\* queue of the one object it waits for (scheduler.cc, synch.cc).
THEOREM ThreadsInOnePlace == Spec => []OnePlace
<1>1. IInv => OnePlace
  BY DEF IInv
<1> QED
  BY <1>1, Invariance, PTL

\* Lock::Release never leaves a waiter behind on a free lock, and a lock is
\* free exactly when it has no owner (synch.cc:120-185).
THEOREM FreeLocksHaveNoWaiters == Spec => []NoWaiterOnFreeLock
<1>1. IInv => NoWaiterOnFreeLock
  BY DEF IInv
<1> QED
  BY <1>1, Invariance, PTL

\* The thread that Lock::Release takes off the queue owns the lock until it
\* has returned from Lock::Acquire (synch.cc:166-173).
THEOREM HandOffIsKept == Spec => []HandOff
<1>1. IInv => HandOff
  BY DEF IInv
<1> QED
  BY <1>1, Invariance, PTL

\* Condition::waitingLock is set exactly while threads wait, and is the lock
\* of each of them (synch.cc:210-286).
THEOREM ConditionsRememberTheirLock == Spec => []OneLockPerCondition
<1>1. IInv => OneLockPerCondition
  BY DEF IInv
<1> QED
  BY <1>1, Invariance, PTL

\* No queue of the kernel holds a thread that Scheduler::Run has deallocated,
\* and no thread is deallocated twice (scheduler.cc:134-141).
THEOREM DeletedThreadsAreGone == Spec => []NoDanglingThread
<1>1. IInv => NoDanglingThread
  <2> SUFFICES ASSUME IInv PROVE NoDanglingThread
    OBVIOUS
  <2>1. \A t \in deleted : t \in Thread /\ status[t] = "BLOCKED" /\ resume[t] = "Finished"
    BY DEF IInv, TypeOK, ThreadTypeOK, OnlyFinishedDeleted, CallShape
  <2>2. currentThread \notin deleted /\ threadToBeDestroyed \notin deleted
    BY DEF IInv, OnlyFinishedDeleted
  <2>3. Range(readyList) \cap deleted = {}
    BY <2>1 DEF IInv, OnePlace, OnReadyList
  <2>4. \A l \in Lock : Range(lockWaiters[l]) \cap deleted = {}
    BY <2>1 DEF IInv, OnePlace, OnLockQueue
  <2>5. \A c \in Cond : Range(condWaiters[c]) \cap deleted = {}
    BY <2>1 DEF IInv, OnePlace, OnCondQueue
  <2>6. \A s \in Sem : Range(semQueue[s]) \cap deleted = {}
    BY <2>1 DEF IInv, OnePlace, OnSemQueue
  <2> QED
    BY <2>2, <2>3, <2>4, <2>5, <2>6 DEF NoDanglingThread
<1> QED
  BY <1>1, Invariance, PTL

\* Condition::Wait returns, after it slept, only to the owner of the lock that
\* was passed to it, also when it had to queue for the lock behind others
\* (synch.cc:240-251).
THEOREM WaitReturnsToTheOwner == Spec => WaitReturnsHolding
<1> DEFINE Holds == \A t \in Thread : argCond[t] # NULL /\ resume[t] \in {"Wait", "Acquire"}
                                        /\ resume'[t] = "User"
                       => lockOwner'[argLock[t]] = t
<1>1. ASSUME IInv, [Next]_vars PROVE [Holds]_vars
  <2> SUFFICES ASSUME Next,
                      NEW t \in Thread, resume[t] \in {"Wait", "Acquire"}, resume'[t] = "User"
               PROVE  lockOwner'[argLock[t]] = t
    BY <1>1 DEF vars
  <2> USE <1>1 DEF IInv, TypeOK, ThreadTypeOK
  <2>1. ASSUME NEW u \in Thread, Call(u) PROVE FALSE
    <3>1. resume[u] = "User"
      BY <2>1 DEF Call, AtUser, Fork, Finish, Acquire, AcquireHeld, AcquireFree, AcquireBusy,
                  Release, ReleaseNotHeld, ReleaseHandOff, ReleaseFree, Wait, WaitMismatch,
                  WaitSleep, Signal, BroadcastCall, P, V, StartDevice
    <3>2. u # t
      BY <3>1
    <3>3. resume'[t] = resume[t]
      BY <2>1, <3>2 DEF Call, Fork, Finish, Acquire, AcquireHeld, AcquireFree, AcquireBusy,
                  Release, ReleaseNotHeld, ReleaseHandOff, ReleaseFree, Wait, WaitMismatch,
                  WaitSleep, Signal, BroadcastCall, P, PTakes, PSleeps, V, StartDevice, vars
    <3> QED
      BY <3>3
  <2>2. ASSUME NEW u \in Thread, Continue(u) PROVE lockOwner'[argLock[t]] = t
    <3>1. CASE AcquireReturn(u)
      <4>1. u = t
        BY <3>1 DEF AcquireReturn
      <4> QED
        BY <3>1, <4>1 DEF AcquireReturn, HandOff
    <3>2. CASE WaitTakesLock(u)
      <4>1. u = t
        BY <3>2 DEF WaitTakesLock
      <4>2. argLock[t] \in Lock
        BY <3>2, <4>1 DEF WaitTakesLock, CallShape
      <4> QED
        BY <3>2, <4>1, <4>2 DEF WaitTakesLock
    <3>3. CASE WaitQueuesForLock(u)
      BY <3>3 DEF WaitQueuesForLock
    <3>4. CASE PResume(u)
      BY <3>4 DEF PResume, PTakes, PSleeps
    <3>5. CASE BroadcastLoop(u) \/ BroadcastReturn(u)
      BY <3>5 DEF BroadcastLoop, BroadcastReturn, InBroadcast
    <3> QED
      BY <2>2, <3>1, <3>2, <3>3, <3>4, <3>5 DEF Continue, WaitResume
  <2>3. ASSUME Switch PROVE FALSE
    <3>1. CASE Run
      <4>1. resume' = resume \/ (resume[Head(readyList)] = "New"
                                  /\ resume' = [resume EXCEPT ![Head(readyList)] = "User"])
        BY <3>1 DEF Run
      <4> QED
        BY <4>1
    <3>2. CASE ~Run
      BY <2>3, <3>2 DEF Switch, Yield, DeviceInterrupt
    <3> QED
      BY <3>1, <3>2
  <2> QED
    BY <2>1, <2>2, <2>3 DEF Next
<1> QED
  BY <1>1, Invariance, PTL DEF Spec, WaitReturnsHolding

-----------------------------------------------------------------------------
(* What the queues promise to those who wait on them: Semaphore::V loses no *)
(* wakeup, and nobody overtakes a thread that waits for a lock.             *)

\* Only finitely many threads are on their way to a semaphore's value; without
\* it they could not be counted.
WokenFinite == \A s \in Sem : IsFiniteSet(Woken(s))

WakeupInv == IInv /\ WokenFinite /\ NoLostWakeup

LEMMA InitWakeup == Init => WokenFinite /\ NoLostWakeup
<1> SUFFICES ASSUME Init PROVE WokenFinite /\ NoLostWakeup
  OBVIOUS
<1>1. \A t \in Thread : resume[t] # "P"
  BY DEF Init, ThreadInit
<1>2. \A s \in Sem : Woken(s) = {}
  BY <1>1 DEF Woken
<1>3. \A s \in Sem : semQueue[s] = <<>>
  BY DEF Init, SynchInit
<1> QED
  BY <1>2, <1>3, FS_EmptySet DEF WokenFinite, NoLostWakeup

-----------------------------------------------------------------------------
\* A step that has nothing to do with the semaphore s: its value and queue
\* stay, and so do the threads on their way to it.
Untouched(s) ==
    /\ semValue'[s] = semValue[s]
    /\ semQueue'[s] = semQueue[s]
    /\ Woken(s)' = Woken(s)

\* A step that keeps the property of one semaphore.
Kept(s) ==
    /\ IsFiniteSet(Woken(s)')
    /\ semQueue'[s] # <<>> => Cardinality(Woken(s)') >= semValue'[s]

LEMMA UntouchedKept ==
    ASSUME WakeupInv, NEW s \in Sem, Untouched(s)
    PROVE  Kept(s)
BY DEF WakeupInv, WokenFinite, NoLostWakeup, Untouched, Kept

\* A step outside P and V moves no thread that is inside P, except that Run
\* may give it the CPU.
LEMMA OutsideSemaphores ==
    ASSUME UNCHANGED semVars, UNCHANGED argSem,
           \A t \in Thread :
              (resume'[t] = "P" /\ status'[t] # "BLOCKED")
                 <=> (resume[t] = "P" /\ status[t] # "BLOCKED"),
           NEW s \in Sem
    PROVE  Untouched(s)
BY DEF Untouched, Woken

LEMMA CallUntouched ==
    ASSUME IInv, NEW t \in Thread, Call(t),
           \A s \in Sem : ~P(t, s) /\ ~V(t, s),
           NEW s \in Sem
    PROVE  Untouched(s)
<1> DEFINE Same == \A u \in Thread :
              (resume'[u] = "P" /\ status'[u] # "BLOCKED")
                 <=> (resume[u] = "P" /\ status[u] # "BLOCKED")
<1> USE DEF IInv, TypeOK, ThreadTypeOK, CallShape, AtUser
<1>1. ASSUME NEW child \in Thread, Fork(t, child), UNCHANGED synchVars
      PROVE  Untouched(s)
  <2>1. Same
    BY <1>1 DEF Fork
  <2> QED
    BY <1>1, <2>1, OutsideSemaphores
<1>2. ASSUME Finish(t), UNCHANGED synchVars PROVE Untouched(s)
  <2>1. Same
    BY <1>2 DEF Finish
  <2> QED
    BY <1>2, <2>1, OutsideSemaphores
<1>3. ASSUME NEW l \in Lock, Acquire(t, l) PROVE Untouched(s)
  <2>1. Same /\ UNCHANGED semVars /\ UNCHANGED argSem
    BY <1>3 DEF Acquire, AcquireHeld, AcquireFree, AcquireBusy, vars
  <2> QED
    BY <2>1, OutsideSemaphores
<1>4. ASSUME NEW l \in Lock, Release(t, l) PROVE Untouched(s)
  <2>1. CASE ReleaseHandOff(t, l)
    <3>1. Head(lockWaiters[l]) \in Thread /\ resume[Head(lockWaiters[l])] = "Acquire"
      BY <2>1, RemoveQueue DEF ReleaseHandOff, OnePlace, OnLockQueue
    <3>2. Same
      BY <2>1, <3>1 DEF ReleaseHandOff
    <3> QED
      BY <2>1, <3>2, OutsideSemaphores DEF ReleaseHandOff
  <2>2. CASE ReleaseNotHeld(t, l) \/ ReleaseFree(t, l)
    <3>1. Same /\ UNCHANGED semVars /\ UNCHANGED argSem
      BY <2>2 DEF ReleaseNotHeld, ReleaseFree, vars
    <3> QED
      BY <3>1, OutsideSemaphores
  <2> QED
    BY <1>4, <2>1, <2>2 DEF Release
<1>5. ASSUME NEW c \in Cond, NEW l \in Lock, Wait(t, c, l) PROVE Untouched(s)
  <2>1. CASE WaitSleep(t, c, l)
    <3>1. resume' = [resume EXCEPT ![t] = "Wait"] /\ UNCHANGED semVars /\ UNCHANGED argSem
      BY <2>1 DEF WaitSleep
    <3>2. CASE IsHeldBy(l, t) /\ lockWaiters[l] # <<>>
      <4> DEFINE thread == Head(lockWaiters[l])
      <4>1. thread \in Thread /\ resume[thread] = "Acquire"
        BY <3>2, RemoveQueue DEF OnePlace, OnLockQueue
      <4>2. status' = [status EXCEPT ![t] = "BLOCKED", ![thread] = "READY"]
        BY <2>1, <3>2 DEF WaitSleep
      <4> HIDE DEF thread
      <4>3. Same
        BY <2>1, <3>1, <4>1, <4>2 DEF WaitSleep
      <4> QED
        BY <3>1, <4>3, OutsideSemaphores
    <3>3. CASE ~(IsHeldBy(l, t) /\ lockWaiters[l] # <<>>)
      <4>1. status' = [status EXCEPT ![t] = "BLOCKED"]
        BY <2>1, <3>3 DEF WaitSleep
      <4>2. Same
        BY <2>1, <3>1, <4>1 DEF WaitSleep
      <4> QED
        BY <3>1, <4>2, OutsideSemaphores
    <3> QED
      BY <3>2, <3>3
  <2>2. CASE WaitMismatch(t, c, l)
    <3>1. Same /\ UNCHANGED semVars /\ UNCHANGED argSem
      BY <2>2 DEF WaitMismatch, vars
    <3> QED
      BY <3>1, OutsideSemaphores
  <2> QED
    BY <1>5, <2>1, <2>2 DEF Wait
<1>6. ASSUME NEW c \in Cond, NEW l \in Lock, BroadcastCall(t, c, l)
      PROVE  Untouched(s)
  <2>1. Same /\ UNCHANGED semVars /\ UNCHANGED argSem
    BY <1>6 DEF BroadcastCall
  <2> QED
    BY <2>1, OutsideSemaphores
<1>7. ASSUME NEW c \in Cond, NEW l \in Lock, Signal(t, c, l) PROVE Untouched(s)
  <2>1. UNCHANGED <<resume, semVars, argSem>>
    BY <1>7 DEF Signal
  <2>2. CASE SignalWakes(c, l)
    <3>1. Head(condWaiters[c]) \in Thread /\ resume[Head(condWaiters[c])] = "Wait"
      BY <2>2, RemoveQueue DEF SignalWakes, OnePlace, OnCondQueue
    <3>2. Same
      BY <2>1, <2>2, <3>1 DEF SignalWakes
    <3> QED
      BY <2>1, <3>2, OutsideSemaphores
  <2>3. CASE SignalIgnored(c, l)
    <3>1. Same
      BY <2>1, <2>3 DEF SignalIgnored
    <3> QED
      BY <2>1, <3>1, OutsideSemaphores
  <2> QED
    BY <1>7, <2>2, <2>3 DEF Signal
<1>8. ASSUME StartDevice(t) PROVE Untouched(s)
  <2>1. Same /\ UNCHANGED semVars /\ UNCHANGED argSem
    BY <1>8 DEF StartDevice
  <2> QED
    BY <2>1, OutsideSemaphores
<1> QED
  BY <1>1, <1>2, <1>3, <1>4, <1>5, <1>6, <1>7, <1>8 DEF Call

LEMMA ContinueUntouched ==
    ASSUME IInv, NEW t \in Thread, Continue(t), ~PResume(t), NEW s \in Sem
    PROVE  Untouched(s)
<1> DEFINE Same == \A u \in Thread :
              (resume'[u] = "P" /\ status'[u] # "BLOCKED")
                 <=> (resume[u] = "P" /\ status[u] # "BLOCKED")
<1> USE DEF IInv, TypeOK, ThreadTypeOK, CallShape
<1>1. CASE AcquireReturn(t) \/ WaitTakesLock(t) \/ WaitQueuesForLock(t) \/ BroadcastReturn(t)
  <2>1. Same /\ UNCHANGED semVars /\ UNCHANGED argSem
    BY <1>1 DEF AcquireReturn, WaitTakesLock, WaitQueuesForLock, BroadcastReturn, InBroadcast
  <2> QED
    BY <2>1, OutsideSemaphores
<1>2. CASE BroadcastLoop(t)
  <2> DEFINE c == argCond[t]
             l == argLock[t]
  <2>1. c \in Cond /\ l \in Lock
    BY <1>2 DEF BroadcastLoop, InBroadcast
  <2>2. UNCHANGED <<resume, semVars, argSem>>
    BY <1>2 DEF BroadcastLoop
  <2>3. SignalIgnored(c, l) \/ SignalWakes(c, l)
    BY <1>2 DEF BroadcastLoop
  <2> HIDE DEF c, l
  <2>4. CASE SignalWakes(c, l)
    <3>1. Head(condWaiters[c]) \in Thread /\ resume[Head(condWaiters[c])] = "Wait"
      BY <2>1, <2>4, RemoveQueue DEF SignalWakes, OnePlace, OnCondQueue
    <3>2. Same
      BY <2>2, <2>4, <3>1 DEF SignalWakes
    <3> QED
      BY <2>2, <3>2, OutsideSemaphores
  <2>5. CASE SignalIgnored(c, l)
    <3>1. Same
      BY <2>2, <2>5 DEF SignalIgnored
    <3> QED
      BY <2>2, <3>1, OutsideSemaphores
  <2> QED
    BY <2>3, <2>4, <2>5
<1> QED
  BY <1>1, <1>2 DEF Continue, WaitResume

LEMMA SwitchUntouched ==
    ASSUME IInv, Switch, \A s \in Sem : ~DeviceInterrupt(s), NEW s \in Sem
    PROVE  Untouched(s)
<1> DEFINE Same == \A u \in Thread :
              (resume'[u] = "P" /\ status'[u] # "BLOCKED")
                 <=> (resume[u] = "P" /\ status[u] # "BLOCKED")
<1> USE DEF IInv, TypeOK, ThreadTypeOK, CallShape
<1>1. CASE Run /\ UNCHANGED synchVars
  <2> DEFINE next == Head(readyList)
  <2>1. next \in Thread /\ status[next] = "READY"
    BY <1>1, RemoveQueue DEF Run, OnePlace, OnReadyList
  <2>2. /\ status' = [status EXCEPT ![next] = "RUNNING"]
        /\ \/ resume' = resume
           \/ resume[next] = "New" /\ resume' = [resume EXCEPT ![next] = "User"]
    BY <1>1 DEF Run
  <2> HIDE DEF next
  <2>3. Same
    BY <2>1, <2>2
  <2> QED
    BY <1>1, <2>3, OutsideSemaphores
<1>2. ASSUME NEW t \in Thread, Yield(t), UNCHANGED synchVars PROVE Untouched(s)
  <2>1. Same
    BY <1>2 DEF Yield, Interruptible
  <2> QED
    BY <1>2, <2>1, OutsideSemaphores
<1> QED
  BY <1>1, <1>2 DEF Switch

-----------------------------------------------------------------------------
\* One evaluation of the loop of Semaphore::P takes a unit of the value and at
\* most one thread from those on their way, or finds the value 0.
LEMMA PEvaluationKept ==
    ASSUME WakeupInv, NEW t \in Thread, NEW s \in Sem,
           t = currentThread, status[t] = "RUNNING", resume[t] \in {"User", "P"},
           resume[t] = "P" => argSem[t] = s,
           PTakes(t, s) \/ PSleeps(t, s),
           NEW k \in Sem
    PROVE  Kept(k)
<1> USE DEF WakeupInv, IInv, TypeOK, ThreadTypeOK
<1>1. CASE k # s
  <2>1. semValue'[k] = semValue[k] /\ semQueue'[k] = semQueue[k]
    BY <1>1 DEF PTakes, PSleeps
  <2>2. t \notin Woken(k)
    BY <1>1 DEF Woken
  <2>3. resume'[t] = "User" \/ status'[t] = "BLOCKED"
    BY DEF PTakes, PSleeps
  <2>4. \A u \in Thread \ {t} :
           resume'[u] = resume[u] /\ status'[u] = status[u] /\ argSem'[u] = argSem[u]
    BY DEF PTakes, PSleeps
  <2>5. Woken(k)' = Woken(k)
    BY <2>2, <2>3, <2>4 DEF Woken
  <2> QED
    BY <2>1, <2>5, UntouchedKept DEF Untouched
<1>2. CASE k = s
  <2>1. resume'[t] = "User" \/ status'[t] = "BLOCKED"
    BY DEF PTakes, PSleeps
  <2>2. \A u \in Thread \ {t} :
           resume'[u] = resume[u] /\ status'[u] = status[u] /\ argSem'[u] = argSem[u]
    BY DEF PTakes, PSleeps
  <2>3. Woken(k)' = Woken(k) \ {t}
    BY <2>1, <2>2 DEF Woken
  <2>4. IsFiniteSet(Woken(k)) /\ Cardinality(Woken(k)) \in Nat
    BY FS_CardinalityType DEF WokenFinite
  <2>5. /\ IsFiniteSet(Woken(k) \ {t})
        /\ Cardinality(Woken(k) \ {t}) \in Nat
        /\ Cardinality(Woken(k) \ {t}) >= Cardinality(Woken(k)) - 1
    <3>1. IsFiniteSet(Woken(k) \ {t})
      BY <2>4, FS_RemoveElement
    <3>2. Cardinality(Woken(k) \ {t})
             = IF t \in Woken(k) THEN Cardinality(Woken(k)) - 1 ELSE Cardinality(Woken(k))
      BY <2>4, FS_RemoveElement
    <3>3. Cardinality(Woken(k) \ {t}) \in Nat
      BY <3>1, FS_CardinalityType
    <3> QED
      BY <2>4, <3>1, <3>2, <3>3
  <2>6. CASE PTakes(t, s)
    <3>1. semQueue'[k] = semQueue[k] /\ semValue'[k] = semValue[k] - 1 /\ semValue[k] \in Nat
      BY <1>2, <2>6 DEF PTakes
    <3>2. semQueue[k] # <<>> => Cardinality(Woken(k)) >= semValue[k]
      BY DEF NoLostWakeup
    <3> QED
      BY <2>3, <2>4, <2>5, <3>1, <3>2 DEF Kept
  <2>7. CASE PSleeps(t, s)
    <3>1. semValue'[k] = 0
      BY <1>2, <2>7 DEF PSleeps
    <3> QED
      BY <2>3, <2>5, <3>1 DEF Kept
  <2> QED
    BY <2>6, <2>7
<1> QED
  BY <1>1, <1>2

\* The body of Semaphore::V adds one unit and, when threads sleep, one thread
\* on its way.
LEMMA IncrementKept ==
    ASSUME WakeupInv, NEW s \in Sem, Increment(s), UNCHANGED <<resume, argVars>>,
           NEW k \in Sem
    PROVE  Kept(k)
<1> USE DEF WakeupInv, IInv, TypeOK, ThreadTypeOK
<1>1. CASE semQueue[s] = <<>>
  <2>1. UNCHANGED <<status, semQueue>>
    BY <1>1 DEF Increment
  <2>2. Woken(k)' = Woken(k)
    BY <2>1 DEF Woken
  <2>3. CASE k = s
    <3>1. semQueue'[k] = <<>>
      BY <1>1, <2>1, <2>3
    <3> QED
      BY <2>2, <3>1 DEF Kept, WokenFinite
  <2>4. CASE k # s
    <3>1. semValue'[k] = semValue[k]
      BY <2>4 DEF Increment
    <3> QED
      BY <2>1, <2>2, <3>1, UntouchedKept DEF Untouched
  <2> QED
    BY <2>3, <2>4
<1>2. CASE semQueue[s] # <<>>
  <2> DEFINE thread == Head(semQueue[s])
  <2>1. /\ semQueue' = [semQueue EXCEPT ![s] = Tail(@)]
        /\ status' = [status EXCEPT ![thread] = "READY"]
        /\ semValue' = [semValue EXCEPT ![s] = @ + 1]
    BY <1>2 DEF Increment
  <2>2. thread \in Thread /\ thread \in Range(semQueue[s])
    BY <1>2, RemoveQueue DEF OnePlace, OnSemQueue
  <2>3. status[thread] = "BLOCKED" /\ resume[thread] = "P" /\ argSem[thread] = s
    BY <2>2 DEF OnePlace, OnSemQueue
  <2> HIDE DEF thread
  <2>4. CASE k # s
    <3>1. semValue'[k] = semValue[k] /\ semQueue'[k] = semQueue[k]
      BY <2>1, <2>4
    <3>2. Woken(k)' = Woken(k)
      BY <2>1, <2>2, <2>3, <2>4 DEF Woken
    <3> QED
      BY <3>1, <3>2, UntouchedKept DEF Untouched
  <2>5. CASE k = s
    <3>1. Woken(k)' = Woken(k) \cup {thread}
      BY <2>1, <2>2, <2>3, <2>5 DEF Woken
    <3>2. thread \notin Woken(k)
      BY <2>3 DEF Woken
    <3>3. IsFiniteSet(Woken(k)) /\ Cardinality(Woken(k)) \in Nat
      BY FS_CardinalityType DEF WokenFinite
    <3>4. /\ IsFiniteSet(Woken(k) \cup {thread})
          /\ Cardinality(Woken(k) \cup {thread}) = Cardinality(Woken(k)) + 1
      BY <3>2, <3>3, FS_AddElement
    <3>5. Cardinality(Woken(k)) >= semValue[k] /\ semValue[k] \in Nat
      BY <1>2, <2>5 DEF NoLostWakeup
    <3>6. semValue'[k] = semValue[k] + 1
      BY <2>1, <2>5
    <3> QED
      BY <3>1, <3>3, <3>4, <3>5, <3>6 DEF Kept
  <2> QED
    BY <2>4, <2>5
<1> QED
  BY <1>1, <1>2

-----------------------------------------------------------------------------
LEMMA NextKept ==
    ASSUME WakeupInv, [Next]_vars, NEW k \in Sem
    PROVE  Kept(k)
<1>1. ASSUME NEW t \in Thread, Call(t) PROVE Kept(k)
  <2>1. ASSUME NEW s \in Sem, P(t, s) PROVE Kept(k)
    BY <2>1, PEvaluationKept DEF P, AtUser
  <2>2. ASSUME NEW s \in Sem, V(t, s) PROVE Kept(k)
    BY <2>2, IncrementKept DEF V
  <2>3. CASE \A s \in Sem : ~P(t, s) /\ ~V(t, s)
    BY <1>1, <2>3, CallUntouched, UntouchedKept DEF WakeupInv
  <2> QED
    BY <2>1, <2>2, <2>3
<1>2. ASSUME NEW t \in Thread, Continue(t) PROVE Kept(k)
  <2>1. CASE PResume(t)
    <3>1. argSem[t] \in Sem
      BY <2>1 DEF PResume, WakeupInv, IInv, CallShape
    <3> QED
      BY <2>1, <3>1, PEvaluationKept DEF PResume
  <2>2. CASE ~PResume(t)
    BY <1>2, <2>2, ContinueUntouched, UntouchedKept DEF WakeupInv
  <2> QED
    BY <2>1, <2>2
<1>3. ASSUME Switch PROVE Kept(k)
  <2>1. ASSUME NEW s \in Sem, DeviceInterrupt(s) PROVE Kept(k)
    BY <2>1, IncrementKept DEF DeviceInterrupt
  <2>2. CASE \A s \in Sem : ~DeviceInterrupt(s)
    BY <1>3, <2>2, SwitchUntouched, UntouchedKept DEF WakeupInv
  <2> QED
    BY <2>1, <2>2
<1>4. CASE UNCHANGED vars
  <2>1. UNCHANGED <<resume, status, argSem, semValue, semQueue>>
    BY <1>4 DEF vars
  <2>2. Untouched(k)
    BY <2>1 DEF Untouched, Woken
  <2> QED
    BY <2>2, UntouchedKept
<1> QED
  BY <1>1, <1>2, <1>3, <1>4 DEF Next

LEMMA NextWakeup == WakeupInv /\ [Next]_vars => WakeupInv'
<1> SUFFICES ASSUME WakeupInv, [Next]_vars PROVE WakeupInv'
  OBVIOUS
<1>1. IInv'
  BY NextIInv DEF WakeupInv
<1>2. \A k \in Sem : Kept(k)
  BY NextKept
<1>3. WokenFinite' /\ NoLostWakeup'
  BY <1>2 DEF Kept, WokenFinite, NoLostWakeup
<1> QED
  BY <1>1, <1>3 DEF WakeupInv

\* While threads sleep on a semaphore, every unit of its value has a thread
\* that V took off the queue and that has not yet looked at the value again,
\* whoever calls P and V in between (synch.cc:59-97).
THEOREM NoWakeupIsLost == Spec => []NoLostWakeup
<1>1. Init => WakeupInv
  BY InitIInv, InitWakeup DEF WakeupInv
<1>2. WakeupInv => NoLostWakeup
  BY DEF WakeupInv
<1> QED
  BY <1>1, <1>2, NextWakeup, PTL DEF Spec

-----------------------------------------------------------------------------
\* What a step does to the queue of a lock: nothing, a thread goes to its end,
\* or the first one leaves and is the owner.
QueueMoves(l) ==
    \/ lockWaiters'[l] = lockWaiters[l]
    \/ \E t \in Thread : lockWaiters'[l] = Append(lockWaiters[l], t)
    \/ /\ lockWaiters[l] # <<>>
       /\ lockWaiters'[l] = Tail(lockWaiters[l])
       /\ lockOwner'[l] = Head(lockWaiters[l])

LEMMA NextQueueMoves ==
    ASSUME IInv, [Next]_vars, NEW l \in Lock
    PROVE  QueueMoves(l)
<1> USE DEF IInv, TypeOK, ThreadTypeOK, QueueMoves
<1>1. ASSUME NEW t \in Thread, Call(t) PROVE QueueMoves(l)
  <2>1. ASSUME NEW k \in Lock, Acquire(t, k) PROVE QueueMoves(l)
    <3>1. \/ lockWaiters' = lockWaiters
          \/ lockWaiters' = [lockWaiters EXCEPT ![k] = Append(@, t)]
      BY <2>1 DEF Acquire, AcquireHeld, AcquireFree, AcquireBusy, vars
    <3> QED
      BY <3>1
  <2>2. ASSUME NEW k \in Lock, Release(t, k) PROVE QueueMoves(l)
    BY <2>2 DEF Release, ReleaseNotHeld, ReleaseHandOff, ReleaseFree, vars
  <2>3. ASSUME NEW c \in Cond, NEW k \in Lock, WaitSleep(t, c, k) PROVE QueueMoves(l)
    <3>1. \/ lockWaiters' = lockWaiters
          \/ /\ lockWaiters[k] # <<>>
             /\ lockWaiters' = [lockWaiters EXCEPT ![k] = Tail(@)]
             /\ lockOwner' = [lockOwner EXCEPT ![k] = Head(lockWaiters[k])]
      BY <2>3 DEF WaitSleep
    <3> QED
      BY <3>1
  <2>4. ASSUME NEW c \in Cond, NEW k \in Lock,
               WaitMismatch(t, c, k) \/ Signal(t, c, k) \/ BroadcastCall(t, c, k)
        PROVE  QueueMoves(l)
    BY <2>4 DEF WaitMismatch, Signal, BroadcastCall, vars
  <2>5. ASSUME NEW s \in Sem, P(t, s) \/ V(t, s) PROVE QueueMoves(l)
    BY <2>5 DEF P, V
  <2>6. ASSUME UNCHANGED lockVars PROVE QueueMoves(l)
    BY <2>6
  <2> QED
    BY <1>1, <2>1, <2>2, <2>3, <2>4, <2>5, <2>6 DEF Call, Wait, StartDevice
<1>2. ASSUME NEW t \in Thread, Continue(t) PROVE QueueMoves(l)
  <2>1. CASE WaitQueuesForLock(t)
    <3>1. argLock[t] \in Lock
      BY <2>1 DEF WaitQueuesForLock, CallShape
    <3>2. lockWaiters' = [lockWaiters EXCEPT ![argLock[t]] = Append(@, t)]
      BY <2>1 DEF WaitQueuesForLock
    <3> QED
      BY <3>1, <3>2
  <2>2. CASE ~WaitQueuesForLock(t)
    <3>1. lockWaiters' = lockWaiters
      BY <1>2, <2>2 DEF Continue, WaitResume, AcquireReturn, WaitTakesLock, PResume,
                        BroadcastLoop, BroadcastReturn
    <3> QED
      BY <3>1
  <2> QED
    BY <2>1, <2>2
<1>3. ASSUME Switch PROVE QueueMoves(l)
  <2>1. lockWaiters' = lockWaiters
    BY <1>3 DEF Switch, DeviceInterrupt
  <2> QED
    BY <2>1
<1>4. CASE UNCHANGED vars
  BY <1>4 DEF vars
<1> QED
  BY <1>1, <1>2, <1>3, <1>4 DEF Next

\* Where the thread at position i of a queue is after such a step.
LEMMA PlaceAfterMove ==
    ASSUME IInv, NEW l \in Lock, QueueMoves(l), NEW i \in 1..Len(lockWaiters[l])
    PROVE  \/ i <= Len(lockWaiters'[l]) /\ lockWaiters'[l][i] = lockWaiters[l][i]
           \/ i > 1 /\ lockWaiters'[l][i-1] = lockWaiters[l][i]
           \/ i = 1 /\ lockOwner'[l] = lockWaiters[l][i]
<1> DEFINE q == lockWaiters[l]
<1>1. q \in Seq(Thread) /\ Len(q) \in Nat
  BY LenProperties DEF IInv, TypeOK
<1>2. CASE lockWaiters'[l] = q
  BY <1>1, <1>2
<1>3. ASSUME NEW t \in Thread, lockWaiters'[l] = Append(q, t)
      PROVE  i <= Len(lockWaiters'[l]) /\ lockWaiters'[l][i] = q[i]
  <2> HIDE DEF q
  <2>1. i \in 1..Len(q)
    BY DEF q
  <2>2. Len(Append(q, t)) = Len(q) + 1 /\ Append(q, t)[i] = q[i]
    BY <1>1, <2>1, AppendProperties
  <2> QED
    BY <1>1, <1>3, <2>1, <2>2
<1>4. CASE q # <<>> /\ lockWaiters'[l] = Tail(q) /\ lockOwner'[l] = Head(q)
  <2>1. CASE i = 1
    BY <1>4, <2>1
  <2>2. CASE i > 1
    <3> HIDE DEF q
    <3>1. i \in 1..Len(q)
      BY DEF q
    <3>2. Len(Tail(q)) = Len(q) - 1 /\ \A j \in 1..Len(Tail(q)) : Tail(q)[j] = q[j + 1]
      BY <1>1, <1>4, HeadTailProperties
    <3>3. i - 1 \in 1..Len(Tail(q)) /\ (i - 1) + 1 = i
      BY <1>1, <2>2, <3>1, <3>2
    <3>4. Tail(q)[i - 1] = q[i]
      BY <3>2, <3>3
    <3> QED
      BY <1>4, <2>2, <3>4 DEF q
  <2> QED
    BY <1>1, <2>1, <2>2
<1> QED
  BY <1>2, <1>3, <1>4 DEF QueueMoves

\* Lock::Acquire serves its callers in the order they queued: at every step a
\* waiter keeps its position, moves one up, or, from the first one, becomes
\* the owner (synch.cc:120-185).
THEOREM NobodyOvertakes == Spec => NoOvertaking
<1> DEFINE Orderly ==
        \A l \in Lock : \A i \in 1..Len(lockWaiters[l]) :
          LET t == lockWaiters[l][i] IN
          \/ i <= Len(lockWaiters'[l]) /\ lockWaiters'[l][i] = t
          \/ i > 1 /\ lockWaiters'[l][i-1] = t
          \/ i = 1 /\ lockOwner'[l] = t
<1>1. ASSUME IInv, [Next]_vars PROVE [Orderly]_vars
  BY <1>1, NextQueueMoves, PlaceAfterMove
<1> QED
  BY <1>1, Invariance, PTL DEF Spec, NoOvertaking

-----------------------------------------------------------------------------
(* The synchronised list. *)

USE ListAssumption
USE DEF listVars

InMethod == {"append", "appended", "remove", "mapcar"}

\* The strengthening of OwnerIsInside: which kernel routine a thread can be
\* inside of, and with which lock, in each method.
MethodShape ==
    /\ pc \in [Thread -> InMethod \cup {"idle", "removed"}]
    /\ \A t \in Thread :
        /\ resume[t] \in {"New", "User", "Acquire", "Wait", "Finished"}
        /\ resume[t] = "New" => pc[t] = "idle"
        /\ resume[t] \in {"Acquire", "Wait"} => pc[t] \in InMethod /\ argLock[t] = lock

LInv == MethodShape /\ OwnerIsInside

-----------------------------------------------------------------------------
\* A step of the list is a step of module Synch, or leaves it unchanged.
LEMMA KernelStep == [ListNext]_allVars => [Next]_vars
<1> SUFFICES ASSUME [ListNext]_allVars PROVE [Next]_vars
  OBVIOUS
<1>1. CASE UNCHANGED allVars
  BY <1>1 DEF allVars
<1>2. CASE Dispatch
  BY <1>2 DEF Dispatch, Next, Switch
<1>3. ASSUME NEW t \in Thread, Method(t) PROVE [Next]_vars
  <2>1. CASE AppendBody(t)
    BY <2>1 DEF AppendBody, Next, Call
  <2>2. CASE AppendReturn(t) \/ RemoveTake(t) \/ MapcarReturn(t)
    BY <2>2 DEF AppendReturn, RemoveTake, MapcarReturn, Next, Call
  <2>3. CASE RemoveWait(t)
    BY <2>3 DEF RemoveWait, Next, Call
  <2>4. CASE RemoveReturn(t)
    BY <2>4 DEF RemoveReturn
  <2>5. CASE Continue(t)
    BY <2>5 DEF Next
  <2> QED
    BY <1>3, <2>1, <2>2, <2>3, <2>4, <2>5 DEF Method
<1>4. ASSUME NEW t \in Thread, Invoke(t) PROVE [Next]_vars
  <2>1. CASE Acquire(t, lock)
    BY <2>1 DEF Next, Call
  <2>2. CASE UNCHANGED synchVars /\ (Finish(t) \/ \E child \in Thread : Fork(t, child))
    BY <2>2 DEF Next, Call
  <2> QED
    BY <1>4, <2>1, <2>2 DEF Invoke, AppendCall, RemoveCall, MapcarCall
<1>5. ASSUME NEW t \in Thread, Preempt(t) PROVE [Next]_vars
  BY <1>5 DEF Preempt, Next, Switch
<1> QED
  BY <1>1, <1>2, <1>3, <1>4, <1>5 DEF ListNext

\* The synchronised list uses the kernel as the kernel may be used: its
\* behaviours are behaviours of module Synch (synchlist.cc calls nothing but
\* the methods of Lock and Condition).
THEOREM ListImplementsKernel == ListSpec => Spec
<1>1. ListInit => Init
  BY DEF ListInit
<1> QED
  BY <1>1, KernelStep, PTL DEF ListSpec, Spec

-----------------------------------------------------------------------------
LEMMA InitLInv == ListInit => LInv
BY DEF ListInit, Init, ThreadInit, SynchInit, LInv, MethodShape, InMethod, OwnerIsInside

\* Acquire at the start of a method.
LEMMA AcquireLInv ==
    ASSUME IInv, LInv, NEW t \in Thread, NEW m \in InMethod,
           pc[t] = "idle", Acquire(t, lock), pc' = [pc EXCEPT ![t] = m]
    PROVE  LInv'
<1> USE DEF IInv, TypeOK, ThreadTypeOK, LInv, MethodShape, InMethod, AtUser, IsHeldBy
<1>1. ~AcquireHeld(t, lock)
  BY DEF AcquireHeld, OwnerIsInside
<1>2. CASE AcquireFree(t, lock)
  <2>1. lockOwner[lock] = NULL /\ lockOwner'[lock] = t
    BY <1>2 DEF AcquireFree, NoWaiterOnFreeLock
  <2>2. MethodShape'
    BY <1>2 DEF AcquireFree
  <2>3. OwnerIsInside'
    BY <1>2, <2>1 DEF AcquireFree, OwnerIsInside
  <2> QED
    BY <2>2, <2>3
<1>3. CASE AcquireBusy(t, lock)
  BY <1>3 DEF AcquireBusy, OwnerIsInside
<1> QED
  BY <1>1, <1>2, <1>3 DEF Acquire

\* Release at the end of a method.
LEMMA ReleaseLInv ==
    ASSUME IInv, LInv, NEW t \in Thread, NEW p \in {"idle", "removed"},
           pc[t] \in InMethod, Release(t, lock), pc' = [pc EXCEPT ![t] = p]
    PROVE  LInv'
<1> USE DEF IInv, TypeOK, ThreadTypeOK, LInv, MethodShape, InMethod, AtUser, IsHeldBy
<1>1. resume[t] = "User" /\ lockOwner[lock] = t
  BY DEF Release, ReleaseNotHeld, ReleaseHandOff, ReleaseFree, OwnerIsInside
<1>2. CASE ReleaseHandOff(t, lock)
  <2> DEFINE u == Head(lockWaiters[lock])
  <2>1. u \in Thread /\ u \in Range(lockWaiters[lock])
    BY <1>2, RemoveQueue DEF ReleaseHandOff, OnePlace, OnLockQueue
  <2>2. status[u] = "BLOCKED" /\ resume[u] = "Acquire" /\ u # t
    BY <1>1, <2>1 DEF OnePlace, OnLockQueue
  <2>3. /\ lockOwner'[lock] = u
        /\ status' = [status EXCEPT ![u] = "READY"]
        /\ UNCHANGED <<resume, argLock>>
    BY <1>2 DEF ReleaseHandOff
  <2> HIDE DEF u
  <2>4. MethodShape'
    BY <1>1, <2>3
  <2>5. OwnerIsInside'
    BY <1>1, <2>1, <2>2, <2>3 DEF OwnerIsInside
  <2> QED
    BY <2>4, <2>5
<1>3. CASE ReleaseFree(t, lock)
  <2>1. lockOwner'[lock] = NULL
    BY <1>3 DEF ReleaseFree
  <2> QED
    BY <1>1, <1>3, <2>1 DEF ReleaseFree, OwnerIsInside
<1> QED
  BY <1>1, <1>2, <1>3 DEF Release, ReleaseNotHeld

\* The wait inside Remove.
LEMMA WaitLInv ==
    ASSUME IInv, LInv, NEW t \in Thread,
           pc[t] = "remove", Wait(t, listEmpty, lock), UNCHANGED pc
    PROVE  LInv'
<1> USE DEF IInv, TypeOK, ThreadTypeOK, LInv, MethodShape, InMethod, AtUser, IsHeldBy
<1>1. CASE WaitMismatch(t, listEmpty, lock)
  BY <1>1 DEF WaitMismatch, vars, OwnerIsInside
<1>2. CASE WaitSleep(t, listEmpty, lock)
  <2>1. resume[t] = "User" /\ lockOwner[lock] = t
    BY <1>2 DEF WaitSleep, OwnerIsInside
  <2>2. /\ resume' = [resume EXCEPT ![t] = "Wait"]
        /\ argLock' = [argLock EXCEPT ![t] = lock]
    BY <1>2 DEF WaitSleep
  <2>3. MethodShape'
    BY <2>2
  <2>4. CASE lockWaiters[lock] # <<>>
    <3> DEFINE u == Head(lockWaiters[lock])
    <3>1. u \in Thread /\ u \in Range(lockWaiters[lock])
      BY <2>4, RemoveQueue DEF OnePlace, OnLockQueue
    <3>2. status[u] = "BLOCKED" /\ resume[u] = "Acquire" /\ u # t
      BY <2>1, <3>1 DEF OnePlace, OnLockQueue
    <3>3. /\ lockOwner'[lock] = u
          /\ status' = [status EXCEPT ![t] = "BLOCKED", ![u] = "READY"]
      BY <1>2, <2>1, <2>4 DEF WaitSleep
    <3> HIDE DEF u
    <3>4. OwnerIsInside'
      BY <2>1, <2>2, <3>1, <3>2, <3>3 DEF OwnerIsInside
    <3> QED
      BY <2>3, <3>4
  <2>5. CASE lockWaiters[lock] = <<>>
    <3>1. lockOwner'[lock] = NULL /\ status' = [status EXCEPT ![t] = "BLOCKED"]
      BY <1>2, <2>1, <2>5 DEF WaitSleep
    <3> QED
      BY <2>1, <2>2, <2>3, <3>1 DEF OwnerIsInside
  <2> QED
    BY <2>4, <2>5
<1> QED
  BY <1>1, <1>2 DEF Wait

\* The signal inside Append.
LEMMA SignalLInv ==
    ASSUME IInv, LInv, NEW t \in Thread,
           pc[t] = "append", Signal(t, listEmpty, lock), pc' = [pc EXCEPT ![t] = "appended"]
    PROVE  LInv'
<1> USE DEF IInv, TypeOK, ThreadTypeOK, LInv, MethodShape, InMethod, AtUser
<1>1. UNCHANGED <<lockOwner, resume, argLock>>
  BY DEF Signal
<1>2. MethodShape'
  BY <1>1
<1>3. ASSUME NEW u \in Thread, resume[u] = "Acquire" PROVE status'[u] = status[u]
  <2>1. CASE SignalIgnored(listEmpty, lock)
    BY <2>1 DEF SignalIgnored
  <2>2. CASE SignalWakes(listEmpty, lock)
    <3> DEFINE w == Head(condWaiters[listEmpty])
    <3>1. w \in Range(condWaiters[listEmpty]) /\ w \in Thread
      BY <2>2, RemoveQueue DEF SignalWakes, OnePlace, OnCondQueue
    <3>2. w # u
      BY <1>3, <3>1 DEF OnePlace, OnCondQueue
    <3>3. status' = [status EXCEPT ![w] = "READY"]
      BY <2>2 DEF SignalWakes
    <3> QED
      BY <3>2, <3>3
  <2> QED
    BY <2>1, <2>2 DEF Signal
<1>4. OwnerIsInside'
  BY <1>1, <1>3 DEF OwnerIsInside, Signal
<1> QED
  BY <1>2, <1>4

\* The rest of a call that slept.
LEMMA ContinueLInv ==
    ASSUME IInv, LInv, NEW t \in Thread, Continue(t), UNCHANGED pc
    PROVE  LInv'
<1> USE DEF IInv, TypeOK, ThreadTypeOK, LInv, MethodShape, InMethod, IsHeldBy
<1>1. CASE AcquireReturn(t)
  BY <1>1 DEF AcquireReturn, OwnerIsInside
<1>2. CASE WaitTakesLock(t)
  <2>1. argLock[t] = lock /\ pc[t] \in InMethod
    BY <1>2 DEF WaitTakesLock
  <2>2. lockOwner[lock] = NULL
    BY <1>2, <2>1 DEF WaitTakesLock, OwnerIsInside, NoWaiterOnFreeLock
  <2>3. lockOwner'[lock] = t
    BY <1>2, <2>1 DEF WaitTakesLock
  <2> QED
    BY <1>2, <2>1, <2>2, <2>3 DEF WaitTakesLock, OwnerIsInside
<1>3. CASE WaitQueuesForLock(t)
  <2>1. lockOwner[lock] # t
    BY <1>3 DEF WaitQueuesForLock
  <2> QED
    BY <1>3, <2>1 DEF WaitQueuesForLock, OwnerIsInside
<1>4. ~PResume(t) /\ ~BroadcastLoop(t) /\ ~BroadcastReturn(t)
  BY DEF PResume, BroadcastLoop, BroadcastReturn, InBroadcast
<1> QED
  BY <1>1, <1>2, <1>3, <1>4 DEF Continue, WaitResume

\* The scheduler.
LEMMA SchedulerLInv ==
    ASSUME IInv, LInv, UNCHANGED <<synchVars, pc>>,
           \/ Run
           \/ \E t \in Thread : Yield(t)
           \/ \E t \in Thread : pc[t] = "idle" /\ Finish(t)
           \/ \E t, child \in Thread : Fork(t, child)
    PROVE  LInv'
<1> USE DEF IInv, TypeOK, ThreadTypeOK, LInv, MethodShape, InMethod
<1>1. CASE Run
  <2> DEFINE u == Head(readyList)
  <2>1. u \in Thread /\ u \in Range(readyList)
    BY <1>1, RemoveQueue DEF Run, OnePlace, OnReadyList
  <2>2. status[u] = "READY" /\ status' = [status EXCEPT ![u] = "RUNNING"]
    BY <1>1, <2>1 DEF Run, OnePlace, OnReadyList
  <2>3. \/ resume' = resume
        \/ resume[u] = "New" /\ resume' = [resume EXCEPT ![u] = "User"]
    BY <1>1 DEF Run
  <2> HIDE DEF u
  <2> QED
    BY <2>1, <2>2, <2>3 DEF OwnerIsInside
<1>2. ASSUME NEW t \in Thread, Yield(t) PROVE LInv'
  BY <1>2 DEF Yield, Interruptible, OwnerIsInside
<1>3. ASSUME NEW t \in Thread, pc[t] = "idle", Finish(t) PROVE LInv'
  BY <1>3 DEF Finish, AtUser, OwnerIsInside
<1>4. ASSUME NEW t \in Thread, NEW child \in Thread, Fork(t, child) PROVE LInv'
  BY <1>4 DEF Fork, OwnerIsInside, CallShape
<1> QED
  BY <1>1, <1>2, <1>3, <1>4

-----------------------------------------------------------------------------
\* Every step preserves the invariant.
LEMMA NextLInv == IInv /\ LInv /\ [ListNext]_allVars => LInv'
<1> SUFFICES ASSUME IInv, LInv, [ListNext]_allVars PROVE LInv'
  OBVIOUS
<1>1. CASE UNCHANGED allVars
  BY <1>1 DEF allVars, vars, LInv, MethodShape, OwnerIsInside
<1>2. CASE Dispatch
  BY <1>2, SchedulerLInv DEF Dispatch
<1>3. ASSUME NEW t \in Thread, Method(t) PROVE LInv'
  <2>1. CASE AppendBody(t)
    BY <2>1, SignalLInv DEF AppendBody
  <2>2. CASE AppendReturn(t) \/ RemoveTake(t) \/ MapcarReturn(t)
    BY <2>2, ReleaseLInv DEF AppendReturn, RemoveTake, MapcarReturn, InMethod
  <2>3. CASE RemoveWait(t)
    BY <2>3, WaitLInv DEF RemoveWait
  <2>4. CASE RemoveReturn(t)
    BY <2>4 DEF RemoveReturn, AtUser, vars, LInv, MethodShape, InMethod, OwnerIsInside
  <2>5. CASE Continue(t) /\ UNCHANGED listVars
    BY <2>5, ContinueLInv
  <2> QED
    BY <1>3, <2>1, <2>2, <2>3, <2>4, <2>5 DEF Method
<1>4. ASSUME NEW t \in Thread, Invoke(t) PROVE LInv'
  <2>1. ASSUME NEW x \in Item, AppendCall(t, x) PROVE LInv'
    BY <2>1, AcquireLInv DEF AppendCall, InMethod
  <2>2. CASE RemoveCall(t) \/ MapcarCall(t)
    BY <2>2, AcquireLInv DEF RemoveCall, MapcarCall, InMethod
  <2>3. CASE /\ pc[t] = "idle"
             /\ Finish(t) \/ \E child \in Thread : Fork(t, child)
             /\ UNCHANGED <<synchVars, listVars>>
    BY <2>3, SchedulerLInv
  <2> QED
    BY <1>4, <2>1, <2>2, <2>3 DEF Invoke
<1>5. ASSUME NEW t \in Thread, Preempt(t) PROVE LInv'
  BY <1>5, SchedulerLInv DEF Preempt
<1> QED
  BY <1>1, <1>2, <1>3, <1>4, <1>5 DEF ListNext

\* The list's lock is owned by the thread inside a method, or by the one it
\* was handed to, and never by a thread that is outside (synchlist.cc:53-98).
THEOREM ListLockOwner == ListSpec => []OwnerIsInside
<1>1. LInv => OwnerIsInside
  BY DEF LInv
<1> QED
  BY <1>1, InitLInv, NextLInv, Invariance, ListImplementsKernel, PTL DEF ListSpec

\* At most one thread is between Acquire and Release of the list's lock.
THEOREM ListMutualExclusion == ListSpec => []MutualExclusion
<1>1. OwnerIsInside => MutualExclusion
  BY DEF OwnerIsInside, MutualExclusion, Inside
<1> QED
  BY <1>1, ListLockOwner, PTL

-----------------------------------------------------------------------------
(* What Append and Remove promise each other. *)

\* The only wait of a method is the one in Remove, on listEmpty.
WaitShape ==
    \A t \in Thread : resume[t] = "Wait" => pc[t] = "remove" /\ argCond[t] = listEmpty

\* What the variables of the list hold.
ItemTypes ==
    /\ list \in Seq(Item)
    /\ item \in [Thread -> Item \cup {NULL}]
    /\ \A t \in Thread : pc[t] \in {"append", "appended", "removed"} => item[t] \in Item

\* The invariant for the removers: those on their way can be counted, and they
\* are enough for the items while another one sleeps.
Counted == IsFiniteSet(OnTheWay) /\ NoLostSignal

RInv == WaitShape /\ ItemTypes /\ Counted

Both == IInv /\ LInv /\ RInv

LEMMA InitRInv == ListInit => RInv
<1> SUFFICES ASSUME ListInit PROVE RInv
  OBVIOUS
<1> USE DEF ListInit, Init, ThreadInit, SynchInit
<1>1. WaitShape
  BY DEF WaitShape
<1>2. ItemTypes
  BY EmptyQueue DEF ItemTypes
<1>3. OnTheWay = {}
  BY DEF OnTheWay
<1> QED
  BY <1>1, <1>2, <1>3, FS_EmptySet DEF RInv, Counted, NoLostSignal

\* Whether the thread u is on its way to the list.
Comes(u) == pc[u] = "remove" /\ ~(resume[u] = "Wait" /\ status[u] = "BLOCKED")

\* A step that moves nobody on the way, and neither the list nor its waiters.
LEMMA SameRemovers ==
    ASSUME RInv, list' = list, condWaiters'[listEmpty] = condWaiters[listEmpty],
           \A u \in Thread : Comes(u)' <=> Comes(u)
    PROVE  Counted'
<1>1. OnTheWay' = OnTheWay
  BY DEF OnTheWay, Comes
<1> QED
  BY <1>1 DEF RInv, Counted, NoLostSignal

\* A thread that calls Remove is on its way at once.
LEMMA MoreRemovers ==
    ASSUME RInv, list' = list, condWaiters'[listEmpty] = condWaiters[listEmpty],
           NEW t \in Thread, ~Comes(t), Comes(t)',
           \A u \in Thread \ {t} : Comes(u)' <=> Comes(u)
    PROVE  Counted'
<1>1. OnTheWay' = OnTheWay \cup {t} /\ t \notin OnTheWay
  BY DEF OnTheWay, Comes
<1>2. IsFiniteSet(OnTheWay)
  BY DEF RInv, Counted
<1>3. Cardinality(OnTheWay) \in Nat
  BY <1>2, FS_CardinalityType
<1>4. /\ IsFiniteSet(OnTheWay \cup {t})
      /\ Cardinality(OnTheWay \cup {t}) = Cardinality(OnTheWay) + 1
  BY <1>1, <1>2, FS_AddElement
<1>5. Len(list) \in Nat
  BY DEF RInv, ItemTypes
<1> QED
  BY <1>1, <1>3, <1>4, <1>5 DEF RInv, Counted, NoLostSignal

-----------------------------------------------------------------------------
\* Acquire at the start of a method.
LEMMA AcquireRemovers ==
    ASSUME Both, NEW t \in Thread, NEW m \in InMethod,
           pc[t] = "idle", Acquire(t, lock), pc' = [pc EXCEPT ![t] = m], list' = list
    PROVE  WaitShape' /\ Counted'
<1> USE DEF Both, IInv, TypeOK, ThreadTypeOK, LInv, MethodShape, InMethod, AtUser
<1>1. /\ resume[t] = "User"
      /\ resume'[t] \in {"User", "Acquire"}
      /\ \A u \in Thread \ {t} : resume'[u] = resume[u] /\ status'[u] = status[u]
      /\ UNCHANGED <<condWaiters, argCond>>
  BY DEF Acquire, AcquireHeld, AcquireFree, AcquireBusy, vars
<1>2. WaitShape'
  BY <1>1 DEF RInv, WaitShape
<1>3. ~Comes(t) /\ \A u \in Thread \ {t} : Comes(u)' <=> Comes(u)
  BY <1>1 DEF Comes
<1>4. CASE m = "remove"
  <2>1. Comes(t)'
    BY <1>1, <1>4 DEF Comes
  <2> QED
    BY <1>1, <1>2, <1>3, <2>1, MoreRemovers
<1>5. CASE m # "remove"
  <2>1. ~Comes(t)'
    BY <1>5 DEF Comes
  <2> QED
    BY <1>1, <1>2, <1>3, <2>1, SameRemovers
<1> QED
  BY <1>4, <1>5

\* Release leaves everybody on the way who is: the thread that is handed the
\* lock is inside Acquire.
LEMMA ReleaseMoves ==
    ASSUME Both, NEW t \in Thread, Release(t, lock)
    PROVE  /\ resume[t] = "User"
           /\ UNCHANGED <<resume, condWaiters, argCond>>
           /\ \A u \in Thread : resume[u] # "Acquire" => status'[u] = status[u]
<1> USE DEF Both, IInv, TypeOK, ThreadTypeOK, AtUser
<1>1. CASE ReleaseHandOff(t, lock)
  <2> DEFINE w == Head(lockWaiters[lock])
  <2>1. w \in Thread /\ resume[w] = "Acquire"
    BY <1>1, RemoveQueue DEF ReleaseHandOff, OnePlace, OnLockQueue
  <2>2. status' = [status EXCEPT ![w] = "READY"]
    BY <1>1 DEF ReleaseHandOff
  <2> HIDE DEF w
  <2> QED
    BY <1>1, <2>1, <2>2 DEF ReleaseHandOff
<1>2. CASE ReleaseNotHeld(t, lock)
  BY <1>2 DEF ReleaseNotHeld, vars
<1>3. CASE ReleaseFree(t, lock)
  BY <1>3 DEF ReleaseFree
<1> QED
  BY <1>1, <1>2, <1>3 DEF Release

\* Release at the end of Append or Mapcar.
LEMMA ReleaseRemovers ==
    ASSUME Both, NEW t \in Thread,
           pc[t] # "remove", Release(t, lock), pc' = [pc EXCEPT ![t] = "idle"], list' = list
    PROVE  WaitShape' /\ Counted'
<1> USE DEF Both, LInv, MethodShape, InMethod
<1>1. WaitShape'
  BY ReleaseMoves DEF RInv, WaitShape
<1>2. \A u \in Thread : Comes(u)' <=> Comes(u)
  BY ReleaseMoves DEF Comes
<1> QED
  BY <1>1, <1>2, ReleaseMoves, SameRemovers

\* Remove takes one item, and one remover is no longer on the way.
LEMMA TakeRemovers ==
    ASSUME Both, NEW t \in Thread, RemoveTake(t)
    PROVE  RInv'
<1> USE DEF Both, LInv, MethodShape, InMethod
<1>1. Release(t, lock) /\ pc[t] = "remove" /\ pc' = [pc EXCEPT ![t] = "removed"]
  BY DEF RemoveTake
<1>2. WaitShape'
  BY <1>1, ReleaseMoves DEF RInv, WaitShape
<1>3. list \in Seq(Item) /\ list # <<>>
  BY DEF RemoveTake, RInv, ItemTypes
<1>4. /\ Head(list) \in Item
      /\ Tail(list) \in Seq(Item)
      /\ Len(list) \in Nat
      /\ Len(Tail(list)) = Len(list) - 1
  BY <1>3
<1>5. list' = Tail(list) /\ item' = [item EXCEPT ![t] = Head(list)]
  BY DEF RemoveTake
<1>6. ItemTypes'
  BY <1>1, <1>4, <1>5 DEF RInv, ItemTypes
<1>7. OnTheWay' = OnTheWay \ {t} /\ t \in OnTheWay
  BY <1>1, ReleaseMoves DEF OnTheWay
<1>8. IsFiniteSet(OnTheWay)
  BY DEF RInv, Counted
<1>9. /\ IsFiniteSet(OnTheWay \ {t})
      /\ Cardinality(OnTheWay \ {t}) = Cardinality(OnTheWay) - 1
  BY <1>7, <1>8, FS_RemoveElement
<1>10. Cardinality(OnTheWay) \in Nat
  BY <1>8, FS_CardinalityType
<1>11. condWaiters' = condWaiters
  BY <1>1, ReleaseMoves
<1>12. Counted'
  BY <1>4, <1>5, <1>7, <1>9, <1>10, <1>11 DEF RInv, Counted, NoLostSignal
<1> QED
  BY <1>2, <1>6, <1>12 DEF RInv

\* A remover goes to sleep only when the list is empty.
LEMMA SleepRemovers ==
    ASSUME Both, NEW t \in Thread, RemoveWait(t)
    PROVE  RInv'
<1> USE DEF Both, IInv, TypeOK, ThreadTypeOK, LInv, MethodShape, InMethod, AtUser
<1>1. CASE WaitMismatch(t, listEmpty, lock)
  <2>1. UNCHANGED allVars
    BY <1>1 DEF RemoveWait, WaitMismatch, allVars
  <2> QED
    BY <2>1 DEF allVars, vars, RInv, WaitShape, ItemTypes, Counted, OnTheWay, NoLostSignal
<1>2. CASE WaitSleep(t, listEmpty, lock)
  <2>1. /\ resume' = [resume EXCEPT ![t] = "Wait"]
        /\ argCond' = [argCond EXCEPT ![t] = listEmpty]
    BY <1>2 DEF WaitSleep
  <2>2. WaitShape'
    BY <2>1 DEF RInv, WaitShape, RemoveWait
  <2>3. ItemTypes'
    BY DEF RInv, ItemTypes, RemoveWait
  <2>4. \A u \in Thread \ {t} : resume[u] = "Wait" => (status'[u] = "BLOCKED" <=> status[u] = "BLOCKED")
    <3>1. CASE IsHeldBy(lock, t) /\ lockWaiters[lock] # <<>>
      <4> DEFINE w == Head(lockWaiters[lock])
      <4>1. w \in Thread /\ resume[w] = "Acquire"
        BY <3>1, RemoveQueue DEF OnePlace, OnLockQueue
      <4>2. status' = [status EXCEPT ![t] = "BLOCKED", ![w] = "READY"]
        BY <1>2, <3>1 DEF WaitSleep
      <4> HIDE DEF w
      <4> QED
        BY <4>1, <4>2
    <3>2. CASE ~(IsHeldBy(lock, t) /\ lockWaiters[lock] # <<>>)
      <4>1. status' = [status EXCEPT ![t] = "BLOCKED"]
        BY <1>2, <3>2 DEF WaitSleep
      <4> QED
        BY <4>1
    <3> QED
      BY <3>1, <3>2
  <2>5. OnTheWay' \subseteq OnTheWay
    BY <1>2, <2>1, <2>4 DEF OnTheWay, WaitSleep, RemoveWait
  <2>6. IsFiniteSet(OnTheWay')
    BY <2>5, FS_Subset DEF RInv, Counted
  <2>7. Cardinality(OnTheWay') \in Nat
    BY <2>6, FS_CardinalityType
  <2>8. list' = <<>> /\ Len(list') = 0
    BY DEF RemoveWait
  <2>9. Counted'
    BY <2>6, <2>7, <2>8 DEF Counted, NoLostSignal
  <2> QED
    BY <2>2, <2>3, <2>9 DEF RInv
<1> QED
  BY <1>1, <1>2 DEF RemoveWait, Wait

-----------------------------------------------------------------------------
\* Append puts one item on the list and, while a remover sleeps, wakes one: the
\* waiters use the list's own lock, so the signal is not ignored.
LEMMA SignalRemovers ==
    ASSUME Both, NEW t \in Thread, AppendBody(t)
    PROVE  RInv'
<1> USE DEF Both, IInv, TypeOK, ThreadTypeOK, LInv, MethodShape, InMethod
<1>1. /\ pc[t] = "append" /\ pc' = [pc EXCEPT ![t] = "appended"]
      /\ resume[t] = "User"
      /\ UNCHANGED <<resume, argCond, item>>
  BY DEF AppendBody, Signal, AtUser
<1>2. WaitShape'
  BY <1>1 DEF RInv, WaitShape
<1>3. list \in Seq(Item) /\ item[t] \in Item /\ list' = Append(list, item[t])
  BY <1>1 DEF AppendBody, RInv, ItemTypes
<1>4. /\ Append(list, item[t]) \in Seq(Item)
      /\ Len(list) \in Nat
      /\ Len(Append(list, item[t])) = Len(list) + 1
  BY <1>3
<1>5. ItemTypes'
  BY <1>1, <1>3, <1>4 DEF RInv, ItemTypes
<1>6. IsFiniteSet(OnTheWay)
  BY DEF RInv, Counted
<1>7. CASE condWaiters[listEmpty] = <<>>
  <2>1. UNCHANGED <<status, condWaiters>>
    BY <1>7 DEF AppendBody, Signal, SignalIgnored, SignalWakes
  <2>2. OnTheWay' = OnTheWay
    BY <1>1, <2>1 DEF OnTheWay
  <2>3. Counted'
    BY <1>6, <1>7, <2>1, <2>2 DEF Counted, NoLostSignal
  <2> QED
    BY <1>2, <1>5, <2>3 DEF RInv
<1>8. CASE condWaiters[listEmpty] # <<>>
  <2> DEFINE w == Head(condWaiters[listEmpty])
  <2>1. w \in Thread /\ w \in Range(condWaiters[listEmpty])
    BY <1>8, RemoveQueue DEF OnePlace, OnCondQueue
  <2>2. status[w] = "BLOCKED" /\ resume[w] = "Wait"
    BY <2>1 DEF OnePlace, OnCondQueue
  <2>3. condLock[listEmpty] = lock
    BY <2>1, <2>2 DEF OneLockPerCondition
  <2>4. SignalWakes(listEmpty, lock)
    BY <1>8, <2>3 DEF AppendBody, Signal, SignalIgnored
  <2>5. status' = [status EXCEPT ![w] = "READY"]
    BY <2>4 DEF SignalWakes
  <2> HIDE DEF w
  <2>6. pc[w] = "remove"
    BY <2>1, <2>2 DEF RInv, WaitShape
  <2>7. OnTheWay' = OnTheWay \cup {w} /\ w \notin OnTheWay
    BY <1>1, <2>1, <2>2, <2>5, <2>6 DEF OnTheWay
  <2>8. /\ IsFiniteSet(OnTheWay \cup {w})
        /\ Cardinality(OnTheWay \cup {w}) = Cardinality(OnTheWay) + 1
    BY <1>6, <2>7, FS_AddElement
  <2>9. Cardinality(OnTheWay) \in Nat
    BY <1>6, FS_CardinalityType
  <2>10. Counted'
    BY <1>3, <1>4, <1>8, <2>7, <2>8, <2>9 DEF RInv, Counted, NoLostSignal
  <2> QED
    BY <1>2, <1>5, <2>10 DEF RInv
<1> QED
  BY <1>7, <1>8

\* The rest of a call that slept: a remover stays on its way from the signal
\* until it has the lock again, in Wait and then in Acquire.
LEMMA ContinueRemovers ==
    ASSUME Both, NEW t \in Thread, Continue(t), UNCHANGED listVars
    PROVE  RInv'
<1> USE DEF Both, IInv, TypeOK, ThreadTypeOK, LInv, MethodShape, InMethod
<1>1. /\ resume[t] \in {"Acquire", "Wait"} /\ status[t] = "RUNNING"
      /\ resume'[t] \in {"User", "Acquire"}
      /\ \A u \in Thread \ {t} : /\ resume'[u] = resume[u]
                                 /\ status'[u] = status[u]
                                 /\ argCond'[u] = argCond[u]
      /\ UNCHANGED condWaiters
  <2>1. ~PResume(t) /\ ~BroadcastLoop(t) /\ ~BroadcastReturn(t)
    BY DEF PResume, BroadcastLoop, BroadcastReturn, InBroadcast
  <2>2. CASE AcquireReturn(t)
    BY <2>2 DEF AcquireReturn
  <2>3. CASE WaitTakesLock(t)
    BY <2>3 DEF WaitTakesLock
  <2>4. CASE WaitQueuesForLock(t)
    BY <2>4 DEF WaitQueuesForLock
  <2> QED
    BY <2>1, <2>2, <2>3, <2>4 DEF Continue, WaitResume
<1>2. WaitShape'
  BY <1>1 DEF RInv, WaitShape
<1>3. ItemTypes'
  BY DEF RInv, ItemTypes
<1>4. \A u \in Thread : Comes(u)' <=> Comes(u)
  BY <1>1 DEF Comes
<1> QED
  BY <1>1, <1>2, <1>3, <1>4, SameRemovers DEF RInv

\* The scheduler wakes nobody who sleeps in Remove, and nobody falls asleep.
LEMMA SchedulerRemovers ==
    ASSUME Both, UNCHANGED <<synchVars, listVars>>,
           \/ Run
           \/ \E t \in Thread : Yield(t)
           \/ \E t \in Thread : pc[t] = "idle" /\ Finish(t)
           \/ \E t, child \in Thread : Fork(t, child)
    PROVE  RInv'
<1> USE DEF Both, IInv, TypeOK, ThreadTypeOK, LInv, MethodShape, InMethod
<1> DEFINE Stays == \A u \in Thread : /\ Comes(u)' <=> Comes(u)
                                      /\ resume'[u] = "Wait" => resume[u] = "Wait"
<1>1. Stays
  <2>1. CASE Run
    <3> DEFINE w == Head(readyList)
    <3>1. w \in Thread /\ w \in Range(readyList)
      BY <2>1, RemoveQueue DEF Run, OnePlace, OnReadyList
    <3>2. status[w] = "READY" /\ status' = [status EXCEPT ![w] = "RUNNING"]
      BY <2>1, <3>1 DEF Run, OnePlace, OnReadyList
    <3>3. \/ resume' = resume
          \/ resume[w] = "New" /\ resume' = [resume EXCEPT ![w] = "User"]
      BY <2>1 DEF Run
    <3> HIDE DEF w
    <3> QED
      BY <3>1, <3>2, <3>3 DEF Comes
  <2>2. ASSUME NEW t \in Thread, Yield(t) PROVE Stays
    BY <2>2 DEF Yield, Interruptible, Comes
  <2>3. ASSUME NEW t \in Thread, pc[t] = "idle", Finish(t) PROVE Stays
    BY <2>3 DEF Finish, AtUser, Comes
  <2>4. ASSUME NEW t \in Thread, NEW child \in Thread, Fork(t, child) PROVE Stays
    BY <2>4 DEF Fork, AtUser, Comes, CallShape
  <2> QED
    BY <2>1, <2>2, <2>3, <2>4
<1>2. WaitShape'
  BY <1>1 DEF RInv, WaitShape
<1>3. ItemTypes'
  BY DEF RInv, ItemTypes
<1> QED
  BY <1>1, <1>2, <1>3, SameRemovers DEF RInv

LEMMA NextRInv == Both /\ [ListNext]_allVars => RInv'
<1> SUFFICES ASSUME Both, [ListNext]_allVars PROVE RInv'
  OBVIOUS
<1>1. CASE UNCHANGED allVars
  BY <1>1 DEF allVars, vars, Both, RInv, WaitShape, ItemTypes, Counted, OnTheWay, NoLostSignal
<1>2. CASE Dispatch
  BY <1>2, SchedulerRemovers DEF Dispatch
<1>3. ASSUME NEW t \in Thread, Method(t) PROVE RInv'
  <2>1. CASE AppendBody(t) \/ RemoveWait(t) \/ RemoveTake(t)
    BY <2>1, SignalRemovers, SleepRemovers, TakeRemovers
  <2>2. CASE AppendReturn(t) \/ MapcarReturn(t)
    <3>1. WaitShape' /\ Counted'
      BY <2>2, ReleaseRemovers DEF AppendReturn, MapcarReturn
    <3>2. ItemTypes'
      BY <2>2 DEF AppendReturn, MapcarReturn, Both, RInv, ItemTypes, LInv, MethodShape, InMethod
    <3> QED
      BY <3>1, <3>2 DEF RInv
  <2>3. CASE RemoveReturn(t)
    <3>1. UNCHANGED <<list, vars>>
      BY <2>3 DEF RemoveReturn
    <3>2. \A u \in Thread : Comes(u)' <=> Comes(u)
      BY <2>3 DEF RemoveReturn, Comes, vars, Both, LInv, MethodShape
    <3>3. Counted'
      BY <3>1, <3>2, SameRemovers DEF vars, Both
    <3>4. WaitShape' /\ ItemTypes'
      BY <2>3 DEF RemoveReturn, AtUser, vars, Both, RInv, WaitShape, ItemTypes,
                  LInv, MethodShape, InMethod
    <3> QED
      BY <3>3, <3>4 DEF RInv
  <2>4. CASE Continue(t) /\ UNCHANGED listVars
    BY <2>4, ContinueRemovers
  <2> QED
    BY <1>3, <2>1, <2>2, <2>3, <2>4 DEF Method
<1>4. ASSUME NEW t \in Thread, Invoke(t) PROVE RInv'
  <2>1. ASSUME NEW x \in Item, AppendCall(t, x) PROVE RInv'
    <3>1. WaitShape' /\ Counted'
      BY <2>1, AcquireRemovers DEF AppendCall, InMethod
    <3>2. ItemTypes'
      BY <2>1 DEF AppendCall, Both, RInv, ItemTypes, LInv, MethodShape, InMethod
    <3> QED
      BY <3>1, <3>2 DEF RInv
  <2>2. CASE RemoveCall(t) \/ MapcarCall(t)
    <3>1. WaitShape' /\ Counted'
      BY <2>2, AcquireRemovers DEF RemoveCall, MapcarCall, InMethod
    <3>2. ItemTypes'
      BY <2>2 DEF RemoveCall, MapcarCall, Both, RInv, ItemTypes, LInv, MethodShape, InMethod
    <3> QED
      BY <3>1, <3>2 DEF RInv
  <2>3. CASE /\ pc[t] = "idle"
             /\ Finish(t) \/ \E child \in Thread : Fork(t, child)
             /\ UNCHANGED <<synchVars, listVars>>
    BY <2>3, SchedulerRemovers
  <2> QED
    BY <1>4, <2>1, <2>2, <2>3 DEF Invoke
<1>5. ASSUME NEW t \in Thread, Preempt(t) PROVE RInv'
  BY <1>5, SchedulerRemovers DEF Preempt
<1> QED
  BY <1>1, <1>2, <1>3, <1>4, <1>5 DEF ListNext

\* Remove never returns nothing (the ASSERT of synchlist.cc:79), although
\* another remover may take the item a thread was woken for, and no signal of
\* Append is lost: while a thread sleeps in Remove, every item on the list has
\* a remover on its way to it (synchlist.cc:53-84).
THEOREM ListServesRemovers == ListSpec => []RemoversSound
<1>1. ListInit => RInv
  BY InitRInv
<1>2. IInv /\ LInv /\ RInv /\ [ListNext]_allVars => RInv'
  BY NextRInv DEF Both
<1>3. IInv /\ LInv /\ RInv => RemoversSound
  BY DEF IInv, LInv, MethodShape, InMethod, RInv, ItemTypes, Counted, RemoversSound, ListTypeOK
<1> QED
  BY <1>1, <1>2, <1>3, InitLInv, NextLInv, Invariance, ListImplementsKernel, PTL DEF ListSpec
=============================================================================
