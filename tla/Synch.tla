------------------------------- MODULE Synch -------------------------------
(***************************************************************************)
(* Semaphores, locks and condition variables (threads/synch.cc, compiled a *)
(* second time from userprog/synch.cc), on the threads of module Threads.  *)
(*                                                                         *)
(* Callers are arbitrary: a thread that is outside the kernel may call any *)
(* primitive on any object, as the forked procedures and the system calls  *)
(* can.  A call that blocks appends the caller to the object's wait queue; *)
(* what the call does after Thread::Sleep returns is an action of its own, *)
(* taken when the thread has the CPU again.  Until it is taken nothing     *)
(* else can happen: the thread runs with interrupts disabled.              *)
(***************************************************************************)
EXTENDS Threads, FiniteSets

CONSTANTS Lock, Cond, Sem,      \* the objects the kernel has allocated
          MaxInterrupts         \* bound: device requests outstanding at once
CONSTANT  MaxValue              \* bound: value of a semaphore

ASSUME SynchAssumption ==
    /\ NULL \notin Lock \cup Cond \cup Sem
    /\ MaxInterrupts \in Nat
    /\ MaxValue \in Nat

VARIABLES
    lockState, lockOwner, lockWaiters,  \* Lock::state, owner, waitingThreads
    condLock, condWaiters,              \* Condition::waitingLock, waitingThreads
    semValue, semQueue,                 \* Semaphore::value, queue
    argLock, argCond, argSem,           \* arguments of the call a thread is in
    pending                             \* device interrupts scheduled

lockVars == <<lockState, lockOwner, lockWaiters>>
condVars == <<condLock, condWaiters>>
semVars  == <<semValue, semQueue>>
argVars  == <<argLock, argCond, argSem>>
synchVars == <<lockState, lockOwner, lockWaiters, condLock, condWaiters,
               semValue, semQueue, argLock, argCond, argSem, pending>>
vars == <<currentThread, readyList, status, resume, threadToBeDestroyed,
          deleted, lockState, lockOwner, lockWaiters, condLock, condWaiters,
          semValue, semQueue, argLock, argCond, argSem, pending>>

\* The constructors of Lock, Condition and Semaphore; every semaphore of the
\* kernel is created with value 0.
SynchInit ==
    /\ lockState = [l \in Lock |-> "FREE"]
    /\ lockOwner = [l \in Lock |-> NULL]
    /\ lockWaiters = [l \in Lock |-> <<>>]
    /\ condLock = [c \in Cond |-> NULL]
    /\ condWaiters = [c \in Cond |-> <<>>]
    /\ semValue = [s \in Sem |-> 0]
    /\ semQueue = [s \in Sem |-> <<>>]
    /\ argLock = [t \in Thread |-> NULL]
    /\ argCond = [t \in Thread |-> NULL]
    /\ argSem = [t \in Thread |-> NULL]
    /\ pending = 0

Init == ThreadInit /\ SynchInit

-----------------------------------------------------------------------------
(* Lock *)

\* Lock::isHeldByCurrentThread, with the thread made explicit.
IsHeldBy(l, t) == lockOwner[l] = t

\* Lock::Acquire, lines before the caller may sleep.  Acquiring a lock that is
\* already held by the caller does nothing.
AcquireHeld(t, l) ==
    /\ AtUser(t)
    /\ IsHeldBy(l, t)
    /\ UNCHANGED vars

AcquireFree(t, l) ==
    /\ AtUser(t)
    /\ ~IsHeldBy(l, t)
    /\ lockState[l] = "FREE"
    /\ lockState' = [lockState EXCEPT ![l] = "BUSY"]
    /\ lockOwner' = [lockOwner EXCEPT ![l] = t]
    /\ UNCHANGED <<threadVars, lockWaiters, condVars, semVars, argVars, pending>>

\* Mutant: waiters are put in front of the queue (List::Prepend).
AcquireBusyPrepends(t, l) ==
    /\ AtUser(t)
    /\ ~IsHeldBy(l, t)
    /\ lockState[l] = "BUSY"
    /\ lockWaiters' = [lockWaiters EXCEPT ![l] = <<t>> \o @]
    /\ status' = [status EXCEPT ![t] = "BLOCKED"]
    /\ resume' = [resume EXCEPT ![t] = "Acquire"]
    /\ argLock' = [argLock EXCEPT ![t] = l]
    /\ UNCHANGED <<currentThread, readyList, threadToBeDestroyed, deleted,
                   lockState, lockOwner, condVars, semVars, argCond, argSem,
                   pending>>

AcquireBusy(t, l) ==
    /\ AtUser(t)
    /\ ~IsHeldBy(l, t)
    /\ lockState[l] = "BUSY"
    /\ lockWaiters' = [lockWaiters EXCEPT ![l] = Append(@, t)]
    /\ status' = [status EXCEPT ![t] = "BLOCKED"]
    /\ resume' = [resume EXCEPT ![t] = "Acquire"]
    /\ argLock' = [argLock EXCEPT ![t] = l]
    /\ UNCHANGED <<currentThread, readyList, threadToBeDestroyed, deleted,
                   lockState, lockOwner, condVars, semVars, argCond, argSem,
                   pending>>

\* Lock::Acquire after Sleep returns: the releaser made the caller the owner.
AcquireReturn(t) ==
    /\ t = currentThread
    /\ status[t] = "RUNNING"
    /\ resume[t] = "Acquire"
    /\ resume' = [resume EXCEPT ![t] = "User"]
    /\ argLock' = [argLock EXCEPT ![t] = NULL]
    /\ argCond' = [argCond EXCEPT ![t] = NULL]
    /\ UNCHANGED <<currentThread, readyList, status, threadToBeDestroyed,
                   deleted, lockVars, condVars, semVars, argSem, pending>>

\* Lock::Release by a thread that does not own the lock returns silently.
ReleaseNotHeld(t, l) ==
    /\ AtUser(t)
    /\ ~IsHeldBy(l, t)
    /\ UNCHANGED vars

\* Mutant: `owner = thread' is forgotten, so the releaser stays the owner.
ReleaseKeepsOwner(t, l) ==
    /\ AtUser(t)
    /\ IsHeldBy(l, t)
    /\ lockWaiters[l] # <<>>
    /\ LET thread == Head(lockWaiters[l]) IN
       /\ lockWaiters' = [lockWaiters EXCEPT ![l] = Tail(@)]
       /\ status' = [status EXCEPT ![thread] = "READY"]
       /\ readyList' = Append(readyList, thread)
    /\ UNCHANGED <<currentThread, resume, threadToBeDestroyed, deleted,
                   lockState, lockOwner, condVars, semVars, argVars, pending>>

\* Lock::Release hands the lock to the first waiter, or frees it.
ReleaseHandOff(t, l) ==
    /\ AtUser(t)
    /\ IsHeldBy(l, t)
    /\ lockWaiters[l] # <<>>
    /\ LET thread == Head(lockWaiters[l]) IN
       /\ lockWaiters' = [lockWaiters EXCEPT ![l] = Tail(@)]
       /\ lockOwner' = [lockOwner EXCEPT ![l] = thread]
       /\ status' = [status EXCEPT ![thread] = "READY"]
       /\ readyList' = Append(readyList, thread)
    /\ UNCHANGED <<currentThread, resume, threadToBeDestroyed, deleted,
                   lockState, condVars, semVars, argVars, pending>>

\* Mutant: the lock is freed without looking at its queue.
ReleaseForgetsWaiters(t, l) ==
    /\ AtUser(t)
    /\ IsHeldBy(l, t)
    /\ lockState' = [lockState EXCEPT ![l] = "FREE"]
    /\ lockOwner' = [lockOwner EXCEPT ![l] = NULL]
    /\ UNCHANGED <<threadVars, lockWaiters, condVars, semVars, argVars, pending>>

ReleaseFree(t, l) ==
    /\ AtUser(t)
    /\ IsHeldBy(l, t)
    /\ lockWaiters[l] = <<>>
    /\ lockState' = [lockState EXCEPT ![l] = "FREE"]
    /\ lockOwner' = [lockOwner EXCEPT ![l] = NULL]
    /\ UNCHANGED <<threadVars, lockWaiters, condVars, semVars, argVars, pending>>

Acquire(t, l) == AcquireHeld(t, l) \/ AcquireFree(t, l) \/ AcquireBusy(t, l)
Release(t, l) == ReleaseNotHeld(t, l) \/ ReleaseHandOff(t, l) \/ ReleaseFree(t, l)

-----------------------------------------------------------------------------
(* Condition *)

\* Condition::Wait checks that all waiters use one lock.  It does not check
\* that the caller holds it.
WaitMismatch(t, c, l) ==
    /\ AtUser(t)
    /\ condLock[c] \notin {NULL, l}
    /\ UNCHANGED vars

\* Otherwise the caller is queued, releases the lock (Lock::Release with all
\* its cases) and sleeps, in one step.
WaitSleep(t, c, l) ==
    /\ AtUser(t)
    /\ condLock[c] \in {NULL, l}
    /\ condLock' = [condLock EXCEPT ![c] = l]
    /\ condWaiters' = [condWaiters EXCEPT ![c] = Append(@, t)]
    /\ resume' = [resume EXCEPT ![t] = "Wait"]
    /\ argCond' = [argCond EXCEPT ![t] = c]
    /\ argLock' = [argLock EXCEPT ![t] = l]
    /\ \/ /\ ~IsHeldBy(l, t)
          /\ status' = [status EXCEPT ![t] = "BLOCKED"]
          /\ UNCHANGED <<readyList, lockVars>>
       \/ /\ IsHeldBy(l, t)
          /\ lockWaiters[l] # <<>>
          /\ LET thread == Head(lockWaiters[l]) IN
             /\ lockWaiters' = [lockWaiters EXCEPT ![l] = Tail(@)]
             /\ lockOwner' = [lockOwner EXCEPT ![l] = thread]
             /\ status' = [status EXCEPT ![t] = "BLOCKED", ![thread] = "READY"]
             /\ readyList' = Append(readyList, thread)
          /\ UNCHANGED lockState
       \/ /\ IsHeldBy(l, t)
          /\ lockWaiters[l] = <<>>
          /\ lockState' = [lockState EXCEPT ![l] = "FREE"]
          /\ lockOwner' = [lockOwner EXCEPT ![l] = NULL]
          /\ status' = [status EXCEPT ![t] = "BLOCKED"]
          /\ UNCHANGED <<readyList, lockWaiters>>
    /\ UNCHANGED <<currentThread, threadToBeDestroyed, deleted, semVars,
                   argSem, pending>>

\* Mutant: Wait returns when it is signalled, without the final Acquire.
WaitReturnsWithoutLock(t) ==
    /\ t = currentThread
    /\ status[t] = "RUNNING"
    /\ resume[t] = "Wait"
    /\ resume' = [resume EXCEPT ![t] = "User"]
    /\ argLock' = [argLock EXCEPT ![t] = NULL]
    /\ argCond' = [argCond EXCEPT ![t] = NULL]
    /\ UNCHANGED <<currentThread, readyList, status, threadToBeDestroyed,
                   deleted, lockVars, condVars, semVars, argSem, pending>>

\* Condition::Wait after Sleep returns: the Acquire at its end either takes
\* the lock and returns to the caller, or queues the caller for the lock.
WaitTakesLock(t) ==
    /\ t = currentThread
    /\ status[t] = "RUNNING"
    /\ resume[t] = "Wait"
    /\ LET l == argLock[t] IN
       /\ IsHeldBy(l, t) \/ lockState[l] = "FREE"
       /\ lockState' = [lockState EXCEPT ![l] = "BUSY"]
       /\ lockOwner' = [lockOwner EXCEPT ![l] = t]
    /\ resume' = [resume EXCEPT ![t] = "User"]
    /\ argLock' = [argLock EXCEPT ![t] = NULL]
    /\ argCond' = [argCond EXCEPT ![t] = NULL]
    /\ UNCHANGED <<currentThread, readyList, status, threadToBeDestroyed,
                   deleted, lockWaiters, condVars, semVars, argSem, pending>>

WaitQueuesForLock(t) ==
    /\ t = currentThread
    /\ status[t] = "RUNNING"
    /\ resume[t] = "Wait"
    /\ LET l == argLock[t] IN
       /\ ~IsHeldBy(l, t)
       /\ lockState[l] = "BUSY"
       /\ lockWaiters' = [lockWaiters EXCEPT ![l] = Append(@, t)]
    /\ status' = [status EXCEPT ![t] = "BLOCKED"]
    /\ resume' = [resume EXCEPT ![t] = "Acquire"]
    /\ UNCHANGED <<currentThread, readyList, threadToBeDestroyed, deleted,
                   lockState, lockOwner, condVars, semVars, argVars, pending>>

\* Condition::Signal has no effect when nobody waits, and none when the waiters
\* use another lock.
SignalIgnored(c, l) ==
    /\ condWaiters[c] = <<>> \/ condLock[c] # l
    /\ UNCHANGED <<readyList, status, condVars>>

\* Mutant: waitingLock is not reset after the last waiter.
SignalKeepsLock(c, l) ==
    /\ condWaiters[c] # <<>>
    /\ condLock[c] = l
    /\ LET thread == Head(condWaiters[c]) IN
       /\ condWaiters' = [condWaiters EXCEPT ![c] = Tail(@)]
       /\ status' = [status EXCEPT ![thread] = "READY"]
       /\ readyList' = Append(readyList, thread)
    /\ UNCHANGED condLock

\* Otherwise it makes the first waiter ready and forgets the lock when that was
\* the last one.
SignalWakes(c, l) ==
    /\ condWaiters[c] # <<>>
    /\ condLock[c] = l
    /\ LET thread == Head(condWaiters[c]) IN
       /\ condWaiters' = [condWaiters EXCEPT ![c] = Tail(@)]
       /\ condLock' = [condLock EXCEPT
                         ![c] = IF Len(condWaiters[c]) = 1 THEN NULL ELSE @]
       /\ status' = [status EXCEPT ![thread] = "READY"]
       /\ readyList' = Append(readyList, thread)

Signal(t, c, l) ==
    /\ AtUser(t)
    /\ SignalIgnored(c, l) \/ SignalWakes(c, l)
    /\ UNCHANGED <<currentThread, resume, threadToBeDestroyed, deleted,
                   lockVars, semVars, argVars, pending>>

\* Condition::Broadcast: `while (!waitingThreads->IsEmpty()) Signal(...)', with
\* interrupts enabled at the end of every Signal.
BroadcastCall(t, c, l) ==
    /\ AtUser(t)
    /\ resume' = [resume EXCEPT ![t] = "Broadcast"]
    /\ argCond' = [argCond EXCEPT ![t] = c]
    /\ argLock' = [argLock EXCEPT ![t] = l]
    /\ UNCHANGED <<currentThread, readyList, status, threadToBeDestroyed,
                   deleted, lockVars, condVars, semVars, argSem, pending>>

InBroadcast(t) ==
    /\ t = currentThread
    /\ status[t] = "RUNNING"
    /\ resume[t] = "Broadcast"

BroadcastLoop(t) ==
    /\ InBroadcast(t)
    /\ condWaiters[argCond[t]] # <<>>
    /\ SignalIgnored(argCond[t], argLock[t]) \/ SignalWakes(argCond[t], argLock[t])
    /\ UNCHANGED <<currentThread, resume, threadToBeDestroyed, deleted,
                   lockVars, semVars, argVars, pending>>

BroadcastReturn(t) ==
    /\ InBroadcast(t)
    /\ condWaiters[argCond[t]] = <<>>
    /\ resume' = [resume EXCEPT ![t] = "User"]
    /\ argCond' = [argCond EXCEPT ![t] = NULL]
    /\ argLock' = [argLock EXCEPT ![t] = NULL]
    /\ UNCHANGED <<currentThread, readyList, status, threadToBeDestroyed,
                   deleted, lockVars, condVars, semVars, argSem, pending>>

Wait(t, c, l) == WaitMismatch(t, c, l) \/ WaitSleep(t, c, l)
WaitResume(t) == WaitTakesLock(t) \/ WaitQueuesForLock(t)

-----------------------------------------------------------------------------
(* Semaphore *)

\* Mutant: an `if' in place of the `while' of Semaphore::P takes a unit that
\* another thread took while the woken one was still on the ready list.
PTakesUnchecked(t, s) ==
    /\ semValue[s] > 0 \/ resume[t] = "P"
    /\ semValue' = [semValue EXCEPT ![s] = @ - 1]
    /\ resume' = [resume EXCEPT ![t] = "User"]
    /\ argSem' = [argSem EXCEPT ![t] = NULL]
    /\ UNCHANGED <<status, semQueue>>

\* One evaluation of `value == 0' in the loop of Semaphore::P: on entry, and
\* again each time Sleep returns.
PTakes(t, s) ==
    /\ semValue[s] > 0
    /\ semValue' = [semValue EXCEPT ![s] = @ - 1]
    /\ resume' = [resume EXCEPT ![t] = "User"]
    /\ argSem' = [argSem EXCEPT ![t] = NULL]
    /\ UNCHANGED <<status, semQueue>>

PSleeps(t, s) ==
    /\ semValue[s] = 0
    /\ semQueue' = [semQueue EXCEPT ![s] = Append(@, t)]
    /\ status' = [status EXCEPT ![t] = "BLOCKED"]
    /\ resume' = [resume EXCEPT ![t] = "P"]
    /\ argSem' = [argSem EXCEPT ![t] = s]
    /\ UNCHANGED semValue

P(t, s) ==
    /\ AtUser(t)
    /\ PTakes(t, s) \/ PSleeps(t, s)
    /\ UNCHANGED <<currentThread, readyList, threadToBeDestroyed, deleted,
                   lockVars, condVars, argLock, argCond, pending>>

PResume(t) ==
    /\ t = currentThread
    /\ status[t] = "RUNNING"
    /\ resume[t] = "P"
    /\ PTakes(t, argSem[t]) \/ PSleeps(t, argSem[t])
    /\ UNCHANGED <<currentThread, readyList, threadToBeDestroyed, deleted,
                   lockVars, condVars, argLock, argCond, pending>>

\* Mutant: V wakes a waiter only when the value was 0.
IncrementWakesAtZero(s) ==
    /\ semValue[s] < MaxValue
    /\ semValue' = [semValue EXCEPT ![s] = @ + 1]
    /\ \/ /\ semQueue[s] = <<>> \/ semValue[s] > 0
          /\ UNCHANGED <<readyList, status, semQueue>>
       \/ /\ semQueue[s] # <<>> /\ semValue[s] = 0
          /\ LET thread == Head(semQueue[s]) IN
             /\ semQueue' = [semQueue EXCEPT ![s] = Tail(@)]
             /\ status' = [status EXCEPT ![thread] = "READY"]
             /\ readyList' = Append(readyList, thread)

\* Mutant: V makes the first waiter ready but leaves it on the queue.
IncrementPeeks(s) ==
    /\ semValue[s] < MaxValue
    /\ semValue' = [semValue EXCEPT ![s] = @ + 1]
    /\ \/ /\ semQueue[s] = <<>>
          /\ UNCHANGED <<readyList, status>>
       \/ /\ semQueue[s] # <<>>
          /\ status' = [status EXCEPT ![Head(semQueue[s])] = "READY"]
          /\ readyList' = Append(readyList, Head(semQueue[s]))
    /\ UNCHANGED semQueue

\* The body of Semaphore::V, which interrupt handlers call too.
Increment(s) ==
    /\ semValue[s] < MaxValue
    /\ semValue' = [semValue EXCEPT ![s] = @ + 1]
    /\ \/ /\ semQueue[s] = <<>>
          /\ UNCHANGED <<readyList, status, semQueue>>
       \/ /\ semQueue[s] # <<>>
          /\ LET thread == Head(semQueue[s]) IN
             /\ semQueue' = [semQueue EXCEPT ![s] = Tail(@)]
             /\ status' = [status EXCEPT ![thread] = "READY"]
             /\ readyList' = Append(readyList, thread)

V(t, s) ==
    /\ AtUser(t)
    /\ Increment(s)
    /\ UNCHANGED <<currentThread, resume, threadToBeDestroyed, deleted,
                   lockVars, condVars, argVars, pending>>

-----------------------------------------------------------------------------
(* Device interrupts *)

\* A driver starts a device operation, which schedules an interrupt
\* (Disk::ReadRequest, Console::PutChar, Network::Send).
StartDevice(t) ==
    /\ AtUser(t)
    /\ pending < MaxInterrupts
    /\ pending' = pending + 1
    /\ UNCHANGED <<threadVars, lockVars, condVars, semVars, argVars>>

\* Interrupt::CheckIfDue runs a due handler, from Interrupt::OneTick when the
\* running thread has interrupts enabled, or from Interrupt::Idle.  Every
\* handler but the timer's ends in Semaphore::V.
DeviceInterrupt(s) ==
    /\ Interruptible(currentThread) \/ Idle
    /\ pending > 0
    /\ pending' = pending - 1
    /\ Increment(s)
    /\ UNCHANGED <<currentThread, resume, threadToBeDestroyed, deleted,
                   lockVars, condVars, argVars>>

-----------------------------------------------------------------------------
\* What the threads call.
Call(t) ==
    \/ \E child \in Thread : Fork(t, child) /\ UNCHANGED synchVars
    \/ Finish(t) /\ UNCHANGED synchVars
    \/ \E l \in Lock : Acquire(t, l) \/ Release(t, l)
    \/ \E c \in Cond, l \in Lock :
            Wait(t, c, l) \/ Signal(t, c, l) \/ BroadcastCall(t, c, l)
    \/ \E s \in Sem : P(t, s) \/ V(t, s)
    \/ StartDevice(t)

\* What the kernel does inside a call that slept or loops.
Continue(t) ==
    \/ AcquireReturn(t)
    \/ WaitResume(t)
    \/ PResume(t)
    \/ BroadcastLoop(t)
    \/ BroadcastReturn(t)

\* What the machine does.
Switch ==
    \/ Run /\ UNCHANGED synchVars
    \/ \E t \in Thread : Yield(t) /\ UNCHANGED synchVars
    \/ \E s \in Sem : DeviceInterrupt(s)

Next == (\E t \in Thread : Call(t) \/ Continue(t)) \/ Switch

Spec == Init /\ [][Next]_vars

-----------------------------------------------------------------------------
(* Properties *)

\* Every variable keeps its type.
TypeOK ==
    /\ ThreadTypeOK
    /\ lockState \in [Lock -> {"FREE", "BUSY"}]
    /\ lockOwner \in [Lock -> Thread \cup {NULL}]
    /\ lockWaiters \in [Lock -> Seq(Thread)]
    /\ condLock \in [Cond -> Lock \cup {NULL}]
    /\ condWaiters \in [Cond -> Seq(Thread)]
    /\ semValue \in [Sem -> Nat]
    /\ semQueue \in [Sem -> Seq(Thread)]
    /\ argLock \in [Thread -> Lock \cup {NULL}]
    /\ argCond \in [Thread -> Cond \cup {NULL}]
    /\ argSem \in [Thread -> Sem \cup {NULL}]
    /\ pending \in Nat

\* The ready list and the wait queues partition the threads that do not run:
\* a thread is on the ready list exactly when its status is READY, and on the
\* queue of an object exactly when it is BLOCKED inside a call on that object,
\* and never twice.  A thread on two queues would be dispatched while it still
\* waits; one on no queue would never run again.
OnReadyList ==
    /\ IsInjective(readyList)
    /\ \A t \in Thread : t \in Range(readyList) <=> status[t] = "READY"

OnLockQueue ==
    \A l \in Lock :
        /\ IsInjective(lockWaiters[l])
        /\ \A t \in Thread : t \in Range(lockWaiters[l]) <=>
              status[t] = "BLOCKED" /\ resume[t] = "Acquire" /\ argLock[t] = l

OnCondQueue ==
    \A c \in Cond :
        /\ IsInjective(condWaiters[c])
        /\ \A t \in Thread : t \in Range(condWaiters[c]) <=>
              status[t] = "BLOCKED" /\ resume[t] = "Wait" /\ argCond[t] = c

OnSemQueue ==
    \A s \in Sem :
        /\ IsInjective(semQueue[s])
        /\ \A t \in Thread : t \in Range(semQueue[s]) <=>
              status[t] = "BLOCKED" /\ resume[t] = "P" /\ argSem[t] = s

OnePlace ==
    /\ OnReadyList
    /\ OnLockQueue
    /\ OnCondQueue
    /\ OnSemQueue
    /\ \A t \in Thread : status[t] = "RUNNING" => t = currentThread

\* How a thread's status, the routine it is in and the arguments of the call it
\* is in fit together.
CallShape ==
    \A t \in Thread :
        /\ status[t] = "RUNNING" =>
              t = currentThread /\ resume[t] \notin {"New", "Finished"}
        /\ status[t] = "JUST_CREATED" => resume[t] = "New"
        /\ status[t] = "BLOCKED" => resume[t] \notin {"New", "User", "Broadcast"}
        /\ resume[t] = "Finished" => status[t] = "BLOCKED"
        /\ resume[t] \in {"Acquire", "Wait", "Broadcast"} => argLock[t] \in Lock
        /\ resume[t] \in {"Wait", "Broadcast"} => argCond[t] \in Cond
        /\ resume[t] = "P" => argSem[t] \in Sem

\* Nobody waits for a lock that is free: Release never forgets a waiter, and
\* Acquire never queues behind nobody.
NoWaiterOnFreeLock ==
    \A l \in Lock :
        /\ lockState[l] = "FREE" <=> lockOwner[l] = NULL
        /\ lockState[l] = "FREE" => lockWaiters[l] = <<>>

\* A thread that Release has taken off a lock's queue owns that lock from then
\* until it runs and returns from Acquire, whatever the other threads do in
\* between: no one can barge in on the hand-off.
HandOff ==
    \A t \in Thread :
        resume[t] = "Acquire" /\ status[t] # "BLOCKED"
            => lockOwner[argLock[t]] = t

\* A condition variable remembers a lock exactly while threads wait on it, and
\* it is the lock each of them will re-acquire.
OneLockPerCondition ==
    \A c \in Cond :
        /\ condLock[c] = NULL <=> condWaiters[c] = <<>>
        /\ \A t \in Range(condWaiters[c]) : argLock[t] = condLock[c]

\* Threads that V has made ready and that have not yet seen the value.
Woken(s) == {t \in Thread : /\ resume[t] = "P"
                            /\ argSem[t] = s
                            /\ status[t] # "BLOCKED"}

\* No wakeup is lost: while threads sleep on a semaphore, every unit of its
\* value has a thread on its way to take it.
NoLostWakeup ==
    \A s \in Sem :
        semQueue[s] # <<>> => Cardinality(Woken(s)) >= semValue[s]

\* A deallocated thread is on no queue, is not the running thread and is not
\* deallocated again.
NoDanglingThread ==
    /\ currentThread \notin deleted
    /\ threadToBeDestroyed \notin deleted
    /\ Range(readyList) \cap deleted = {}
    /\ \A l \in Lock : Range(lockWaiters[l]) \cap deleted = {}
    /\ \A c \in Cond : Range(condWaiters[c]) \cap deleted = {}
    /\ \A s \in Sem : Range(semQueue[s]) \cap deleted = {}

\* Only finished threads are deallocated, each of them once.
OnlyFinishedDeleted ==
    /\ \A t \in deleted : resume[t] = "Finished"
    /\ threadToBeDestroyed # NULL => resume[threadToBeDestroyed] = "Finished"
    /\ currentThread \notin deleted
    /\ threadToBeDestroyed \notin deleted

\* The thread at position i of a lock's queue: at the next step it is at i,
\* at i - 1, or, if it was first, the owner.  Nobody overtakes.
NoOvertaking ==
    [][\A l \in Lock : \A i \in 1..Len(lockWaiters[l]) :
          LET t == lockWaiters[l][i] IN
          \/ i <= Len(lockWaiters'[l]) /\ lockWaiters'[l][i] = t
          \/ i > 1 /\ lockWaiters'[l][i-1] = t
          \/ i = 1 /\ lockOwner'[l] = t]_vars

\* Condition::Wait, once it slept, returns only to a thread that owns the lock
\* it passed, although Wait may have had to queue for it.
WaitReturnsHolding ==
    [][\A t \in Thread : argCond[t] # NULL /\ resume[t] \in {"Wait", "Acquire"}
                           /\ resume'[t] = "User"
            => lockOwner'[argLock[t]] = t]_vars

\* The comment in Scheduler::Run: when a finishing thread gives up the
\* processor `we need to delete its carcass' (scheduler.cc:134).  As a state
\* predicate: a finished thread has been deleted or is the one that Run will
\* delete.
CarcassDeleted ==
    \A t \in Thread : resume[t] = "Finished" => t \in deleted \cup {threadToBeDestroyed}
=============================================================================
