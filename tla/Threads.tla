------------------------------ MODULE Threads ------------------------------
(***************************************************************************)
(* Kernel threads and the round-robin scheduler of Nachos                  *)
(* (threads/thread.cc, threads/scheduler.cc, threads/list.cc).             *)
(*                                                                         *)
(* There is one CPU.  Kernel code runs with interrupts disabled, so a step *)
(* of this specification is what the running thread does between two       *)
(* points at which interrupts are enabled, or between two context          *)
(* switches.  A thread that gives up the CPU (status # "RUNNING") is still *)
(* `currentThread' until Scheduler::Run has switched to another one;       *)
(* meanwhile Run is the only step the machine can take, unless the ready   *)
(* list is empty and it idles.                                             *)
(***************************************************************************)
EXTENDS Naturals, Sequences, Functions

CONSTANTS Thread,       \* the Thread objects the kernel ever allocates
          Main,         \* the thread of main(), running from the start
          NULL          \* the null pointer

ASSUME ThreadAssumption == Main \in Thread /\ NULL \notin Thread

VARIABLES
    currentThread,          \* the thread that owns the CPU
    readyList,              \* Scheduler::readyList
    status,                 \* Thread::status
    resume,                 \* the kernel routine a thread is inside of
    threadToBeDestroyed,    \* the finished thread whose carcass is kept
    deleted                 \* Thread objects that have been deallocated

threadVars == <<currentThread, readyList, status, resume,
                threadToBeDestroyed, deleted>>

ThreadStatus == {"JUST_CREATED", "RUNNING", "READY", "BLOCKED"}

\* Where a thread continues when it next gets the CPU.  "New": at ThreadRoot,
\* it has never run.  "User": outside the kernel primitives, with interrupts
\* enabled.  "Finished": nowhere, it is inside Thread::Finish.  The others are
\* the primitives of Synch that put the caller to sleep or can be preempted.
Routine == {"New", "User", "Acquire", "Wait", "P", "Broadcast", "Finished"}

ThreadInit ==
    /\ currentThread = Main
    /\ readyList = <<>>
    /\ status = [t \in Thread |-> IF t = Main THEN "RUNNING" ELSE "JUST_CREATED"]
    /\ resume = [t \in Thread |-> IF t = Main THEN "User" ELSE "New"]
    /\ threadToBeDestroyed = NULL
    /\ deleted = {}

-----------------------------------------------------------------------------
\* The thread that executes code with interrupts enabled.
AtUser(t) ==
    /\ t = currentThread
    /\ status[t] = "RUNNING"
    /\ resume[t] = "User"

\* The timer and the devices can interrupt the running thread only where
\* interrupts are enabled: in its own code, and between two iterations of the
\* loop of Condition::Broadcast.
Interruptible(t) ==
    /\ t = currentThread
    /\ status[t] = "RUNNING"
    /\ resume[t] \in {"User", "Broadcast"}

\* Interrupt::Idle, called from the loop of Thread::Sleep.
Idle ==
    /\ status[currentThread] # "RUNNING"
    /\ readyList = <<>>

\* Thread::Fork: the new thread is put on the ready list.
Fork(t, child) ==
    /\ AtUser(t)
    /\ status[child] = "JUST_CREATED"
    /\ status' = [status EXCEPT ![child] = "READY"]
    /\ readyList' = Append(readyList, child)
    /\ UNCHANGED <<currentThread, resume, threadToBeDestroyed, deleted>>

\* Thread::Yield, called by the thread itself or, by Interrupt::OneTick, when
\* the timer's handler asked for a context switch.  Nothing happens when no
\* other thread is ready.
Yield(t) ==
    /\ Interruptible(t)
    /\ readyList # <<>>
    /\ status' = [status EXCEPT ![t] = "READY"]
    /\ readyList' = Append(readyList, t)
    /\ UNCHANGED <<currentThread, resume, threadToBeDestroyed, deleted>>

\* Mutant: Finish deallocates the thread at once, while it still runs.
FinishDeletes(t) ==
    /\ AtUser(t)
    /\ deleted' = deleted \cup {t}
    /\ status' = [status EXCEPT ![t] = "BLOCKED"]
    /\ resume' = [resume EXCEPT ![t] = "Finished"]
    /\ UNCHANGED <<currentThread, readyList, threadToBeDestroyed>>

\* Thread::Finish: remember the carcass and sleep for ever.
Finish(t) ==
    /\ AtUser(t)
    /\ threadToBeDestroyed' = t
    /\ status' = [status EXCEPT ![t] = "BLOCKED"]
    /\ resume' = [resume EXCEPT ![t] = "Finished"]
    /\ UNCHANGED <<currentThread, readyList, deleted>>

\* Scheduler::Run, on the thread FindNextToRun takes off the ready list.  What
\* follows SWITCH is executed by the thread that is switched to, where it left
\* off inside Run; a thread that has never run starts at ThreadRoot instead,
\* and so does not delete the carcass.
Run ==
    /\ status[currentThread] # "RUNNING"
    /\ readyList # <<>>
    /\ LET next == Head(readyList) IN
       /\ currentThread' = next
       /\ readyList' = Tail(readyList)
       /\ status' = [status EXCEPT ![next] = "RUNNING"]
       /\ \/ /\ resume[next] = "New"
             /\ resume' = [resume EXCEPT ![next] = "User"]
             /\ UNCHANGED <<threadToBeDestroyed, deleted>>
          \/ /\ resume[next] # "New"
             /\ threadToBeDestroyed' = NULL
             /\ deleted' = deleted \cup ({threadToBeDestroyed} \ {NULL})
             /\ UNCHANGED resume

-----------------------------------------------------------------------------
ThreadTypeOK ==
    /\ currentThread \in Thread
    /\ readyList \in Seq(Thread)
    /\ status \in [Thread -> ThreadStatus]
    /\ resume \in [Thread -> Routine]
    /\ threadToBeDestroyed \in Thread \cup {NULL}
    /\ deleted \in SUBSET Thread
=============================================================================
