---------------------------- MODULE SynchManager ----------------------------
(***************************************************************************)
(* The tables of locks and condition variables of user programs           *)
(* (userprog/SynchManager.cc) and the system calls of exception.cc that    *)
(* reach them when Nachos is built without the network.                   *)
(*                                                                         *)
(* Every entry of a table is found through a bit map that is read and     *)
(* written only under the lock of its table.  The calls that may sleep    *)
(* give that lock back first and leave two marks in the entry, toBeUsed   *)
(* and ownerProcess, by which DestroyLock and DestroyCondition decide      *)
(* whether to delete the entry or to leave that to a later Release.       *)
(*                                                                         *)
(* Simulated time passes, and with it a thread may lose the processor,    *)
(* only where interrupts are enabled again, at the end of each lock       *)
(* operation: a step of a thread runs from one operation to the next.     *)
(* Locks behave as module Synch shows: handed over, first come first      *)
(* served, and acquired again by their owner without effect.              *)
(***************************************************************************)
EXTENDS Naturals, Sequences, FiniteSets

CONSTANTS Maker, User,          \* threads whose programs make and use the objects
          NumLocks, NumCVs,     \* MaxNumLocks, MaxNumCVs: entries per table
          Careful,              \* programs follow the discipline below
          NULL

ASSUME SynchManagerAssumption ==
    /\ NULL \notin Maker \cup User
    /\ NumLocks \in Nat
    /\ NumCVs \in Nat
    /\ Careful \in BOOLEAN

Thread == Maker \cup User

LockIndex == 0 .. NumLocks - 1
CVIndex == 0 .. NumCVs - 1
Table == {"lock", "cv"}

VARIABLES
    table,          \* lock_ForLockTable and lock_ForCVTable
    lockEntries,    \* lockEntries with lockBitMap
    cvEntries,      \* cvEntries with cvBitMap
    call,           \* the call each thread is in, with its arguments
    pc,             \* how far each call has come
    held,           \* the locks each program has acquired and not given back
    crowdedLocks, crowdedCVs    \* used by two threads since they were unused

managerVars == <<table, lockEntries, cvEntries, call, pc, held, crowdedLocks,
                 crowdedCVs>>
entryVars == <<lockEntries, cvEntries>>

-----------------------------------------------------------------------------
(* Locks: an owner and a queue *)

FreeLock == [owner |-> NULL, queue |-> <<>>]

\* Lock::Acquire by t ends when nobody else owns the lock.
Available(l, t) == l.owner \in {NULL, t}

\* Lock::Acquire by t of a lock that another thread owns.
Blocks(l, t) == ~Available(l, t) /\ \A n \in DOMAIN l.queue : l.queue[n] # t

\* Lock::Release by t: nothing if t is not the owner, else the first in the
\* queue owns the lock.
Released(l, t) ==
    IF l.owner # t THEN l
    ELSE IF l.queue = <<>> THEN [l EXCEPT !.owner = NULL]
    ELSE [l EXCEPT !.owner = Head(l.queue), !.queue = Tail(l.queue)]

\* LockEntry::LockEntry and CVEntry::CVEntry; `bit' is the entry's bit in the
\* bit map, `claimed' says that ownerProcess is not NULL.
NoLock == [bit |-> FALSE, owner |-> NULL, queue |-> <<>>, claimed |-> FALSE,
           toBeUsed |-> FALSE, toBeDeleted |-> FALSE]
NoCV == [bit |-> FALSE, lock |-> NULL, waiters |-> <<>>, claimed |-> FALSE,
         toBeUsed |-> FALSE, toBeDeleted |-> FALSE]

NoCall == [op |-> "none", cv |-> NULL, lock |-> NULL]

ManagerInit ==
    /\ table = [k \in Table |-> FreeLock]
    /\ lockEntries = [i \in LockIndex |-> NoLock]
    /\ cvEntries = [c \in CVIndex |-> NoCV]
    /\ call = [t \in Thread |-> NoCall]
    /\ pc = [t \in Thread |-> "user"]
    /\ held = [t \in Thread |-> {}]
    /\ crowdedLocks = {}
    /\ crowdedCVs = {}

-----------------------------------------------------------------------------
(* The discipline of the programs.  The marks in an entry are two flags, not  *)
(* counts: they say the truth while at most one thread at a time uses the     *)
(* object.  Careful programs destroy an object only then.                     *)

Calls(t, ops) == call[t].op \in ops

\* The threads that own or want lock i or have a call on it under way.
LockUsers(i) ==
    {t \in Thread : \/ lockEntries[i].owner = t
                    \/ i \in held[t]
                    \/ Calls(t, {"Acquire", "Release", "Wait"}) /\ call[t].lock = i}

CVUsers(c) == {t \in Thread : Calls(t, {"Wait"}) /\ call[t].cv = c}

\* Somebody has destroyed lock i or condition variable c, or is about to.
DoomedLock(i) ==
    \/ lockEntries[i].toBeDeleted
    \/ \E t \in Thread : Calls(t, {"DestroyLock"}) /\ call[t].lock = i

DoomedCV(c) ==
    \/ cvEntries[c].toBeDeleted
    \/ \E t \in Thread : Calls(t, {"DestroyCondition"}) /\ call[t].cv = c

Alone(users, crowded, x) == Cardinality(users) <= 1 /\ x \notin crowded

Allowed(t, op, c, i) ==
    CASE op = "DestroyLock" -> Alone(LockUsers(i), crowdedLocks, i)
      [] op = "DestroyCondition" -> Alone(CVUsers(c), crowdedCVs, c)
      [] op \in {"Acquire", "Release"} -> DoomedLock(i) => LockUsers(i) \subseteq {t}
      [] op = "Wait" -> i \in held[t] /\ (DoomedCV(c) => CVUsers(c) = {})
      [] OTHER -> TRUE

\* What two threads have used at once stays crowded until nobody uses it.
Crowd ==
    /\ crowdedLocks' = {i \in LockIndex :
          LockUsers(i)' # {} /\ (i \in crowdedLocks \/ Cardinality(LockUsers(i)') > 1)}
    /\ crowdedCVs' = {c \in CVIndex :
          CVUsers(c)' # {} /\ (c \in crowdedCVs \/ Cardinality(CVUsers(c)') > 1)}

-----------------------------------------------------------------------------
(* The system calls and their way to the tables *)

\* Mutant: Signal takes the lock of the lock table first.
TablesOfSignalSwapped(op) ==
    CASE op \in {"CreateLock", "DestroyLock", "Acquire", "Release"} -> <<"lock">>
      [] op \in {"CreateCondition", "DestroyCondition"} -> <<"cv">>
      [] op = "Signal" -> <<"lock", "cv">>
      [] OTHER -> <<"cv", "lock">>

\* The table locks each call takes, in this order.
TablesOf(op) ==
    CASE op \in {"CreateLock", "DestroyLock", "Acquire", "Release"} -> <<"lock">>
      [] op \in {"CreateCondition", "DestroyCondition"} -> <<"cv">>
      [] OTHER -> <<"cv", "lock">>

Enter(t, op, c, i) ==
    /\ pc[t] = "user"
    /\ Careful => Allowed(t, op, c, i)
    /\ call' = [call EXCEPT ![t] = [op |-> op, cv |-> c, lock |-> i]]
    /\ pc' = [pc EXCEPT ![t] = "first"]
    /\ UNCHANGED <<table, entryVars, held>>

\* CreateLock_Syscall and CreateCondition_Syscall.
CreateLock_Syscall(t) == Enter(t, "CreateLock", NULL, NULL)
CreateCondition_Syscall(t) == Enter(t, "CreateCondition", NULL, NULL)

\* DestroyLock_Syscall, Acquire_Syscall and Release_Syscall, with any index of
\* the table, whether a lock is there or not.
DestroyLock_Syscall(t) == \E i \in LockIndex : Enter(t, "DestroyLock", NULL, i)

Lock_Syscall(t) ==
    \E op \in {"Acquire", "Release"}, i \in LockIndex : Enter(t, op, NULL, i)

DestroyCondition_Syscall(t) ==
    \E c \in CVIndex : Enter(t, "DestroyCondition", c, NULL)

\* Wait_Syscall, Signal_Syscall and Broadcast_Syscall.  synch.h wants a
\* condition variable used with one lock: here the lock of the same index.
Condition_Syscall(t) ==
    \E op \in {"Wait", "Signal", "Broadcast"}, c \in CVIndex \cap LockIndex :
        Enter(t, op, c, c)

\* The call takes the first or the second of its table locks, or queues.
Take(t, at, n, next) ==
    LET k == TablesOf(call[t].op)[n] IN
    /\ pc[t] = at
    /\ n \in DOMAIN TablesOf(call[t].op)
    /\ \/ /\ Available(table[k], t)
          /\ table' = [table EXCEPT ![k].owner = t]
          /\ pc' = [pc EXCEPT ![t] = next]
       \/ /\ Blocks(table[k], t)
          /\ table' = [table EXCEPT ![k].queue = Append(@, t)]
          /\ pc' = pc
    /\ UNCHANGED <<entryVars, call, held>>

TakeFirst(t) == Take(t, "first", 1,
                     IF Len(TablesOf(call[t].op)) = 1 THEN "body" ELSE "second")
TakeSecond(t) == Take(t, "second", 2, "body")

\* The call releases the lock of table k and goes on at `next'.
Give(t, k, next) ==
    /\ table' = [table EXCEPT ![k] = Released(@, t)]
    /\ pc' = [pc EXCEPT ![t] = next]
    /\ call' = IF next = "user" THEN [call EXCEPT ![t] = NoCall] ELSE call

InBody(t, op) == pc[t] = "body" /\ call[t].op = op

-----------------------------------------------------------------------------
(* Creation and destruction *)

\* SynchManager::CreateLock: the first index whose bit is clear, or none.
CreateLock(t) ==
    /\ InBody(t, "CreateLock")
    /\ LET free == {i \in LockIndex : ~lockEntries[i].bit} IN
       lockEntries' = [i \in LockIndex |->
          IF i \in free /\ \A j \in free : i <= j
          THEN [NoLock EXCEPT !.bit = TRUE] ELSE lockEntries[i]]
    /\ Give(t, "lock", "user")
    /\ UNCHANGED <<cvEntries, held>>

\* SynchManager::CreateCondition.
CreateCondition(t) ==
    /\ InBody(t, "CreateCondition")
    /\ LET free == {c \in CVIndex : ~cvEntries[c].bit} IN
       cvEntries' = [c \in CVIndex |->
          IF c \in free /\ \A d \in free : c <= d
          THEN [NoCV EXCEPT !.bit = TRUE] ELSE cvEntries[c]]
    /\ Give(t, "cv", "user")
    /\ UNCHANGED <<lockEntries, held>>

\* Mutant: toBeUsed is not looked at.
DestroyedByOwnerOnly(e, none) ==
    IF ~e.bit THEN e
    ELSE IF ~e.claimed THEN none
    ELSE [e EXCEPT !.toBeDeleted = TRUE]

\* Lines 94-104: an entry without marks is deleted, another one marked.
Destroyed(e, none) ==
    IF ~e.bit THEN e
    ELSE IF ~e.claimed /\ ~e.toBeUsed THEN none
    ELSE [e EXCEPT !.toBeDeleted = TRUE]

\* SynchManager::DestroyLock.
DestroyLock(t) ==
    /\ InBody(t, "DestroyLock")
    /\ lockEntries' = [lockEntries EXCEPT ![call[t].lock] = Destroyed(@, NoLock)]
    /\ Give(t, "lock", "user")
    /\ UNCHANGED <<cvEntries, held>>

\* SynchManager::DestroyCondition.
DestroyCondition(t) ==
    /\ InBody(t, "DestroyCondition")
    /\ cvEntries' = [cvEntries EXCEPT ![call[t].cv] = Destroyed(@, NoCV)]
    /\ Give(t, "cv", "user")
    /\ UNCHANGED <<lockEntries, held>>

-----------------------------------------------------------------------------
(* Acquire and Release *)

\* SynchManager::Acquire under the lock of the table.  With an index that has no
\* lock it returns at once, and the lock of the table stays taken.
AcquireEntry(t) ==
    LET i == call[t].lock IN
    /\ InBody(t, "Acquire")
    /\ IF lockEntries[i].bit
       THEN /\ lockEntries' = [lockEntries EXCEPT ![i].toBeUsed = TRUE]
            /\ Give(t, "lock", "acquire")
       ELSE /\ pc' = [pc EXCEPT ![t] = "user"]
            /\ call' = [call EXCEPT ![t] = NoCall]
            /\ UNCHANGED <<table, lockEntries>>
    /\ UNCHANGED <<cvEntries, held>>

\* Lock::Acquire of the program's lock: the caller owns it or queues for it.
TakeLock(t, at, next) ==
    LET i == call[t].lock IN
    /\ pc[t] = at
    /\ \/ /\ Available(lockEntries[i], t)
          /\ lockEntries' = [lockEntries EXCEPT ![i].owner = t]
          /\ pc' = [pc EXCEPT ![t] = next]
       \/ /\ Blocks(lockEntries[i], t)
          /\ lockEntries' = [lockEntries EXCEPT ![i].queue = Append(@, t)]
          /\ pc' = pc
    /\ UNCHANGED <<table, cvEntries, call, held>>

AcquireLock(t) == TakeLock(t, "acquire", "claim")

\* Lines 151-152, when the lock has been acquired.
AcquireClaim(t) ==
    LET i == call[t].lock IN
    /\ pc[t] = "claim"
    /\ lockEntries' = [lockEntries EXCEPT ![i].claimed = TRUE, ![i].toBeUsed = FALSE]
    /\ held' = [held EXCEPT ![t] = @ \cup {i}]
    /\ pc' = [pc EXCEPT ![t] = "user"]
    /\ call' = [call EXCEPT ![t] = NoCall]
    /\ UNCHANGED <<table, cvEntries>>

\* SynchManager::Release up to Lock::Release, which may wake another thread.
ReleaseLock(t) ==
    LET i == call[t].lock IN
    /\ InBody(t, "Release")
    /\ IF lockEntries[i].bit
       THEN /\ lockEntries' = [lockEntries EXCEPT ![i] = Released(@, t)]
            /\ pc' = [pc EXCEPT ![t] = "unclaim"]
            /\ held' = [held EXCEPT ![t] = @ \ {i}]
            /\ UNCHANGED call
       ELSE /\ pc' = [pc EXCEPT ![t] = "user"]
            /\ call' = [call EXCEPT ![t] = NoCall]
            /\ UNCHANGED <<lockEntries, held>>
    /\ UNCHANGED <<table, cvEntries>>

\* Lines 166-173.
ReleaseUnclaim(t) ==
    LET i == call[t].lock IN
    /\ pc[t] = "unclaim"
    /\ lockEntries' = [lockEntries EXCEPT ![i] =
          IF @.toBeDeleted THEN NoLock ELSE [@ EXCEPT !.claimed = FALSE]]
    /\ Give(t, "lock", "user")
    /\ UNCHANGED <<cvEntries, held>>

-----------------------------------------------------------------------------
(* Wait, Signal and Broadcast *)

BothValid(t) == cvEntries[call[t].cv].bit /\ lockEntries[call[t].lock].bit

\* SynchManager::Wait under both table locks.
WaitEntry(t) ==
    /\ InBody(t, "Wait")
    /\ cvEntries' = IF BothValid(t)
                    THEN [cvEntries EXCEPT ![call[t].cv].toBeUsed = TRUE]
                    ELSE cvEntries
    /\ Give(t, "lock", IF BothValid(t) THEN "enterWait" ELSE "leave")
    /\ UNCHANGED <<lockEntries, held>>

WaitGiveTable(t) ==
    /\ pc[t] = "enterWait"
    /\ Give(t, "cv", "wait")
    /\ UNCHANGED <<entryVars, held>>

\* Line 206, and Condition::Wait until the caller sleeps; with another lock than
\* the one of the waiters it returns.
WaitSleep(t) ==
    LET c == call[t].cv
        i == call[t].lock
        own == cvEntries[c].lock \in {NULL, i}
    IN
    /\ pc[t] = "wait"
    /\ cvEntries' = [cvEntries EXCEPT ![c].claimed = TRUE,
                        ![c].lock = IF own THEN i ELSE @,
                        ![c].waiters = IF own THEN Append(@, t) ELSE @]
    /\ lockEntries' = [lockEntries EXCEPT ![i] = IF own THEN Released(@, t) ELSE @]
    /\ held' = [held EXCEPT ![t] = IF own THEN @ \ {i} ELSE @]
    /\ pc' = [pc EXCEPT ![t] = IF own THEN "asleep" ELSE "waited"]
    /\ UNCHANGED <<table, call>>

\* Condition::Wait takes the lock again when the caller has been signalled.
WaitLock(t) == TakeLock(t, "awake", "waited")

\* Lines 209-210.
WaitReturn(t) ==
    /\ pc[t] = "waited"
    /\ cvEntries' = [cvEntries EXCEPT ![call[t].cv].claimed = FALSE,
                                      ![call[t].cv].toBeUsed = FALSE]
    /\ held' = IF lockEntries[call[t].lock].owner = t
               THEN [held EXCEPT ![t] = @ \cup {call[t].lock}] ELSE held
    /\ pc' = [pc EXCEPT ![t] = "user"]
    /\ call' = [call EXCEPT ![t] = NoCall]
    /\ UNCHANGED <<table, lockEntries>>

\* Condition::Signal wakes the first waiter of c.
Wake(c) ==
    LET rest == Tail(cvEntries[c].waiters) IN
    cvEntries' = [cvEntries EXCEPT ![c].waiters = rest,
                                   ![c].lock = IF rest = <<>> THEN NULL ELSE @]

CanWake(t) ==
    LET e == cvEntries[call[t].cv] IN
    BothValid(t) /\ e.waiters # <<>> /\ e.lock = call[t].lock

\* SynchManager::Signal; then, and with invalid arguments at once, the caller
\* gives both table locks back.
SignalOne(t) ==
    LET w == Head(cvEntries[call[t].cv].waiters) IN
    /\ InBody(t, "Signal")
    /\ IF CanWake(t)
       THEN Wake(call[t].cv) /\ pc' = [pc EXCEPT ![t] = "giveLock", ![w] = "awake"]
       ELSE UNCHANGED cvEntries /\ pc' = [pc EXCEPT ![t] = "giveLock"]
    /\ UNCHANGED <<table, lockEntries, call, held>>

\* SynchManager::Broadcast signals until nobody waits.
BroadcastOne(t) ==
    LET w == Head(cvEntries[call[t].cv].waiters) IN
    /\ InBody(t, "Broadcast")
    /\ CanWake(t)
    /\ Wake(call[t].cv)
    /\ pc' = [pc EXCEPT ![w] = "awake"]
    /\ UNCHANGED <<table, lockEntries, call, held>>

BroadcastDone(t) ==
    /\ InBody(t, "Broadcast")
    /\ ~BothValid(t) \/ cvEntries[call[t].cv].waiters = <<>>
    /\ pc' = [pc EXCEPT ![t] = "giveLock"]
    /\ UNCHANGED <<table, entryVars, call, held>>

GiveLockTable(t) ==
    /\ pc[t] = "giveLock"
    /\ Give(t, "lock", "leave")
    /\ UNCHANGED <<entryVars, held>>

GiveCVTable(t) ==
    /\ pc[t] = "leave"
    /\ Give(t, "cv", "user")
    /\ UNCHANGED <<entryVars, held>>

-----------------------------------------------------------------------------

UserStep(t) ==
    \/ t \in Maker /\ ( \/ CreateLock_Syscall(t) \/ DestroyLock_Syscall(t)
                      \/ CreateCondition_Syscall(t) \/ DestroyCondition_Syscall(t) )
    \/ t \in User /\ (Lock_Syscall(t) \/ Condition_Syscall(t))

KernelStep(t) ==
    \/ TakeFirst(t) \/ TakeSecond(t)
    \/ CreateLock(t) \/ CreateCondition(t) \/ DestroyLock(t) \/ DestroyCondition(t)
    \/ AcquireEntry(t) \/ AcquireLock(t) \/ AcquireClaim(t)
    \/ ReleaseLock(t) \/ ReleaseUnclaim(t)
    \/ WaitEntry(t) \/ WaitGiveTable(t) \/ WaitSleep(t) \/ WaitLock(t) \/ WaitReturn(t)
    \/ SignalOne(t) \/ BroadcastOne(t) \/ BroadcastDone(t)
    \/ GiveLockTable(t) \/ GiveCVTable(t)

ManagerNext == (\E t \in Thread : UserStep(t) \/ KernelStep(t)) /\ Crowd

\* A thread that has the processor in the kernel goes on; programs may stop.
ManagerSpec == ManagerInit /\ [][ManagerNext]_managerVars
             /\ \A t \in Thread : WF_managerVars(KernelStep(t) /\ Crowd)

-----------------------------------------------------------------------------
(* Properties *)

\* The calls, by the arguments they take, and the places in them.
LockOps == {"DestroyLock", "Acquire", "Release"}
PairOps == {"Wait", "Signal", "Broadcast"}
Ops == LockOps \cup PairOps \cup {"CreateLock", "CreateCondition", "DestroyCondition"}
Place == {"user", "first", "second", "body", "acquire", "claim", "unclaim", "enterWait",
          "wait", "asleep", "awake", "waited", "giveLock", "leave"}

ManagerTypeOK ==
    /\ table \in [Table -> [owner : Thread \cup {NULL}, queue : Seq(Thread)]]
    /\ lockEntries \in [LockIndex ->
          [bit : BOOLEAN, owner : Thread \cup {NULL}, queue : Seq(Thread),
           claimed : BOOLEAN, toBeUsed : BOOLEAN, toBeDeleted : BOOLEAN]]
    /\ cvEntries \in [CVIndex ->
          [bit : BOOLEAN, lock : LockIndex \cup {NULL}, waiters : Seq(Thread),
           claimed : BOOLEAN, toBeUsed : BOOLEAN, toBeDeleted : BOOLEAN]]
    /\ call \in [Thread -> [op : Ops \cup {"none"}, cv : CVIndex \cup {NULL},
                           lock : LockIndex \cup {NULL}]]
    /\ pc \in [Thread -> Place]
    /\ held \in [Thread -> SUBSET LockIndex]

\* A lock that a program holds or waits for, and a condition variable it waits
\* on, are still in the tables: no DestroyLock, DestroyCondition or deferred
\* deletion in Release has taken them from under a thread
\* (SynchManager.cc:95-104, 168-172).
InUse ==
    /\ \A t \in Thread : \A i \in held[t] :
           lockEntries[i].bit /\ lockEntries[i].owner = t
    /\ \A t \in Thread : pc[t] \in {"acquire", "claim"} => lockEntries[call[t].lock].bit
    /\ \A t \in Thread : pc[t] = "claim" => lockEntries[call[t].lock].owner = t
    /\ \A t \in Thread : pc[t] \in {"enterWait", "wait", "asleep", "awake", "waited"} =>
           lockEntries[call[t].lock].bit /\ cvEntries[call[t].cv].bit
    /\ \A t \in Thread : pc[t] = "asleep" =>
           \E n \in DOMAIN cvEntries[call[t].cv].waiters :
               cvEntries[call[t].cv].waiters[n] = t

EntriesSound == ManagerTypeOK /\ InUse

\* A thread keeps the lock of the lock table after its call: it passed an index
\* without a lock to Acquire or Release (SynchManager.cc:141-145, 159-163).
Leak == \E t \in Thread :
    /\ table["lock"].owner = t
    /\ \/ pc[t] = "user"
       \/ pc[t] = "first" /\ TablesOf(call[t].op)[1] = "cv"

\* Every call gets the table locks it asks for and leaves them again, whatever
\* the other threads do, unless one of them keeps the lock table for itself:
\* the table locks are taken in one order and no thread sleeps with one
\* (SynchManager.cc:139-153, 184-208).
TablesAreLeft ==
    \A t \in Thread :
        pc[t] \in {"first", "second", "body", "unclaim", "enterWait", "giveLock", "leave"}
        ~> (Leak \/ pc[t] \in {"user", "acquire", "wait"})
=============================================================================
