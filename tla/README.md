# A verification of Nachos (CSCI 402)

This directory specifies and verifies the operating system in
`src/nachos-csci402/code`: Nachos, extended with locks and condition variables,
user processes with virtual memory, and a network of machines that share locks,
condition variables and monitor variables. The modules are TLA+; TLC checks them
on small instances, and TLAPS proves the theorems in the `...Proofs` modules for
every number of threads, locks, pages, sectors, machines, group members or
customers, whatever the component has.

Paths below are relative to `src/nachos-csci402/code`.

## 1. The system

| Component | State | Operations | Talks to |
|---|---|---|---|
| Threads and scheduler (`threads/thread.cc`, `scheduler.cc`) | `readyList`, `currentThread`, `threadToBeDestroyed`, the status of each thread | `Fork`, `Yield`, `Sleep`, `Finish`, `ReadyToRun`, `FindNextToRun`, `Run` | called by everything that blocks |
| Synchronisation (`threads/synch.cc`) | semaphore value and queue; lock state, owner and queue; condition queue and `waitingLock` | `P`, `V`, `Acquire`, `Release`, `Wait`, `Signal`, `Broadcast` | atomic because interrupts are disabled |
| Interrupts, timer (`machine/interrupt.cc`, `timer.cc`) | pending interrupts, level, `yieldOnReturn` | `SetLevel`, `OneTick`, `CheckIfDue`, `Idle` | run device handlers, force `Yield` |
| Synchronised list (`threads/synchlist.cc`) | a list, its lock, its condition | `Append`, `Remove`, `Mapcar` | a monitor built on the primitives |
| Network device (`machine/network.cc`) | `sendBusy`, `packetAvail`, one input buffer | `Send`, `Receive`, `CheckPktAvail`, `SendDone` | interrupts; Unix sockets; loses packets |
| Post office (`network/post.cc`, parts of `netcall.cc`, `system.cc`) | mailboxes, `unAckedMessages`, counters per peer in each thread | `Send`, `Receive`, `Ack`, `processAck`, resend thread, `messageIsRedundant` | network device, every network thread |
| Registration (`system.cc`: `RegServer`, `RegisterNetworkThread`) | group list of the server, local copies | register, respond, send GROUPINFO | post office |
| Total ordering (`system.cc`: `NetworkThread`) | last stamp of each member, `msgQueue` | receive, order, process | post office, `processMessage` |
| Distributed locks, CVs, MVs (`network/netcall.cc`) | `dlocks`, `cvs`, `mvs`, state of pending creations | 25 message types in `processMessage` | network threads, user threads |
| Lock tables of user programs (`userprog/SynchManager.cc`) | lock and CV entries, flags `toBeUsed`, `toBeDeleted` | create, destroy, acquire, release, wait, signal | system calls, primitives |
| Processes (`userprog/exception.cc`, `addrspace.cc`) | process table, stacks | `Exec`, `Fork`, `Exit` | scheduler, memory |
| Virtual memory (`userprog/exception.cc`, `swapfile.cc`) | TLB, inverted page table, page tables, swap file | page fault, eviction, load | machine |
| File system (`filesys/*`) | free map, directory, headers, on disk and as copies | `Create`, `Open`, `Remove`, `ReadAt`, `WriteAt` | synchronised disk |
| Disk, console (`machine/disk.cc`, `console.cc`, `userprog/synchconsole.cc`) | one request at a time | request, completion interrupt | semaphores |
| Restaurant (`threads/simulation.cc`, `test/*.c`) | lines, tables, food counts, money | customers, order takers, waiters, cooks, manager | locks and CVs |
| MIPS simulator, COFF tools, host interface | | | not modelled, see section 8 |

### What is hard here

* Threads interleave at every point where interrupts are enabled: on a tick the
  timer may force a `Yield`, and a device handler may call `V`.
* Ownership of a lock passes at `Release`, long before the new owner runs.
* A thread cannot free its own stack; the next one does, if it comes by.
* Packets are lost, so messages are resent, arrive twice and overtake each
  other, and resends race acknowledgements. The resend thread loses the lock
  that protects its own loop.
* The order in which a group processes messages depends on stamps taken one per
  copy, and on members that may have nothing to say.
* Tables of user programs, the free map and the directory are checked, then the
  thread blocks, then they are used.

`PROJECT.json` lists these hazards at their lines with the properties that
cover them.

### What makes each component correct

* Scheduler and primitives: every thread is in exactly one queue, or runs, or
  is new or finished; no wakeup is lost; a free lock has no waiters; ownership
  is handed to the oldest waiter; `Wait` returns holding the lock; nothing
  refers to a deallocated thread.
* Synchronised list: mutual exclusion; no remover sleeps beside an item that
  nobody was woken for; calls return.
* Post office: what is accepted was sent, once and unaltered; what has been
  taken off the resend list was accepted; every message gets through.
* Total ordering: messages are processed in the order of their stamps, by all
  members alike, and all are processed.
* Registration: all members end with the same group, each member in it once.
* Distributed locks: one owner per name, one holder per lock, every waiter
  answered once.
* Virtual memory: a page read back is the page last written, whatever was
  evicted.
* File system: the free map marks exactly the sectors that headers use.
* Restaurant: tables given away are tables that were free; everyone is served.

## 2. Plan

| Order | Module | Content | State |
|---|---|---|---|
| 1 | `Threads` | scheduler operators | done |
| 2 | `Synch` | primitives, forks, interrupts; composes `Threads` | done |
| 3 | `SynchProofs` | inductive invariant of `Synch`; what its queues promise | done |
| 4 | `SynchList`, with proofs in `SynchProofs` | a monitor on `Synch`; shown to implement it; mutual exclusion and no lost signal proved | done |
| 5 | `PostOffice`, `PostOfficeProofs` | acknowledged messages over a lossy network; the three safety invariants proved | done |
| 6 | `TotalOrder`, `TotalOrderProofs` | ordering in `NetworkThread`; both safety invariants proved | done for create traffic |
| 7 | `VirtualMemory`, `Memory`, `UserprogProofs` | TLB, inverted page table, swap; abstract memory as its specification; both invariants and the implementation proved | done, a page fault in one step |
| 8 | `DistributedLocks`, `NetcallProofs` | creation, locks, CVs, MVs of `netcall.cc`; its safety properties proved | done for the requests that programs send |
| 9 | `Restaurant`, `RestaurantProofs` | the monitors of the simulation; its four safety invariants proved | done for `threads/simulation.cc` |
| 10 | `SynchManager`, `UserprogProofs` | tables of user programs; the invariant proved for careful programs | done |
| 11 | `FileSystem`, `FileStore`, `FileSystemProofs` | free map, directory, headers, halts between writes; the promise to callers; the invariant and the promise proved | done |
| 12 | `Registration`, `NetcallProofs` | server, members, duplicates, early messages; the invariant proved | done |
| 13 | `NetworkDevice` | device, postal worker, `sendLock`, `messageSent` | open |
| 14 | `Processes` | `Exec`, `Fork`, `Exit`, the process table | open |

Every safety property that the runs check is proved as well; what is open is the two
modules above and the requests and traffic that the table names as left out.

## 3. The modules and the code

### `Threads`, `Synch`

`Threads` holds the scheduler: `readyList`, `currentThread`, `status`,
`threadToBeDestroyed`, and the operators that the primitives use: `ReadyToRun`,
`FindNextToRun`, the switch to the next thread, `Finish`. `Synch` adds the
semaphores, locks and condition variables. Interrupts are disabled inside each
method, so a method that does not sleep is one action, and a method that sleeps
is split where `Thread::Sleep` gives up the processor: `resume` says where in its
method a sleeping thread will resume. `P` tests again after it wakes (`while`),
`Acquire` does not, because `Release` has made it the owner; `Wait` releases the
lock, sleeps and acquires the lock again, where it may sleep a second time;
`Broadcast` is the loop of `Signal`s it is in the code. The error returns (a
lock acquired twice, released by a stranger, a condition used with another lock)
are actions of their own.

When no thread is ready the machine idles: the dispatch is an action of its own,
and device interrupts, which call `V`, may happen before it as well as between
any two methods. The timer's `Yield` is an action too. A thread that has never
run starts at `ThreadRoot`, not behind `SWITCH`: only resuming threads delete
`threadToBeDestroyed`.

Bounds: the value of a semaphore (`MaxValue`) and the device requests outstanding
at once (`MaxInterrupts`); the other constants are sets
of threads, locks, conditions and semaphores.

### `SynchList`

Extends `Synch` and lets every thread loop over `Append` and `Remove`. A method
is a program over the actions of `Synch`, so that nothing is assumed about
locks that `Synch` does not do. The list is a sequence with a bounded length.

### `PostOffice`

Nodes are machines with one network thread and its resend thread. A message
text is the sequence of numbers that are joined with `_`: `Send` puts a counter
in front, `Receive` takes the first number off, whatever it is. What runs under
`unAckedMessagesLock` is one step, with the exception the code makes: `Send`,
called from the loop of the resend thread, releases the lock that the loop
believes to hold. A message that is acknowledged between the two is numbered as
a new one, with the number in front of a text that has one already. Network
device, socket and mailbox are one queue per node; a transmission may lose the packet.

Bounds: `MaxSends` (messages), `MaxCopies` (equal packets on the way at once),
`MaxRenumbers` (messages that a resend renumbers).

### `TotalOrder`

The loop of `NetworkThread`. One iteration is one `Receive`, and the messages it
sends go out one at a time in `Transmit`, each with a stamp of its own, because
`PostOffice::Send` reads the clock on each call. `out` is what the thread has
still to do in this iteration, in the order of the code: messages to send, and
answers that `processMessage` will count (`Count`). The members share the clock of
the host on which the simulated machines run. Channels between two members keep
their order and lose nothing: with losses the post office does not keep the
order, see `InOrder` in section 6. Stamps in a fresh table come from
`Uninitialised`, since the constructor of `NetThreadInfoEntry` does not set
them. `processed`, `heard` are history variables. Of `processMessage` the
traffic of the create requests is modelled: a broadcast to the others and one
answer from each; what an answer says, and when it does not count, is in
`DistributedLocks`.

Bounds: `MaxRequests`, and `Requesters`, the members whose user programs make them.

### `VirtualMemory`, `Memory`

The paging of the `USE_TLB` builds. A page is its contents, one value: `Code`
from the executable, `Zero`, or what a program wrote. The translation either
finds a page in the TLB (`Write`; reads change nothing) or raises a page fault,
and a page fault is one step, since nothing in `HandlePageFault` blocks: the page
is in a frame (`SoftFault`), or goes to the first free frame (`FreeFrameFault`),
or to a frame that `evictAPage` empties (`EvictFault`), by FIFO or at random as
option `-P` says. A dirty page goes to its page of the swap file, or to a new one,
and the machine halts when there is none (`SwapFull`). The TLB is emptied by
context switches, which keep its dirty bits, and by `Fork` and `Exec`, which do
not. Frames and swap pages are never given back: `Exit` does not do so. A program
touches only pages it has.

`Memory` is what programs expect: contents per process and page that only the
writes of the running process change. `VirtualMemory` maps to it with the
contents of a page wherever they are: in its frame, in the swap file, in the
executable.

Bounds: `MaxPages` (pages after `Fork`), and small values for the sizes that are
constants of the code: `NumPhysPages`, `TLBSize`, `MaxSwapPages`; `Stored`, the
values written.

### `DistributedLocks`

A call of `processMessage` is one step of a network thread. It works on the
tables of its machine (`server`: the objects and the index of the next one) and
on the arrays over client numbers (`client`), collects what it sends, and ends
the program of its machine where the code would: `strcmp` on a deleted entry, an
address that is not a mailbox. User programs call, wait in `Request`, and take
replies (`TakeReply`). Groups of one and two threads, on one machine or two, are
initial states of one specification. The names of objects and the text of
messages are model values; the numbers that the code computes from indices,
machines and mailboxes (global identifiers, client numbers) are computed.
Variables that the code reads uninitialised range over `Junk`. `State(n, i)` is
what a call works on when thread `n` has received message `i`; each handler turns
such a state into another one, `Send` puts a message in every mailbox it is
addressed to, and `Handles(n, s)` makes the result that of the machine. The
mailboxes lose nothing and keep the order of each sender, as `PostOffice` shows for runs
in which no packet is lost. `MaxRequests` and `MaxOthers` bound the calls.

### `Restaurant`

The threads of `threads/simulation.cc`. A step runs from one lock or condition
operation to the next; a lock kept from one step to the next shows in the
thread's place `at`. Every array and counter that threads share is a variable
(food is counted per item, the random choices are open). `mode` is the way the
simulation was started: the defaults, valid numbers on the command line, or one
of the tests. The manager takes orders too when the line is long, buys food one
item at a time (the lock of one food is given back before the next is taken),
seats customers and sends cooks on break. Of the constants it is assumed that
`MinCooked <= MaxCooked` (`simulation.cc` 153-154: 2 and 5). The lock operations themselves are
those of `Synch`: first come first served, no lost signal.

### `SynchManager`

The entries of the two tables, the locks of the tables, and the calls of user
programs in the steps in which they take and leave these locks. `Acquire` and
`Wait` give the lock of the table back before they sleep; what protects the
entry then is `toBeUsed` and `ownerProcess`. They are flags, not counts, so
they say the truth only while one thread at a time uses an object: with
`Careful = TRUE` programs destroy an object only then, and only after that the
tables are sound (section 6). An index equal to `MaxNumLocks` or `MaxNumCVs`
passes the test of the code and fails the assertion of `BitMap::Test`; it is
left out.

### `FileSystem`, `FileStore`

A disk of sectors, of which the first `NumReserved` stand for the headers and
data of bit map and directory. `Create` and `Remove` write one sector, or one of
the two special files, per step, with the copies they work on in `op`; `Write`
reads the partial first and last sectors back before it writes. A halt may come
between any two steps (`Restart`, `Format`). There is one caller at a time, as
the comment in `FileSystem::Create` says. `FileStore` is what callers expect: a
map from names to contents, which takes a sector for each header and for each
block of data of a file (`InUse`); `FileSystem` implements it, from `Create`'s last
write to `Remove`'s last one, unless a halt falls between the writes of
directory and map. After such a halt (`torn`) only formatting the disk is
followed.

### `Registration`

The server and the members, one process each. `wire` is the mailbox of each
node, in the order of arrival; `unAcked` and `received` are the lists of
`PostOffice`; of the counters what matters here is whether a thread is known,
since a message from an unknown one is discarded unless its counter is 0. Losses
and early resends have budgets (`MaxLosses`, `MaxEarly`); a message of which no
copy is left may be resent without limit. `Swallow` is what the waiting loops do
to messages they do not wait for: acknowledge and forget. `Request` stands for
all traffic of members that have registered.

## 4. Runs

| Run | Instance | Shows |
|---|---|---|
| `synch` | 3 threads, every primitive | the invariants of section 1 and the action properties `NoOvertaking`, `WaitReturnsHolding` |
| `synchlist` | 3 threads in `Append`/`Remove` loops, fair | mutual exclusion, no lost signal, `Append` returns, a remover is served |
| `post` | 2 nodes, 2 messages, losses, fair | accepted once, unaltered, never dropped from the resend list unaccepted; the first message of a sender first; every message is accepted and acknowledged |
| `order_three` | 3 members, 1 request, of the last of the table, stamps garbage | what a thread that has heard from all members processes is earlier than all that follows |
| `order_live` | 2 members, 2 requests, stamps 0, fair | messages of one member are processed in order, and every answer is processed |
| `vm` | 2 processes, 2 pages each, 3 frames, TLB of 2, 2 swap pages | the TLB translates to pages of the running process only; a page is in one frame, has its own swap page; the queue of frames is complete; memory changes only by writes, save for victims whose dirty bit was not set |
| `locks` | groups of 1 and 2 threads, on 1 and 2 machines; 5 calls, of which 2 not about locks; tables of 2 | the state, owner and queue of a lock agree; locks pass in order; in a group of one replies match calls, names are unique, locks get created |
| `restaurant` | 2 customers, manager, order taker, waiter; no food but soda | customers meet their taker and waiter and nobody else; everybody in the line to order is served, then the staff goes home, and not before |
| `kitchen` | 2 customers, manager as taker, cook, waiter | no order is lost, doubled or sent the wrong way; tables and lines stay within their arrays; the stack of food is bounded |
| `tables` | 1 thread that makes and destroys, 2 that use; 1 lock, 1 condition | nobody's lock or condition is deleted under it; no call is stuck with the lock of a table |
| `files` | 2 names, 6 sectors of 2 bytes, directory of 2 entries | no sharing, no sector lost, `FileStore` implemented unless torn |
| `registration` | 2 members, 1 loss, 1 early resend, requests of one member | equal groups, each member once; the server is complete last; the registration ends |

### Why the bounds are enough

* Three threads are the fewest with an owner, a woken waiter and a third that
  barges in; also the fewest with a finished thread, one that has never run and
  one that resumes. A second lock makes it possible to use a condition with the
  wrong one.
* Two messages over two nodes: the second overtakes the first when that is lost,
  in one direction, or acknowledgement and message cross, in both. One
  renumbered message is enough to see its effect on counters and filter.
* A group of three is the smallest in which a message of one member waits for
  the stamp of another member than its receiver. In a group of two the two
  requests make each thread both ask and answer, so that two messages of one
  member can be in a queue together.
* Virtual memory: two processes share three frames, so that either evicts pages
  of its own and of the other; two swap pages for four pages make the swap file
  run full; the TLB is smaller than the frames, so that a page is in memory and
  not in the TLB.
* Distributed locks: five calls are create, acquire by two programs, a release
  or a wait, and one more; two others, so that a condition variable can be made
  and waited on. Tables of two entries are full and have holes after a
  destruction.
* Restaurant: two customers for one table and one taker: one waits outside, or
  in line behind the other. The two runs split the staff, as all of it together
  is beyond TLC.
* Tables: three threads are the fewest with a holder, a waiter and a destroyer;
  one entry is used again after its deletion.
* Files: four free sectors hold two files of one data sector, or one of two;
  lengths 0 to 3 are empty, partial, full and two sectors; both directory entries
  can be taken while sectors are left, and the reverse.
* Registration: one loss of any packet, one resend of any message, together:
  the answer is lost and the registration arrives again, GROUPINFO arrives first
  and is discarded, acknowledgements are lost.

### Fairness

* `SynchList`: the idle machine dispatches (weak); a running thread gets to the
  end of its method: it does not stop by itself, and it is dispatched again and
  again, as the ready list is a queue (strong fairness of a method of each
  thread); the timer interrupts a running thread in the end (weak fairness of
  `Preempt`, the option `-rs`).
* `PostOffice`: the network thread keeps receiving and the resend thread keeps
  looping, as both are `while(true)` loops under a scheduler that serves a queue
  and locks that are handed over (strong for what needs the lock). Resends and
  acknowledgements get through now and then: the loss probability is below 1
  (strong fairness of the transmission that succeeds).
* `TotalOrder`: a thread sends what it has to (weak) and takes from its mailbox,
  a queue, whatever has arrived (strong). User programs are not obliged to make
  requests.
* `DistributedLocks`: network threads process what reaches them and a waiting
  program takes its reply (weak); programs need not call.
* `Restaurant`: threads that can go on do (weak); order takers and manager, who
  share locks that others take again and again, get them in the end (strong), as
  the queues of the locks are served in order.
* `SynchManager`: a thread in the kernel goes on (weak); programs may stop.
* `Registration`: user programs start, mail is taken, the server goes on sending,
  and the resend thread comes round to every message (all weak). Losses are
  finite, by the budget.

## 5. Proofs

`SynchProofs` proves `Spec => []IInv` for all sets of threads, locks, conditions
and semaphores, with

    IInv == TypeOK /\ OnePlace /\ CallShape /\ NoWaiterOnFreeLock /\ HandOff
            /\ OneLockPerCondition /\ OnlyFinishedDeleted

None of the safety invariants is inductive alone. `OnePlace` (the ready list and
the wait queues hold exactly the threads whose status and `resume` say so, each
once) is what shows that the head of a queue is a sleeping thread, so that
waking it does not put it on the ready list twice; `CallShape` ties the place of
a blocked thread in its method to the queue it is in; `HandOff` says that a
thread woken inside `Acquire` already owns the lock, which is what makes
`Acquire` right not to test again; `OnlyFinishedDeleted` keeps deallocated
threads out of all queues. The proof has one step per action and one per
conjunct that the action can disturb. From it follow the theorems
`TypeCorrect`, `ThreadsInOnePlace`, `FreeLocksHaveNoWaiters`, `HandOffIsKept`,
`ConditionsRememberTheirLock`, `DeletedThreadsAreGone`, and the action property
`WaitReturnsToTheOwner`.

The second part of `SynchProofs` adds what the queues promise to those who wait. For
`NoWakeupIsLost` the invariant gets two more conjuncts: `NoLostWakeup` itself and
that the threads woken by `V` are finitely many, so that they can be counted. A
step outside `P` and `V` leaves the woken threads alone (`Untouched`); `V` moves
one thread from the queue to them, which `OnSemQueue` shows was not among them
already, and `P` takes at most one unit and one thread away. `NobodyOvertakes`
needs no new invariant: a step leaves the queue of a lock as it is, appends to
it, or hands the lock to its head (`NextQueueMoves`).

The third part proves that the synchronised list implements the kernel
(`ListSpec => Spec`: a step of a method is a step of the primitives), so that
every theorem above holds for it, and from the invariant of `Synch` together
with `MethodShape` that the owner of the lock is the thread inside
(`ListLockOwner`) and that there is at most one (`ListMutualExclusion`).
`ListServesRemovers` proves `RemoversSound`, that no signal of `Append` is lost. Its
invariant is

    RInv == WaitShape /\ ItemTypes /\ IsFiniteSet(OnTheWay) /\ NoLostSignal

While a remover sleeps, the threads on their way to the list are as many as its
items, though the one that `Append` woke may find the list empty again. A thread
enters or leaves `OnTheWay` in a few steps only, and as sleepers on `listEmpty`
have nothing else to wait for (`WaitShape`), the `Signal` in `Append` adds one
of them, who by `OnePlace` was not there before. Many threads may append and
many may remove, so the counting is by cardinalities of finite sets.

The first half of `UserprogProofs` proves, for any number of processes, frames, TLB
slots, pages and swap pages, the two invariants of `VirtualMemory` and that it
implements `Memory` but for victims that are not stored. Its inductive invariant
is

    IInv == TypeOK /\ Agrees(tlb, ipt) /\ SlotsDiffer(tlb) /\ FramesDiffer
            /\ FramesOwned /\ SwapOwned /\ QueueHoldsFrames

`TLBAgrees` is not inductive without the rest: a page fault puts an entry into a
frame that `evictAPage` took from another page, which is right only if that
frame's old page is in no other slot (`SlotsDiffer`, `FramesDiffer`), and the
victim has an owner only because the bit map and the valid bits agree
(`FramesOwned`). `SwapOwned` says that a page marked as swapped has an index, that
no two pages have the same and that the bit map holds exactly these; without it
storing a victim could overwrite another page. From the invariant follow
`TLBIsRight` and `FramesAreSound`, and, with one lemma per action that says where
the contents of every page are before and after it, `MemoryIsKept`. The first
free frame and swap page exist by the well-foundedness of the naturals
(`MinOfNat`).

The second half of `UserprogProofs` proves `EntriesSound` of `SynchManager`
(`NothingTakenAway`), for any number of threads and entries and under `Careful`:
without the discipline it is false (section 6). The inductive invariant is

    TablesInv == /\ ManagerTypeOK /\ IsFiniteSet(Busy) /\ Doomed
                 /\ \A t : CallFits(t) /\ InTables(t)
                 /\ \A i : LockQueue(i) /\ LockAlone(i)
                 /\ \A c : CVQueue(c) /\ CVAlone(c)

`InTables` is what is to be shown, with the place of every call. It survives
`DestroyLock`, `DestroyCondition` and the deletion in `Release` because of the
other parts: an entry that is to be destroyed is not crowded (`Doomed`), one that
is not crowded has one user at most, and marks that tell of it (`LockAlone`,
`CVAlone`), so that an entry without marks is used by nobody and a `Release` that
finds `toBeDeleted` was the last user. The queues (`LockQueue`, `CVQueue`) show
that `Lock::Release` and `Signal` hand over to threads whose call is on that entry.
The start of a call is where the discipline is used (`EnterInv`). All other steps
make nobody a user and doom nothing that was not doomed (`Kept`), which is enough
(`KeptInv`); they fall into those that leave the entries alone (`QuietKept`), those
that end a call and leave each entry as it was or empty and idle (`EndKept`), steps
of one thread with one lock (`StepKept`), and `Signal`, which moves two threads
(`WakeKept`). `Busy` is finite so that `Cardinality` in `Alone` counts.

`PostOfficeProofs` proves `AckedWasReceived` and `ReceivedAsSent` of `PostOffice`
for any number of nodes, messages, copies on the wire and renumbered messages. Its
inductive invariant is

    IInv == PostTypes /\ OneStamp /\ GoodLists /\ GoodCalls /\ GoodWire
            /\ AckedWasReceived /\ ReceivedAsSent

The two properties need each other and a reason that no state of one machine
shows: every message on a list, in a call of `Send` by the resend thread or on
the wire is either as it was sent or of a message that the receiver has accepted
(`GoodLists`, `GoodCalls`, `GoodWire`), because the resend thread renumbers a
message only when it is no longer on the list, and then, by `AckedWasReceived`, it
has been accepted, so that `messageIsRedundant` will drop it. A packet is otherwise an
acknowledgement of an accepted message. A renumbered packet may even look like
an acknowledgement; as time stamps are given once (`OneStamp`) it can take
nothing off a list but the message it is a copy of. There is one lemma per action;
`GoodStep`, `AckedStep` and `KeepStep` hold what the actions share.

`CountersStaySound` proves `CountersSound`, with a second invariant on top of the
first:

    CInv == CounterTypes /\ Unsent /\ (\A n \in Node : Bound(n))
            /\ NumberedLists /\ NumberedCalls /\ NumberedWire
            /\ (\A n, m \in Node : Unknown(n, m) /\ Known(n, m))

`PostOffice::Receive` takes a message from a thread it does not know only if the
counter in front is 0. That the message is then the first one (`FirstInOrder`)
holds because a text as it was sent has counter 0 only if nothing was sent to
that thread before (`Unsent`, and `Numbered` for every copy on a list, in a call
or on the wire); a renumbered text may have 0 too, but it is of a message that was
accepted before, which `IInv` says and which an unknown thread excludes (`Unknown`).
Once a thread is known, its first message was accepted (`Known`).

`TotalOrderProofs` proves `MemberOrder` (`SenderOrder`) and `OrderSound`
(`TotallyOrdered`) for any number of members and requests, and whatever the
stamps of a fresh table are.

    OInv == Shape /\ Issued /\ Sorted /\ NoTwins /\ TableBehind /\ Recorded
            /\ SureRecorded /\ ProcessedFirst /\ ProcessedInOrder

The argument goes along the way of a message. On the wire it is later than the
stamp that the table has for its sender (`TableBehind`), in the queue it is not
(`Recorded`), and when it is processed after everybody was heard, no entry of the
table is earlier (`SureRecorded`); so whatever arrives later, from whomever, has a
later stamp. That the message inserted between others leaves the queue sorted
needs `NoTwins`: no two messages for a member have the same stamp. Entries of the
table count only for members in `heard`, as the others may be garbage. The second
part is that no answer is counted that nobody waits for:

    TInv == /\ the answer of k to m is in one place only: m has still to ask, the
               question is on its way, k has still to answer, the answer is on its
               way, or m has still to count it
            /\ waiting[m] = Cardinality(Due(m))

where `Due(m)` are the members whose answer is in one of these places: each step moves
one answer one place on, and `Count` takes it out of the set and off the counter.

`RestaurantProofs` proves the four safety invariants of `Restaurant`
(`PairsMeet`, `OrdersNeverLost`, `StacksBounded`, `NobodyLeavesEarly`) for any
number of customers, order takers, waiters, foods and tables, from

    IInv == /\ Shape /\ LoopsBounded /\ KitchenBounded /\ ServedCounted /\ StaffStays
            /\ Paired /\ InLines /\ NumbersGiven /\ RightSide /\ TablesSound
            /\ OncePlaced /\ PlacedIsGiven /\ OwnersFit /\ TableQueues

* A taker and the customer it has called meet because their places match at any
  time, and only the one who has to wait is in the queue of the taker's condition
  (`Paired`). Two takers cannot have called the same customer, as nobody stands in
  a line twice (`InLines`).
* An order is in exactly one place from the moment it is noted: to be bagged, on
  the list of bagged orders, called, or with one waiter (`OncePlaced`,
  `PlacedIsGiven`), and each of these places says where its owner can be
  (`OwnersFit`). Owners and orders belong together by `NumbersGiven`: numbers are given
  once, to customers who have paid. A waiter who looks for the owner at a table finds
  that customer waiting at the condition of the table, and nobody else
  (`TableQueues`).
* Tables are counted by cardinality: those left and the customers who are in are
  never more than there are (`TablesSound`).
* `StackBounded` needs to know what the manager has seen. What is cooked, on the
  stove and in stock is at most `MaxCooked + 1 + NumBought`, and `NumBought` more
  only while the manager has bought food and not yet looked at the stack
  (`KitchenBounded`, with `Unseen`).
* `StaffStays` follows as `served` is the number of customers who are gone
  (`ServedCounted`): when it equals the number of customers, all of them are.

Each action has lemmas by the parts of the invariant it can disturb; lemmas named
`...Moves` say which threads an action moves and that all others stay where they
are, and an order that a step does not touch keeps its place (`SameToken`).

The first part of `FileSystemProofs` proves `DiskSound` of `FileSystem` for disks, sectors,
directories and files of any size. The invariant relates three directories and
two maps: what is on the disk, and what `Create` or `Remove` holds in memory.

    FilesInv == /\ Sound(disk, fileTable, diskDir)
                /\ before the first of the last two writes, diskMap belongs to diskDir
                /\ once the header is written, op.dir is sound and op.map belongs to it
                /\ between the last two writes, directory or map is the new one

and it is assumed of a disk that is not torn; a torn disk is followed to the next
format only. `Sound` says that no two files have a name or a sector in common,
that headers are complete, and that open files have the header of their entry.
The two facts that carry the proof are lemmas about disks and directories that
mention no step: adding a file in free sectors (`AddedFile`), and removing one that
nobody has open (`RemovedFile`), each keep a directory sound and say which map
belongs to it. That a write reaches no header needs the arithmetic of sectors
(`ByteInside`): a byte below the length is in one of the file's own sectors.

`FilesAreKept` proves `StoreUnlessTorn`: `FileSystem` implements `FileStore`, and
`Create` finds room exactly when `FileStore` has room. The refinement mapping `files`
is written as a function of a disk, a directory and the names not to be shown
(`FilesOf`), so that a lemma can say of any two disks when a file is the same on both
(`SameFile`): when nothing was written to its sectors. The steps before the last
write of `Create` and `Remove` are stutters (`...Unseen`), all others are steps of
`FileStore` (`...Seen`). Between the writes `IInv` does not say which file is on its
way; the invariant is strengthened by that:

    StoreInv == IInv /\ (~torn => Pending)

with `Pending` naming the entry that is new or about to go. Three arguments carry the
proof:

* Room is counted without induction. The sectors that the files need, each with its
  file (`Needs`), are mapped one to one onto those that the directory marks
  (`SectorsCounted`): header first, then block by block; that no two files share a
  sector is what makes it one to one. The free sectors follow by subtraction
  (`FreeCounted`), and the same with entries and names (`FilesCounted`). At the end
  of `Create` the new file is one more (`NeedsOneMore`).
* A write changes the bytes it is told to and no others (`BytesWritten`): a byte of a
  touched sector that is not written lies before the first new byte, then it is in the
  first sector and that one is not aligned, or behind the last, then in the last
  sector; in both cases `WriteAt` has read the sector back (`OutsideFilledBack`).
* The position of an open file moves by the bytes transferred, and the length in its
  copy of the header is the length of the file (`OpenFileIs`, `Advanced`).

`NullAssumption` says that `NULL`, which the model writes for a file that is not
there, is neither a sequence of bytes nor an open file.

The first part of `NetcallProofs` proves `GroupsSound` of `Registration`
(`RegistrationSound`)
for groups that one GROUPINFO can name (`N <= ThreadsPerMessage`; for larger groups
it is false, see section 6) and any number of losses and of messages sent again.
The inductive invariant is

    IInv == Types /\ GoodWire /\ GoodLists /\ Recorded /\ OneCounter
            /\ AckMeansFinished /\ ServerSound /\ Owed /\ MembersSound

That a member's table is right when it has finished rests on what is on the wire:
every copy of a GROUPINFO names the whole list of the server, which no longer
changes (`GoodWire`), and it never has counter 0, as the answer to REGNETTHREAD
came first; so a member cannot accept it before that answer (`MembersSound`). That
the server completes only after everyone has finished needs `Owed`: each member
has finished, or a GROUPINFO for it is on the server's list or still to be sent;
and such a message leaves the list only by an acknowledgement of a member that has
finished (`AckMeansFinished`), which names its message by its counter
(`OneCounter`). `KeepPosts` and `AcceptPosts` hold what the actions share.

The second part of `NetcallProofs` is about `DistributedLocks`. `LocksAreConsistent`
and `LocksHandedOver` hold for any number of members, on any placement on machines,
and any number of calls. Their invariant, `LocksInv`, is little more than
`LockStateAgrees` for every lock (`LockOK`) and the shape of tables and mail, with one
conjunct that matters: the queues of locks and condition variables hold places that
are never `NoOwner`, so that a lock passed on from its queue has an owner. The
handlers are composed of a few helpers, and so is the proof: each helper has a lemma
that says that it leaves the locks alone (`Kept`) or hands over in order (`Handled`),
and each handler a lemma that combines them. `Broadcast` wakes a whole queue; that
the lock stays held meanwhile (`StillHeld`), which is what makes the second and all
later waiters queue up, is shown by the least number of wakings for which it would
not be so. The handlers are passed to `ProcessMessage` as operators, and the proof
has one step for each.

`ServersStaySound` proves `ServersSound`. What it says of a group of one needs
`LoneInv`: at most one message is in the system, and none when no call is under way;
a message to the network thread is a call of the program or a number that it sent to
itself; tables have as many entries as the index of the next one says, each at the
index that its number names, no two with one name; and as long as the program is not
left without an answer for ever, nobody waits in a queue, so a release or a signal
never sends a second message. An entry is created only if there are no holes
(`SoundCreate`), since a lookup that meets a hole ends the program; so the deletions
that leave holes do no harm beyond that. Each handler takes a state that has `Begun`
to one that is `Finished`.

In larger groups less is true, and the proofs show where. The index of the next entry
goes below zero or past the limit, when entries that were not counted
(`KnownElsewhere`) are destroyed or creations are under way together: `LocksTypeOK`
says only that it is a number. An answer that names another owner's lock overwrites
the entry at that index, so that an index does not stand for one lock for ever;
`HandedOverInOrder` holds nevertheless, as the new entry is free.

`QueueLemmas` holds the facts about sequences that these developments use.

Assumptions: the named `ASSUME`s of the modules, which TLC evaluates in the runs.

Only model-checked is what is out of the prover's reach: all liveness properties
(`AppendReturns`, `RemoverServed`, `EventuallyReceived`, `EventuallyAcked`,
`EventuallyAnswered`, `LocksGetCreated`, `EveryoneLeaves`, `TablesAreLeft`,
`RegistrationEnds`) and `ENABLED`.

## 6. Where code and intention part

No run expects a violation; what follows came up while modelling, and is stated
as a formula where a name is given. TLC finds these formulas violated on the
instances named.

Kernel and messages:

* `CarcassDeleted` of `Synch` (3 threads, 1 lock): `Thread::Finish` promises that
  `Scheduler::Run` will delete the thread. When a finished thread is followed by
  one that has never run and finishes too, `threadToBeDestroyed` is overwritten.
* `InOrder` of `PostOffice` (2 nodes, 3 messages): `PostOffice::Receive` says it
  ignores messages that are out of order; it sets `success` before it compares
  the counters.
* `processAck` says of an acknowledgement without a message that it "should
  never happen"; a resend that races the first acknowledgement produces one, and
  it does no harm.
* `AnsweredWhenQuiet` of `TotalOrder` (3 members, 1 request): copies of a
  broadcast have different stamps, so that the TIMESTAMP a member sends when its
  copy arrives can be too early for the copy of another member, and no later one
  follows: a request in a group of three can stay unanswered until somebody makes
  another one. Members not heard from are skipped in the minimum, so the order
  holds only once all were heard, which is how `OrderedOnceHeard` says it.
* `RequestsProcessed` of `Registration` (2 members, no losses): a message of a
  member that has finished reaches one that still waits for GROUPINFO; it is
  acknowledged and never processed.
* `GroupsSound` of `Registration` with `ThreadsPerMessage = 1`: as soon as a
  group needs two GROUPINFO messages, one that arrives again is counted, its
  members are in the table twice and the others are missing.

Virtual memory:

* `ImplementsMemory` of `VirtualMemory` (1 process, 4 pages, 3 frames):
  `evictAPage` makes the TLB entry of the evicted page invalid and decides by the
  dirty bit of the inverted page table whether to store the page. What was
  written since the page entered the TLB is lost. `Fork` and `Exec` empty the TLB
  without copying its dirty bits: another way to the same loss.

Distributed locks (`network/netcall.cc`):

* With two machines the creation of a lock never ends: an answer NO carries no
  stamp, is never later than the request and never counted (535-556).
* `Request` takes a reply of 29 or 31 for an acknowledgement or nothing and waits
  on (205-215). The index of the next lock can become negative; lookups call
  `strcmp` on entries that were deleted; `CREATECV` in a group of one sends its
  answer to the network thread's own mailbox, where it is read as a request, and
  the replies to queued clients go to their network threads too. The limit of a
  table is tested when a request arrives and the object made when the last
  answer does.

Tables of user programs (`userprog/SynchManager.cc`):

* `EntriesSound` with `Careful = FALSE`: `Release` by a thread that is not the
  owner deletes a doomed lock under the owner; the second of two waiters finds
  the flags cleared by the first; `Wait` takes the lock back without setting
  `ownerProcess`, so that `DestroyLock` deletes a lock that is held.
* An invalid index passed to `Acquire` or `Release` returns with the lock of the
  lock table still held (141-145, 159-163), after which other threads' calls
  block; `TablesAreLeft` excepts this case as `Leak`. `toBeDeleted` of a condition
  is never read: a condition destroyed while in use is never freed.

File system:

* A halt between the writes of directory and map leaves files whose sectors the
  map gives out again (`torn`); nothing repairs that but formatting.
* `Create_Syscall` and `FileWrite` of `fstest.cc` create files of length 0, and
  files do not grow, so that what they then write is not written.
* `FileHeader::Allocate` does not compare the number of sectors with `NumDirect`;
  the model has files of less.

Restaurant (`threads/simulation.cc`):

* `AllCustomersServed` in mode `numbers`: the number of customers to wait for is
  set only when the numbers on the command line are not valid (223), so that with
  valid numbers the staff goes home at once.
* `TablesCounted`: the line to enter gets shorter only when the customer who was
  called runs (617); until then the manager may call the same entry again, for
  another table (855).
* The lines are served last come first served; the cost of food is looked up by a
  value of the menu; waiters, and cooks on break, never exit.

## 7. Mutants

Each checked property has a mutant: an operator placed before the definition it
replaces, with the comment `Mutant:`, that changes the code's behaviour as a
slip in the code would. TLC finds the property violated when the mutant takes
the place of the definition.

## 8. Not modelled

* MIPS simulator (`machine/mipssim.cc`): an interpreter, a function of registers
  and memory, on which no property here depends.
* Host interface (`machine/sysdep.cc`), statistics, command line, debugging
  output: I/O without protocol.
* COFF tools (`bin/`): run before the system does.
* Network device and postal worker below `PostOffice`, disk requests below
  `FileSystem`, the console: each waits for one interrupt on a semaphore, the
  pattern of `Synch`; their packets, sectors and characters are what the other
  modules send and store.
* The process table and `Exit`: of the system calls of processes, what `Exec` and
  `Fork` do to memory is in `VirtualMemory`.
* `SIGNALLOCK`, `SIGNALRESPONSE`, `BROADCASTLOCK`, `BROADCASTRESPONSE` and
  `sendError` of `netcall.cc`: their senders put texts together that no longer
  hold their numbers.
* The programs in `test/`: the restaurant there repeats `threads/simulation.cc`
  with system calls.
* Page faults that the timer interrupts (option `-rs`): `VirtualMemory` has a page
  fault in one step. The lock that would protect it is commented out in the code.
* Two callers of the file system at once, which a comment of the code excludes.
* Processor time: when a timer or a timeout fires is left open everywhere.
* Equal time stamps: two calls of `Send` within one microsecond. The clocks of
  `PostOffice`, `TotalOrder` and `DistributedLocks`, and the identity of messages
  in `Registration`, give each message a stamp of its own.
