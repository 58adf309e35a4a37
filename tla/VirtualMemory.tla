--------------------------- MODULE VirtualMemory ---------------------------
(***************************************************************************)
(* Demand paging with a software-loaded TLB, an inverted page table and a  *)
(* swap file: HandlePageFault and what it calls (userprog/exception.cc),   *)
(* the translation (machine/translate.cc), the page tables                 *)
(* (userprog/addrspace.cc), the swap file (userprog/swapfile.cc), and the  *)
(* places where the TLB is emptied: context switch (threads/scheduler.cc), *)
(* Fork and Exec.                                                          *)
(*                                                                         *)
(* A page is its contents, one value.  A page fault is one step, as it is  *)
(* when the timer does not force context switches inside the kernel (no    *)
(* option -rs): nothing in HandlePageFault blocks.                         *)
(***************************************************************************)
EXTENDS Integers, Sequences, SequencesExt, FiniteSetsExt

CONSTANTS Process,       \* the address spaces that may be created
          First,         \* the one that runs from the start
          NoProcess,     \* processID of an entry that was never used
          NumPhysPages, TLBSize,
          CodePages,     \* pages that the executable file fills
          DataPages,     \* code pages and stack of a new process
          MaxPages,      \* bound: pages of a process after its Forks
          MaxSwapPages,
          Stored         \* what user programs write

Frame == 0..(NumPhysPages - 1)
Slot == 0..(TLBSize - 1)
Page == 0..(MaxPages - 1)

\* The contents of a page that is filled with zeros or read from the executable.
Zero == "zero"
Code == "code"
Value == {Zero, Code} \cup Stored

ASSUME MemoryAssumption ==
    /\ First \in Process /\ NoProcess \notin Process
    /\ NumPhysPages \in Nat \ {0} /\ TLBSize \in Nat \ {0}
    /\ CodePages \in Nat /\ DataPages \in Nat \ {0} /\ MaxPages \in Nat
    /\ CodePages <= DataPages /\ DataPages <= MaxPages
    /\ MaxSwapPages \in Nat

VARIABLES
    running,          \* currentThread->space
    numPages,         \* AddrSpace::numPages, 0 before Exec
    pageTable,        \* location and swapPageIndex of each page
    mainMemory,       \* contents of each frame
    ipt,              \* the inverted page table
    tlb,
    currentTLBIndex,
    ppnInUse,         \* ppnInUseBitMap
    ppnQueue,         \* the frames in the order they were filled (FIFO policy)
    pageMap,          \* pages of the swap file that are taken
    swap,             \* contents of the swap file
    halted,           \* the swap file ran out of space
    useRandomPageEviction  \* option -P of the command line

vars == <<running, numPages, pageTable, mainMemory, ipt, tlb, currentTLBIndex,
          ppnInUse, ppnQueue, pageMap, swap, halted, useRandomPageEviction>>

\* A TLB entry that is not valid.  The code only clears the bit; nothing reads
\* the other fields then.
Invalid == [virtualPage |-> 0, physicalPage |-> 0, valid |-> FALSE, dirty |-> FALSE]

\* AddrSpace::AddrSpace.
NewPage(v) ==
    [location |-> IF v < CodePages THEN "IN_EXECUTABLE" ELSE "NEITHER", swapPageIndex |-> -1]

Init ==
    /\ running = First
    /\ numPages = [p \in Process |-> IF p = First THEN DataPages ELSE 0]
    /\ pageTable = [p \in Process |-> [v \in Page |-> NewPage(v)]]
    /\ mainMemory = [f \in Frame |-> Zero]
    /\ ipt = [f \in Frame |-> [virtualPage |-> 0, valid |-> FALSE, dirty |-> FALSE,
                               processID |-> NoProcess]]
    /\ tlb = [i \in Slot |-> Invalid]
    /\ currentTLBIndex = 0
    /\ ppnInUse = {}
    /\ ppnQueue = <<>>
    /\ pageMap = {}
    /\ swap = [s \in 0..(MaxSwapPages - 1) |-> Zero]
    /\ halted = FALSE
    /\ useRandomPageEviction \in BOOLEAN

-----------------------------------------------------------------------------
\* Machine::Translate: the slots whose entry is found for page v.
Hits(v) == {i \in Slot : tlb[i].valid /\ tlb[i].virtualPage = v}

\* Machine::WriteMem on a page that has a TLB entry.  (A read changes nothing
\* here but the use bit, which nobody looks at.)
Write(v, x) ==
    /\ ~halted
    /\ Hits(v) # {}
    /\ LET i == Min(Hits(v)) IN
         /\ mainMemory' = [mainMemory EXCEPT ![tlb[i].physicalPage] = x]
         /\ tlb' = [tlb EXCEPT ![i].dirty = TRUE]
    /\ UNCHANGED <<running, numPages, pageTable, ipt, currentTLBIndex, ppnInUse,
                   ppnQueue, pageMap, swap, halted,
                   useRandomPageEviction>>

-----------------------------------------------------------------------------
(* HandlePageFault *)

\* Mutant: the inverted page table is not searched.
NeverResident(v) == {}

\* findIPTIndex: the frames that hold page v of the running process.
Resident(v) ==
    {f \in Frame : ipt[f].valid /\ ipt[f].virtualPage = v /\ ipt[f].processID = running}

\* Mutant: the index of the slot does not wrap around.
UpdateTLBNoWrap(table, buffer, ppn) ==
    /\ ipt' = table
    /\ tlb' = [buffer EXCEPT ![currentTLBIndex] =
                 [virtualPage |-> table[ppn].virtualPage, physicalPage |-> ppn,
                  valid |-> table[ppn].valid, dirty |-> table[ppn].dirty]]
    /\ currentTLBIndex' = currentTLBIndex + 1

\* updateTLBFromIPT with the table, and the TLB, as evictAPage left them: the
\* dirty bit of the entry that is replaced goes to the inverted page table.
UpdateTLBFromIPT(table, buffer, ppn) ==
    LET old == buffer[currentTLBIndex]
        entries == IF old.valid THEN [table EXCEPT ![old.physicalPage].dirty = old.dirty]
                   ELSE table
    IN  /\ ipt' = entries
        /\ tlb' = [buffer EXCEPT ![currentTLBIndex] =
                     [virtualPage |-> entries[ppn].virtualPage, physicalPage |-> ppn,
                      valid |-> entries[ppn].valid, dirty |-> entries[ppn].dirty]]
        /\ currentTLBIndex' = (currentTLBIndex + 1) % TLBSize

\* The page is in memory, but not in the TLB.
SoftFault(v) ==
    /\ Hits(v) = {}
    /\ Resident(v) # {}
    /\ UpdateTLBFromIPT(ipt, tlb, Min(Resident(v)))
    /\ UNCHANGED <<running, numPages, pageTable, mainMemory, ppnInUse, ppnQueue,
                   pageMap, swap, halted,
                   useRandomPageEviction>>

\* The entry of the inverted page table for page v.
NewEntry(v) ==
    [virtualPage |-> v, valid |-> TRUE, dirty |-> FALSE, processID |-> running]

\* What loadPageIntoIPT puts into the frame; file is the swap file it reads.
Loaded(entry, file) ==
    CASE entry.location = "IN_EXECUTABLE" -> Code
      [] entry.location = "IN_SWAP_FILE"  -> file[entry.swapPageIndex]
      [] entry.location = "NEITHER"       -> Zero

\* loadPageIntoIPT into the first free frame.
FreeFrameFault(v) ==
    /\ Hits(v) = {} /\ Resident(v) = {}
    /\ ppnInUse # Frame
    /\ LET ppn == Min(Frame \ ppnInUse) IN
         /\ ppnInUse' = ppnInUse \cup {ppn}
         /\ ppnQueue' = IF useRandomPageEviction THEN ppnQueue ELSE Append(ppnQueue, ppn)
         /\ mainMemory' = [mainMemory EXCEPT ![ppn] = Loaded(pageTable[running][v], swap)]
         /\ UpdateTLBFromIPT([ipt EXCEPT ![ppn] = NewEntry(v)], tlb, ppn)
    /\ UNCHANGED <<running, numPages, pageTable, pageMap, swap, halted,
                   useRandomPageEviction>>

\* The frames that evictAPage may choose.
Victims == IF useRandomPageEviction THEN Frame ELSE {Head(ppnQueue)}

\* Mutant: the TLB keeps its entry for the frame.
KeepTLB(ppn) == tlb

\* evictAPage: a TLB entry of the running process for the frame is made
\* invalid.  Its dirty bit is not looked at.
InvalidateTLB(ppn) ==
    IF ipt[ppn].processID = running
    THEN [i \in Slot |-> IF tlb[i].physicalPage = ppn THEN Invalid ELSE tlb[i]]
    ELSE tlb

\* loadPageIntoIPT into a frame that is not dirty.
EvictClean(v, ppn) ==
    /\ ~ipt[ppn].dirty
    /\ mainMemory' = [mainMemory EXCEPT ![ppn] = Loaded(pageTable[running][v], swap)]
    /\ UNCHANGED <<pageTable, pageMap, swap>>

\* Mutant: a page gets a new swap page every time, the first one that is free
\* on a bit map which is never marked.
StoreUnmarked(v, ppn) ==
    /\ ipt[ppn].dirty
    /\ LET p == ipt[ppn].processID
           w == ipt[ppn].virtualPage
           free == (0..(MaxSwapPages - 1)) \ pageMap
           s == Min(free)
           file == [swap EXCEPT ![s] = mainMemory[ppn]]
       IN  /\ pageMap' = pageMap
           /\ swap' = file
           /\ pageTable' = [pageTable EXCEPT ![p][w] =
                              [location |-> "IN_SWAP_FILE", swapPageIndex |-> s]]
           /\ mainMemory' = [mainMemory EXCEPT ![ppn] = Loaded(pageTable'[running][v], file)]

\* loadPageIntoIPT into a dirty frame: its page is stored first, in the swap
\* page it has or in a new one.
EvictDirty(v, ppn) ==
    /\ ipt[ppn].dirty
    /\ LET p == ipt[ppn].processID
           w == ipt[ppn].virtualPage
           free == (0..(MaxSwapPages - 1)) \ pageMap
           s == IF pageTable[p][w].swapPageIndex < 0 THEN Min(free)
                ELSE pageTable[p][w].swapPageIndex
           file == [swap EXCEPT ![s] = mainMemory[ppn]]
       IN  /\ pageTable[p][w].swapPageIndex < 0 => free # {}
           /\ pageMap' = pageMap \cup {s}
           /\ swap' = file
           /\ pageTable' = [pageTable EXCEPT ![p][w] =
                              [location |-> "IN_SWAP_FILE", swapPageIndex |-> s]]
           /\ mainMemory' = [mainMemory EXCEPT ![ppn] = Loaded(pageTable'[running][v], file)]

\* Mutant: the frame that was evicted does not go back to the queue.
EvictForgetsQueue(v, ppn) ==
    /\ Hits(v) = {} /\ Resident(v) = {}
    /\ ppnInUse = Frame
    /\ ppn \in Victims
    /\ EvictClean(v, ppn) \/ EvictDirty(v, ppn)
    /\ ppnQueue' = IF useRandomPageEviction THEN ppnQueue ELSE Tail(ppnQueue)
    /\ UpdateTLBFromIPT([ipt EXCEPT ![ppn] = NewEntry(v)], InvalidateTLB(ppn), ppn)
    /\ UNCHANGED <<running, numPages, ppnInUse, halted,
                   useRandomPageEviction>>

\* The frame that was evicted goes to the end of the queue again.
EvictFault(v, ppn) ==
    /\ Hits(v) = {} /\ Resident(v) = {}
    /\ ppnInUse = Frame
    /\ ppn \in Victims
    /\ EvictClean(v, ppn) \/ EvictDirty(v, ppn)
    /\ ppnQueue' = IF useRandomPageEviction THEN ppnQueue ELSE Append(Tail(ppnQueue), ppn)
    /\ UpdateTLBFromIPT([ipt EXCEPT ![ppn] = NewEntry(v)], InvalidateTLB(ppn), ppn)
    /\ UNCHANGED <<running, numPages, ppnInUse, halted,
                   useRandomPageEviction>>

\* GetSwapPageIndex finds no page: the machine halts.
SwapFull(v, ppn) ==
    /\ Hits(v) = {} /\ Resident(v) = {}
    /\ ppnInUse = Frame
    /\ ppn \in Victims
    /\ ipt[ppn].dirty
    /\ pageTable[ipt[ppn].processID][ipt[ppn].virtualPage].swapPageIndex < 0
    /\ pageMap = 0..(MaxSwapPages - 1)
    /\ halted' = TRUE
    /\ UNCHANGED <<running, numPages, pageTable, mainMemory, ipt, tlb, currentTLBIndex,
                   ppnInUse, ppnQueue, pageMap, swap, useRandomPageEviction>>

HandlePageFault(v) ==
    /\ ~halted
    /\ v < numPages[running]
    /\ \/ SoftFault(v)
       \/ FreeFrameFault(v)
       \/ \E ppn \in Frame : EvictFault(v, ppn) \/ SwapFull(v, ppn)

-----------------------------------------------------------------------------
\* The inverted page table with the dirty bits of the TLB.
DirtyFromTLB ==
    [f \in Frame |->
        LET slots == {i \in Slot : tlb[i].valid /\ tlb[i].physicalPage = f}
        IN  IF slots = {} THEN ipt[f] ELSE [ipt[f] EXCEPT !.dirty = tlb[Max(slots)].dirty]]

\* Mutant: the entries of the TLB survive the switch.
SwitchKeepsTLB(p) ==
    /\ ~halted
    /\ numPages[p] > 0
    /\ running' = p
    /\ ipt' = DirtyFromTLB
    /\ UNCHANGED <<numPages, pageTable, mainMemory, tlb, currentTLBIndex, ppnInUse,
                   ppnQueue, pageMap, swap, halted,
                   useRandomPageEviction>>

EmptyTLB == [i \in Slot |-> Invalid]

\* Scheduler::Run to a thread of process p, maybe another one of the process
\* that runs: the TLB is emptied and its dirty
\* bits are kept.
SwitchTo(p) ==
    /\ ~halted
    /\ numPages[p] > 0
    /\ running' = p
    /\ ipt' = DirtyFromTLB
    /\ tlb' = EmptyTLB
    /\ UNCHANGED <<numPages, pageTable, mainMemory, currentTLBIndex, ppnInUse,
                   ppnQueue, pageMap, swap, halted,
                   useRandomPageEviction>>

\* Fork_Syscall: a stack for the new thread, and the TLB is emptied.
Fork ==
    /\ ~halted
    /\ numPages[running] < MaxPages
    /\ numPages' = [numPages EXCEPT ![running] = @ + 1]
    /\ tlb' = EmptyTLB
    /\ UNCHANGED <<running, pageTable, mainMemory, ipt, currentTLBIndex, ppnInUse,
                   ppnQueue, pageMap, swap, halted,
                   useRandomPageEviction>>

\* Exec_Syscall: a new address space, and the TLB is emptied.
Exec(p) ==
    /\ ~halted
    /\ numPages[p] = 0
    /\ numPages' = [numPages EXCEPT ![p] = DataPages]
    /\ tlb' = EmptyTLB
    /\ UNCHANGED <<running, pageTable, mainMemory, ipt, currentTLBIndex, ppnInUse,
                   ppnQueue, pageMap, swap, halted,
                   useRandomPageEviction>>

Next ==
    \/ \E v \in Page : HandlePageFault(v) \/ \E x \in Stored : Write(v, x)
    \/ \E p \in Process : SwitchTo(p) \/ Exec(p)
    \/ Fork

Spec == Init /\ [][Next]_vars

-----------------------------------------------------------------------------
(* Properties *)

\* Every variable keeps its type.
TypeOK ==
    /\ running \in Process
    /\ numPages \in [Process -> 0..MaxPages]
    /\ pageTable \in [Process -> [Page ->
          [location : {"IN_EXECUTABLE", "IN_SWAP_FILE", "NEITHER"},
           swapPageIndex : -1..(MaxSwapPages - 1)]]]
    /\ mainMemory \in [Frame -> Value]
    /\ ipt \in [Frame -> [virtualPage : Page, valid : BOOLEAN, dirty : BOOLEAN,
                          processID : Process \cup {NoProcess}]]
    /\ tlb \in [Slot -> [virtualPage : Page, physicalPage : Frame, valid : BOOLEAN,
                         dirty : BOOLEAN]]
    /\ currentTLBIndex \in Slot
    /\ ppnInUse \subseteq Frame
    /\ ppnQueue \in Seq(Frame)
    /\ pageMap \subseteq 0..(MaxSwapPages - 1)
    /\ swap \in [0..(MaxSwapPages - 1) -> Value]
    /\ halted \in BOOLEAN
    /\ useRandomPageEviction \in BOOLEAN

\* evictAPage, Scheduler::Run, Fork_Syscall and Exec_Syscall empty the TLB so
\* that it never translates to a frame that holds another page or the page of
\* another process.
TLBAgrees ==
    \A i \in Slot : tlb[i].valid =>
        LET entry == ipt[tlb[i].physicalPage]
        IN  /\ entry.valid
            /\ entry.processID = running
            /\ entry.virtualPage = tlb[i].virtualPage

\* findIPTIndex and Translate stop at the first entry they find: a page is in
\* one frame and in one slot only.
OneFrame ==
    /\ \A f, g \in Frame :
          /\ ipt[f].valid /\ ipt[g].valid
          /\ ipt[f].processID = ipt[g].processID
          /\ ipt[f].virtualPage = ipt[g].virtualPage
          => f = g
    /\ \A v \in Page : Cardinality(Hits(v)) <= 1

\* GetSwapPageIndex: two pages never share a page of the swap file, and what a
\* page table refers to is taken on the bit map.
OwnSwapPage ==
    LET swapped == {pv \in Process \X Page : pageTable[pv[1]][pv[2]].swapPageIndex >= 0}
        index(pv) == pageTable[pv[1]][pv[2]].swapPageIndex
    IN  /\ \A a, b \in swapped : index(a) = index(b) => a = b
        /\ {index(a) : a \in swapped} = pageMap

\* SynchList::Remove in evictAPage waits when the queue is empty, and a frame
\* that is not in it is never evicted: the queue holds the frames in use, once.
QueueHoldsFrames ==
    ~useRandomPageEviction => IsInjective(ppnQueue) /\ Range(ppnQueue) = ppnInUse

\* What loadPageIntoIPT and evictAPage rely on when they look up a frame, a
\* swap page and a victim.
FramesSound == TypeOK /\ OneFrame /\ OwnSwapPage /\ QueueHoldsFrames

-----------------------------------------------------------------------------
(* The memory that user programs see *)

\* The contents of page v of process p, wherever they are.
Contents(p, v) ==
    LET frames == {f \in Frame : ipt[f].valid /\ ipt[f].virtualPage = v /\ ipt[f].processID = p}
    IN  IF frames # {} THEN mainMemory[Min(frames)] ELSE Loaded(pageTable[p][v], swap)

M == INSTANCE Memory WITH
        Initial <- [p \in Process |-> [v \in Page |-> IF v < CodePages THEN Code ELSE Zero]],
        contents <- [p \in Process |-> [v \in Page |-> Contents(p, v)]]

\* HandlePageFault, the swap file and the places that empty the TLB implement
\* the memory that user programs expect: what a program wrote stays until it
\* writes again, wherever the page is kept (test/sort.c: "and then we're done
\* -- should be 0!").
ImplementsMemory == M!Spec

\* Eviction of a frame whose dirty bit in the inverted page table is not set:
\* its page goes back to what the page table says, and nothing else changes.
VictimReverts(f) ==
    /\ ipt[f].valid /\ ~ipt[f].dirty
    /\ UNCHANGED running
    /\ \A p \in Process : \A v \in Page :
          Contents(p, v)' = IF p = ipt[f].processID /\ v = ipt[f].virtualPage
                            THEN Loaded(pageTable[p][v], swap) ELSE Contents(p, v)

\* HandlePageFault, the swap file, context switches, Fork_Syscall and
\* Exec_Syscall keep what programs wrote, with one exception: what evictAPage
\* does not store, because the dirty bit it looks at is not set, is lost, and
\* then only that page, back to its last stored contents.  Without evictions
\* the memory is the one of module Memory.
MemoryUnlessUnstored ==
    M!Init /\ [][M!Next \/ \E f \in Frame : VictimReverts(f)]_vars

=============================================================================
