--------------------------- MODULE UserprogProofs ---------------------------
(***************************************************************************)
(* Proofs about userprog/: first paging, for any number of processes,      *)
(* frames, TLB slots, pages and swap pages (what the TLB translates to,    *)
(* who owns a frame and a page of the swap file); then the tables of locks *)
(* and condition variables, for any number of threads and entries.  The    *)
(* two halves share nothing but the lemmas they cite.                      *)
(***************************************************************************)
EXTENDS VirtualMemory, SynchManager, QueueLemmas, FiniteSetTheorems

USE MemoryAssumption

-----------------------------------------------------------------------------
(* The inductive invariant *)

IptType == [Frame -> [virtualPage : Page, valid : BOOLEAN, dirty : BOOLEAN,
                      processID : Process \cup {NoProcess}]]
TlbType == [Slot -> [virtualPage : Page, physicalPage : Frame, valid : BOOLEAN,
                     dirty : BOOLEAN]]

\* TLBAgrees and the second half of OneFrame, for any TLB and table: inside a
\* page fault they hold of values that are never assigned.
Agrees(buffer, inverted) ==
    \A i \in Slot : buffer[i].valid =>
        /\ inverted[buffer[i].physicalPage].valid
        /\ inverted[buffer[i].physicalPage].processID = running
        /\ inverted[buffer[i].physicalPage].virtualPage = buffer[i].virtualPage

SlotsDiffer(buffer) ==
    \A i, j \in Slot :
        /\ buffer[i].valid /\ buffer[j].valid
        /\ buffer[i].virtualPage = buffer[j].virtualPage
        => i = j

FramesDiffer ==
    \A f, g \in Frame :
        /\ ipt[f].valid /\ ipt[g].valid
        /\ ipt[f].processID = ipt[g].processID
        /\ ipt[f].virtualPage = ipt[g].virtualPage
        => f = g

\* The bit map and the valid bits say the same, and a valid entry has an owner.
FramesOwned ==
    \A f \in Frame :
        /\ ipt[f].valid <=> f \in ppnInUse
        /\ ipt[f].valid => ipt[f].processID \in Process

Index(p, v) == pageTable[p][v].swapPageIndex

\* OwnSwapPage without sets of pairs, and: a page that is in the swap file has
\* an index.
SwapOwned ==
    /\ \A p, q \in Process, v, w \in Page :
          Index(p, v) >= 0 /\ Index(p, v) = Index(q, w) => p = q /\ v = w
    /\ \A p \in Process, v \in Page :
          /\ Index(p, v) >= 0 => Index(p, v) \in pageMap
          /\ pageTable[p][v].location = "IN_SWAP_FILE" => Index(p, v) >= 0
    /\ \A s \in pageMap : \E p \in Process, v \in Page : Index(p, v) = s

IInv ==
    /\ TypeOK
    /\ Agrees(tlb, ipt)
    /\ SlotsDiffer(tlb)
    /\ FramesDiffer
    /\ FramesOwned
    /\ SwapOwned
    /\ QueueHoldsFrames

-----------------------------------------------------------------------------
(* Numbers *)

LEMMA Ranges ==
    /\ 0 \in Frame /\ 0 \in Slot /\ 0 \in Page
    /\ Frame \subseteq Nat /\ Slot \subseteq Nat /\ Page \subseteq Nat
    /\ \A i \in Slot : (i + 1) % TLBSize \in Slot
BY DEF Frame, Slot, Page

\* Translate and findIPTIndex return an entry that they found.
LEMMA HitIsSlot ==
    ASSUME NEW v, Hits(v) # {}
    PROVE  Min(Hits(v)) \in Hits(v)
<1>1. Hits(v) \in SUBSET Nat
  BY Ranges DEF Hits
<1> QED
  BY <1>1, MinOfNat

LEMMA ResidentIsFrame ==
    ASSUME NEW v, Resident(v) # {}
    PROVE  Min(Resident(v)) \in Resident(v)
<1>1. Resident(v) \in SUBSET Nat
  BY Ranges DEF Resident
<1> QED
  BY <1>1, MinOfNat

LEMMA FreeFrame ==
    ASSUME ppnInUse \subseteq Frame, ppnInUse # Frame
    PROVE  Min(Frame \ ppnInUse) \in Frame \ ppnInUse
<1>1. Frame \ ppnInUse \in SUBSET Nat
  BY Ranges
<1> QED
  BY <1>1, MinOfNat

-----------------------------------------------------------------------------
(* The initial states *)

LEMMA InitIInv == Init => IInv
<1> SUFFICES ASSUME Init PROVE IInv
  OBVIOUS
<1> USE DEF Init
<1>1. TypeOK
  <2>1. DataPages \in 0..MaxPages
    OBVIOUS
  <2>2. \A v \in Page : NewPage(v) \in
           [location : {"IN_EXECUTABLE", "IN_SWAP_FILE", "NEITHER"},
            swapPageIndex : -1..(MaxSwapPages - 1)]
    BY DEF NewPage
  <2>3. pageTable \in [Process -> [Page ->
           [location : {"IN_EXECUTABLE", "IN_SWAP_FILE", "NEITHER"},
            swapPageIndex : -1..(MaxSwapPages - 1)]]]
    BY <2>2
  <2>4. /\ numPages \in [Process -> 0..MaxPages]
        /\ mainMemory \in [Frame -> Value]
        /\ swap \in [0..(MaxSwapPages - 1) -> Value]
    BY <2>1 DEF Value
  <2>5. ipt \in IptType /\ tlb \in TlbType
    BY Ranges DEF IptType, TlbType, Invalid
  <2> QED
    BY <2>3, <2>4, <2>5, Ranges, EmptyQueue DEF TypeOK, IptType, TlbType
<1>2. Agrees(tlb, ipt) /\ SlotsDiffer(tlb) /\ FramesDiffer /\ FramesOwned
  BY DEF Agrees, SlotsDiffer, FramesDiffer, FramesOwned, Invalid
<1>3. SwapOwned
  BY DEF SwapOwned, Index, NewPage
<1>4. QueueHoldsFrames
  BY EmptyQueue DEF QueueHoldsFrames
<1> QED
  BY <1>1, <1>2, <1>3, <1>4 DEF IInv

-----------------------------------------------------------------------------
(* Loading the TLB *)

SameOwners(inverted, entries) ==
    \A f \in Frame :
        /\ inverted[f].valid = entries[f].valid
        /\ inverted[f].processID = entries[f].processID
        /\ inverted[f].virtualPage = entries[f].virtualPage

\* updateTLBFromIPT with a frame that holds page v of the running process, for
\* which the TLB has no entry.
LEMMA UpdateStep ==
    ASSUME NEW inverted \in IptType, NEW buffer \in TlbType,
           NEW v \in Page, NEW ppn \in Frame,
           currentTLBIndex \in Slot,
           Agrees(buffer, inverted), SlotsDiffer(buffer),
           \A i \in Slot : buffer[i].valid => buffer[i].virtualPage # v,
           inverted[ppn].valid, inverted[ppn].processID = running, inverted[ppn].virtualPage = v,
           UpdateTLBFromIPT(inverted, buffer, ppn), UNCHANGED running
    PROVE  /\ ipt' \in IptType /\ tlb' \in TlbType /\ currentTLBIndex' \in Slot
           /\ SameOwners(inverted, ipt')
           /\ Agrees(tlb, ipt)'
           /\ SlotsDiffer(tlb)'
<1> DEFINE old == buffer[currentTLBIndex]
           new == [virtualPage |-> v, physicalPage |-> ppn, valid |-> TRUE,
                   dirty |-> ipt'[ppn].dirty]
<1>1. old.physicalPage \in Frame /\ old.valid \in BOOLEAN /\ old.dirty \in BOOLEAN
  BY DEF TlbType
<1>2. ipt' = IF old.valid THEN [inverted EXCEPT ![old.physicalPage].dirty = old.dirty]
             ELSE inverted
  BY DEF UpdateTLBFromIPT
<1>3. ipt' \in IptType
  BY <1>1, <1>2 DEF IptType
<1>4. SameOwners(inverted, ipt')
  BY <1>1, <1>2 DEF IptType, SameOwners
<1>5. ipt'[ppn].valid /\ ipt'[ppn].processID = running /\ ipt'[ppn].virtualPage = v
  BY <1>4 DEF SameOwners
<1>6. ipt'[ppn].valid = TRUE /\ ipt'[ppn].dirty \in BOOLEAN
  BY <1>3, <1>5 DEF IptType
<1>7. tlb' = [buffer EXCEPT ![currentTLBIndex] = new]
  BY <1>5, <1>6 DEF UpdateTLBFromIPT
<1>8. new \in [virtualPage : Page, physicalPage : Frame, valid : BOOLEAN, dirty : BOOLEAN]
  BY <1>6
<1>9. tlb' \in TlbType
  BY <1>7, <1>8 DEF TlbType
<1>10. currentTLBIndex' \in Slot
  BY Ranges DEF UpdateTLBFromIPT
<1>11. \A i \in Slot : tlb'[i] = IF i = currentTLBIndex THEN new ELSE buffer[i]
  BY <1>7 DEF TlbType
<1>12. Agrees(tlb, ipt)'
  BY <1>4, <1>5, <1>11 DEF Agrees, SameOwners, TlbType
<1>13. SlotsDiffer(tlb)'
  BY <1>11 DEF SlotsDiffer
<1> QED
  BY <1>3, <1>4, <1>9, <1>10, <1>12, <1>13

\* The TLB has no entry for a page that Translate does not find.
LEMMA NoHit ==
    ASSUME NEW v, Hits(v) = {}
    PROVE  \A i \in Slot : tlb[i].valid => tlb[i].virtualPage # v
BY DEF Hits

\* Page v of the running process gets frame ppn, which is free or evicted: no
\* frame held it before.
LEMMA OwnersStep ==
    ASSUME IInv, NEW v \in Page, NEW ppn \in Frame, Resident(v) = {},
           SameOwners([ipt EXCEPT ![ppn] = NewEntry(v)], ipt'),
           ppnInUse' = ppnInUse \cup {ppn}
    PROVE  FramesDiffer' /\ FramesOwned'
<1>1. \A f \in Frame :
         /\ f # ppn => /\ ipt'[f].valid = ipt[f].valid
                       /\ ipt'[f].processID = ipt[f].processID
                       /\ ipt'[f].virtualPage = ipt[f].virtualPage
         /\ f = ppn => /\ ipt'[f].valid
                       /\ ipt'[f].processID = running
                       /\ ipt'[f].virtualPage = v
  BY DEF SameOwners, NewEntry, IInv, TypeOK
<1>2. \A f \in Frame : ~(ipt[f].valid /\ ipt[f].virtualPage = v /\ ipt[f].processID = running)
  BY DEF Resident
<1>3. FramesDiffer'
  BY <1>1, <1>2 DEF FramesDiffer, IInv
<1>4. running \in Process
  BY DEF IInv, TypeOK
<1>5. FramesOwned'
  BY <1>1, <1>4 DEF FramesOwned, IInv
<1> QED
  BY <1>3, <1>5

LEMMA NewEntryType ==
    ASSUME IInv, NEW v \in Page, NEW ppn \in Frame
    PROVE  /\ [ipt EXCEPT ![ppn] = NewEntry(v)] \in IptType
           /\ tlb \in TlbType
           /\ currentTLBIndex \in Slot
BY DEF IInv, TypeOK, IptType, TlbType, NewEntry

-----------------------------------------------------------------------------
(* One lemma per action *)

\* What an entry of a page table is.
LEMMA EntryType ==
    ASSUME IInv, NEW p \in Process, NEW v \in Page
    PROVE  /\ pageTable[p][v].location \in {"IN_EXECUTABLE", "IN_SWAP_FILE", "NEITHER"}
           /\ pageTable[p][v].swapPageIndex \in -1..(MaxSwapPages - 1)
<1>1. pageTable \in [Process -> [Page ->
         [location : {"IN_EXECUTABLE", "IN_SWAP_FILE", "NEITHER"},
          swapPageIndex : -1..(MaxSwapPages - 1)]]]
  BY DEF IInv, TypeOK
<1> QED
  BY <1>1

\* What a frame is filled with is a page's contents.
LEMMA LoadedType ==
    ASSUME IInv, NEW v \in Page
    PROVE  Loaded(pageTable[running][v], swap) \in Value
<1> DEFINE entry == pageTable[running][v]
<1>1. /\ entry.location \in {"IN_EXECUTABLE", "IN_SWAP_FILE", "NEITHER"}
      /\ entry.swapPageIndex \in -1..(MaxSwapPages - 1)
      /\ entry.location = "IN_SWAP_FILE" => entry.swapPageIndex >= 0
      /\ swap \in [0..(MaxSwapPages - 1) -> Value]
  BY DEF IInv, TypeOK, SwapOwned, Index
<1>2. Code \in Value /\ Zero \in Value
  BY DEF Value
<1>3. CASE entry.location = "IN_SWAP_FILE"
  <2>1. entry.swapPageIndex \in 0..(MaxSwapPages - 1)
    BY <1>1, <1>3
  <2> QED
    BY <1>1, <1>3, <2>1 DEF Loaded
<1> QED
  BY <1>1, <1>2, <1>3 DEF Loaded

LEMMA WriteStep ==
    ASSUME IInv, NEW v \in Page, NEW x \in Stored, Write(v, x)
    PROVE  IInv'
<1> DEFINE i == Min(Hits(v))
<1>1. i \in Slot
  BY HitIsSlot DEF Write, Hits
<1>2. /\ mainMemory' = [mainMemory EXCEPT ![tlb[i].physicalPage] = x]
      /\ tlb' = [tlb EXCEPT ![i].dirty = TRUE]
      /\ UNCHANGED <<running, numPages, pageTable, ipt, currentTLBIndex, ppnInUse,
                     ppnQueue, pageMap, swap, halted, useRandomPageEviction>>
  BY DEF Write
<1> HIDE DEF i
<1>3. TypeOK'
  <2>1. mainMemory' \in [Frame -> Value]
    BY <1>1, <1>2 DEF IInv, TypeOK, Value
  <2>2. tlb' \in TlbType
    BY <1>1, <1>2 DEF IInv, TypeOK, TlbType
  <2> QED
    BY <1>2, <2>1, <2>2 DEF IInv, TypeOK, TlbType
<1>4. \A j \in Slot : /\ tlb'[j].valid = tlb[j].valid
                      /\ tlb'[j].virtualPage = tlb[j].virtualPage
                      /\ tlb'[j].physicalPage = tlb[j].physicalPage
  BY <1>1, <1>2 DEF IInv, TypeOK
<1>5. Agrees(tlb, ipt)' /\ SlotsDiffer(tlb)'
  BY <1>2, <1>4 DEF IInv, Agrees, SlotsDiffer
<1>6. FramesDiffer' /\ FramesOwned' /\ SwapOwned' /\ QueueHoldsFrames'
  BY <1>2 DEF IInv, FramesDiffer, FramesOwned, SwapOwned, Index, QueueHoldsFrames
<1> QED
  BY <1>3, <1>5, <1>6 DEF IInv

LEMMA SoftFaultStep ==
    ASSUME IInv, NEW v \in Page, SoftFault(v)
    PROVE  IInv'
<1> DEFINE ppn == Min(Resident(v))
<1>1. /\ ppn \in Frame /\ ipt[ppn].valid
      /\ ipt[ppn].processID = running /\ ipt[ppn].virtualPage = v
  BY ResidentIsFrame DEF SoftFault, Resident
<1>2. /\ UpdateTLBFromIPT(ipt, tlb, ppn)
      /\ UNCHANGED <<running, numPages, pageTable, mainMemory, ppnInUse, ppnQueue,
                     pageMap, swap, halted, useRandomPageEviction>>
      /\ Hits(v) = {}
  BY DEF SoftFault
<1> HIDE DEF ppn
<1>3. /\ ipt \in IptType /\ tlb \in TlbType /\ currentTLBIndex \in Slot
      /\ Agrees(tlb, ipt) /\ SlotsDiffer(tlb)
  BY DEF IInv, TypeOK, IptType, TlbType
<1>4. /\ ipt' \in IptType /\ tlb' \in TlbType /\ currentTLBIndex' \in Slot
      /\ SameOwners(ipt, ipt')
      /\ Agrees(tlb, ipt)' /\ SlotsDiffer(tlb)'
  BY <1>1, <1>2, <1>3, NoHit, UpdateStep
<1>5. TypeOK'
  BY <1>2, <1>4 DEF IInv, TypeOK, IptType, TlbType
<1>6. FramesDiffer' /\ FramesOwned'
  BY <1>2, <1>4 DEF IInv, FramesDiffer, FramesOwned, SameOwners
<1>7. SwapOwned' /\ QueueHoldsFrames'
  BY <1>2 DEF IInv, SwapOwned, Index, QueueHoldsFrames
<1> QED
  BY <1>4, <1>5, <1>6, <1>7 DEF IInv

LEMMA FreeFrameStep ==
    ASSUME IInv, NEW v \in Page, FreeFrameFault(v)
    PROVE  IInv'
<1> DEFINE ppn == Min(Frame \ ppnInUse)
           inverted == [ipt EXCEPT ![ppn] = NewEntry(v)]
<1>1. ppn \in Frame /\ ppn \notin ppnInUse
  BY FreeFrame DEF FreeFrameFault, IInv, TypeOK
<1>2. /\ ppnInUse' = ppnInUse \cup {ppn}
      /\ ppnQueue' = IF useRandomPageEviction THEN ppnQueue ELSE Append(ppnQueue, ppn)
      /\ mainMemory' = [mainMemory EXCEPT ![ppn] = Loaded(pageTable[running][v], swap)]
      /\ UpdateTLBFromIPT(inverted, tlb, ppn)
      /\ UNCHANGED <<running, numPages, pageTable, pageMap, swap, halted,
                     useRandomPageEviction>>
      /\ Hits(v) = {} /\ Resident(v) = {}
  BY DEF FreeFrameFault
<1> HIDE DEF ppn
<1>3. inverted \in IptType /\ tlb \in TlbType /\ currentTLBIndex \in Slot
  BY <1>1, NewEntryType
<1>4. inverted[ppn].valid /\ inverted[ppn].processID = running /\ inverted[ppn].virtualPage = v
  BY <1>1 DEF NewEntry, IInv, TypeOK
<1>5. ~ipt[ppn].valid
  BY <1>1 DEF IInv, FramesOwned
<1>6. Agrees(tlb, inverted) /\ SlotsDiffer(tlb)
  BY <1>5 DEF IInv, Agrees, TypeOK
<1> HIDE DEF inverted
<1>7. /\ ipt' \in IptType /\ tlb' \in TlbType /\ currentTLBIndex' \in Slot
      /\ SameOwners(inverted, ipt')
      /\ Agrees(tlb, ipt)' /\ SlotsDiffer(tlb)'
  BY <1>1, <1>2, <1>3, <1>4, <1>6, NoHit, UpdateStep
<1>8. FramesDiffer' /\ FramesOwned'
  BY <1>1, <1>2, <1>7, OwnersStep DEF inverted
<1>9. ppnQueue' \in Seq(Frame) /\ QueueHoldsFrames'
  BY <1>1, <1>2, AppendQueue DEF IInv, TypeOK, QueueHoldsFrames
<1>10. TypeOK'
  BY <1>1, <1>2, <1>7, <1>9, LoadedType DEF IInv, TypeOK, IptType, TlbType
<1>11. SwapOwned'
  BY <1>2 DEF IInv, SwapOwned, Index
<1> QED
  BY <1>7, <1>8, <1>9, <1>10, <1>11 DEF IInv

-----------------------------------------------------------------------------
(* Eviction *)

\* After InvalidateTLB no entry is left for the frame, and the others are kept.
LEMMA InvalidateStep ==
    ASSUME IInv, NEW v \in Page, NEW ppn \in Frame, ipt[ppn].valid
    PROVE  LET buffer == InvalidateTLB(ppn)
               inverted == [ipt EXCEPT ![ppn] = NewEntry(v)]
           IN  /\ buffer \in TlbType
               /\ Agrees(buffer, inverted)
               /\ SlotsDiffer(buffer)
               /\ \A i \in Slot : buffer[i].valid => tlb[i].valid /\ buffer[i] = tlb[i]
<1> DEFINE buffer == InvalidateTLB(ppn)
           inverted == [ipt EXCEPT ![ppn] = NewEntry(v)]
<1>1. buffer \in TlbType
  BY Ranges DEF IInv, TypeOK, TlbType, InvalidateTLB, Invalid
<1>2. ASSUME NEW i \in Slot, buffer[i].valid
      PROVE  buffer[i] = tlb[i] /\ tlb[i].valid /\ tlb[i].physicalPage # ppn
  <2>1. CASE ipt[ppn].processID = running
    BY <1>2, <2>1 DEF InvalidateTLB, Invalid
  <2>2. CASE ipt[ppn].processID # running
    BY <1>2, <2>2 DEF InvalidateTLB, IInv, Agrees
  <2> QED
    BY <2>1, <2>2
<1>3. \A f \in Frame : f # ppn => inverted[f] = ipt[f]
  BY DEF IInv, TypeOK
<1>4. \A i \in Slot : tlb[i].physicalPage \in Frame
  BY DEF IInv, TypeOK
<1> HIDE DEF buffer, inverted
<1>5. Agrees(buffer, inverted)
  BY <1>2, <1>3, <1>4 DEF IInv, Agrees
<1>6. SlotsDiffer(buffer)
  BY <1>2 DEF IInv, SlotsDiffer
<1> QED
  BY <1>1, <1>2, <1>5, <1>6 DEF buffer, inverted

\* The swap file and the page tables, when the victim is clean.
LEMMA EvictCleanStep ==
    ASSUME IInv, NEW v \in Page, NEW ppn \in Frame, EvictClean(v, ppn)
    PROVE  /\ UNCHANGED <<pageTable, pageMap, swap>>
           /\ mainMemory' \in [Frame -> Value]
           /\ SwapOwned'
<1>1. UNCHANGED <<pageTable, pageMap, swap>>
  BY DEF EvictClean
<1>2. mainMemory' \in [Frame -> Value]
  BY LoadedType DEF EvictClean, IInv, TypeOK
<1>3. SwapOwned'
  BY <1>1 DEF IInv, SwapOwned, Index
<1> QED
  BY <1>1, <1>2, <1>3

\* The page of the swap file that evictAPage stores page w of process p in.
LEMMA SwapSlot ==
    ASSUME IInv, NEW p \in Process, NEW w \in Page,
           pageTable[p][w].swapPageIndex < 0 => (0..(MaxSwapPages - 1)) \ pageMap # {}
    PROVE  LET s == IF pageTable[p][w].swapPageIndex < 0
                    THEN Min((0..(MaxSwapPages - 1)) \ pageMap)
                    ELSE pageTable[p][w].swapPageIndex
           IN  /\ s \in 0..(MaxSwapPages - 1)
               /\ \/ Index(p, w) < 0 /\ s \notin pageMap
                  \/ Index(p, w) = s
<1> DEFINE free == (0..(MaxSwapPages - 1)) \ pageMap
<1>1. pageTable[p][w].swapPageIndex \in -1..(MaxSwapPages - 1)
  BY EntryType
<1>2. free \in SUBSET Nat
  OBVIOUS
<1>3. CASE pageTable[p][w].swapPageIndex < 0
  <2>1. Min(free) \in free
    BY <1>2, <1>3, MinOfNat
  <2> QED
    BY <1>3, <2>1 DEF Index
<1>4. CASE ~(pageTable[p][w].swapPageIndex < 0)
  BY <1>1, <1>4 DEF Index
<1> QED
  BY <1>3, <1>4

\* The same when it is dirty: its page keeps its page of the swap file, or
\* gets one that is free.
LEMMA EvictDirtyStep ==
    ASSUME IInv, NEW v \in Page, NEW ppn \in Frame, ipt[ppn].valid,
           EvictDirty(v, ppn), UNCHANGED running
    PROVE  /\ pageTable' \in [Process -> [Page ->
                 [location : {"IN_EXECUTABLE", "IN_SWAP_FILE", "NEITHER"},
                  swapPageIndex : -1..(MaxSwapPages - 1)]]]
           /\ pageMap' \subseteq 0..(MaxSwapPages - 1)
           /\ swap' \in [0..(MaxSwapPages - 1) -> Value]
           /\ mainMemory' \in [Frame -> Value]
           /\ SwapOwned'
<1> DEFINE p == ipt[ppn].processID
           w == ipt[ppn].virtualPage
           free == (0..(MaxSwapPages - 1)) \ pageMap
           s == IF pageTable[p][w].swapPageIndex < 0 THEN Min(free)
                ELSE pageTable[p][w].swapPageIndex
           file == [swap EXCEPT ![s] = mainMemory[ppn]]
           stored == [location |-> "IN_SWAP_FILE", swapPageIndex |-> s]
<1>1. p \in Process /\ w \in Page
  BY DEF IInv, TypeOK, FramesOwned
<1>2. /\ pageTable[p][w].swapPageIndex < 0 => free # {}
      /\ pageMap' = pageMap \cup {s}
      /\ swap' = file
      /\ pageTable' = [pageTable EXCEPT ![p][w] = stored]
      /\ mainMemory' = [mainMemory EXCEPT ![ppn] = Loaded(pageTable'[running][v], file)]
  BY DEF EvictDirty
<1>3. pageTable \in [Process -> [Page ->
         [location : {"IN_EXECUTABLE", "IN_SWAP_FILE", "NEITHER"},
          swapPageIndex : -1..(MaxSwapPages - 1)]]]
  BY DEF IInv, TypeOK
<1>4. /\ s \in 0..(MaxSwapPages - 1)
      /\ \/ Index(p, w) < 0 /\ s \notin pageMap
         \/ Index(p, w) = s
  BY <1>1, <1>2, SwapSlot
<1> HIDE DEF p, w, s
<1>5. stored \in [location : {"IN_EXECUTABLE", "IN_SWAP_FILE", "NEITHER"},
                  swapPageIndex : -1..(MaxSwapPages - 1)]
  BY <1>4
<1>6. \A q \in Process, u \in Page :
         pageTable'[q][u] = IF q = p /\ u = w THEN stored ELSE pageTable[q][u]
  BY <1>1, <1>2, <1>3
<1>7. pageTable' \in [Process -> [Page ->
         [location : {"IN_EXECUTABLE", "IN_SWAP_FILE", "NEITHER"},
          swapPageIndex : -1..(MaxSwapPages - 1)]]]
  BY <1>1, <1>2, <1>3, <1>5
<1>8. pageMap' \subseteq 0..(MaxSwapPages - 1)
  BY <1>2, <1>4 DEF IInv, TypeOK
<1>9. swap' \in [0..(MaxSwapPages - 1) -> Value]
  BY <1>2, <1>4 DEF IInv, TypeOK
<1>10. SwapOwned'
  <2>1. \A q \in Process, u \in Page :
           Index(q, u)' = IF q = p /\ u = w THEN s ELSE Index(q, u)
    BY <1>6 DEF Index
  <2>2. \A q \in Process, u \in Page :
           Index(q, u) >= 0 /\ Index(q, u) = s => q = p /\ u = w
    BY <1>1, <1>4 DEF IInv, SwapOwned
  <2>3. \A q, r \in Process, u, x \in Page :
           (Index(q, u) >= 0 /\ Index(q, u) = Index(r, x))' => q = r /\ u = x
    BY <1>4, <2>1, <2>2 DEF IInv, SwapOwned
  <2>4. \A q \in Process, u \in Page :
           /\ Index(q, u)' >= 0 => Index(q, u)' \in pageMap'
           /\ pageTable'[q][u].location = "IN_SWAP_FILE" => Index(q, u)' >= 0
    BY <1>2, <1>4, <1>6, <2>1 DEF IInv, SwapOwned
  <2>5. \A m \in pageMap' : \E q \in Process, u \in Page : Index(q, u)' = m
    <3> SUFFICES ASSUME NEW m \in pageMap'
                 PROVE  \E q \in Process, u \in Page : Index(q, u)' = m
      OBVIOUS
    <3>1. CASE m = s
      BY <1>1, <2>1, <3>1
    <3>2. CASE m # s
      <4>1. m \in pageMap /\ m \in Nat
        BY <1>2, <3>2 DEF IInv, TypeOK
      <4>2. PICK q \in Process, u \in Page : Index(q, u) = m
        BY <4>1 DEF IInv, SwapOwned
      <4>3. ~(q = p /\ u = w)
        BY <1>4, <3>2, <4>1, <4>2
      <4> QED
        BY <2>1, <4>2, <4>3
    <3> QED
      BY <3>1, <3>2
  <2> QED
    BY <2>3, <2>4, <2>5 DEF SwapOwned
<1>11. mainMemory' \in [Frame -> Value]
  <2> DEFINE entry == pageTable'[running][v]
  <2>1. running \in Process
    BY DEF IInv, TypeOK
  <2>2. /\ entry.location \in {"IN_EXECUTABLE", "IN_SWAP_FILE", "NEITHER"}
        /\ entry.location = "IN_SWAP_FILE" => entry.swapPageIndex \in 0..(MaxSwapPages - 1)
    BY <1>7, <1>10, <2>1 DEF SwapOwned, Index
  <2>3. Loaded(entry, swap') \in Value
    <3>1. Code \in Value /\ Zero \in Value
      BY DEF Value
    <3> HIDE DEF entry
    <3> QED
      BY <1>9, <2>2, <3>1 DEF Loaded
  <2> QED
    BY <1>2, <2>3 DEF IInv, TypeOK
<1> QED
  BY <1>7, <1>8, <1>9, <1>10, <1>11

\* The frame that is evicted is in use, and the queue starts with it.
LEMMA VictimUsed ==
    ASSUME IInv, NEW ppn \in Frame, ppnInUse = Frame, ppn \in Victims
    PROVE  /\ ipt[ppn].valid
           /\ ~useRandomPageEviction => ppnQueue # <<>> /\ ppn = Head(ppnQueue)
<1>1. ipt[ppn].valid
  BY DEF IInv, FramesOwned
<1>2. ASSUME ~useRandomPageEviction
      PROVE  ppnQueue # <<>> /\ ppn = Head(ppnQueue)
  <2>1. Range(ppnQueue) # {}
    BY <1>2 DEF IInv, QueueHoldsFrames
  <2>2. ppnQueue # <<>>
    BY <2>1, EmptyQueue
  <2> QED
    BY <1>2, <2>2 DEF Victims
<1> QED
  BY <1>1, <1>2

\* The frame that is evicted moves to the end of the queue.
LEMMA RequeueStep ==
    ASSUME IInv, NEW ppn \in Frame, ppnInUse = Frame, ppn \in Victims,
           ppnQueue' = IF useRandomPageEviction THEN ppnQueue
                       ELSE Append(Tail(ppnQueue), ppn),
           UNCHANGED <<ppnInUse, useRandomPageEviction>>
    PROVE  ppnQueue' \in Seq(Frame) /\ QueueHoldsFrames'
<1>1. CASE useRandomPageEviction
  BY <1>1 DEF IInv, TypeOK, QueueHoldsFrames
<1>2. CASE ~useRandomPageEviction
  <2> DEFINE rest == Tail(ppnQueue)
  <2>1. /\ ppnQueue \in Seq(Frame) /\ ppnQueue # <<>> /\ ppn = Head(ppnQueue)
        /\ IsInjective(ppnQueue) /\ Range(ppnQueue) = Frame
    BY <1>2, VictimUsed DEF IInv, TypeOK, QueueHoldsFrames
  <2>2. rest \in Seq(Frame) /\ IsInjective(rest) /\ Range(rest) = Frame \ {ppn}
    BY <2>1, RemoveQueue
  <2>3. ppnQueue' = Append(rest, ppn)
    BY <1>2
  <2> HIDE DEF rest
  <2>4. ppn \notin Range(rest)
    BY <2>2
  <2>5. /\ Append(rest, ppn) \in Seq(Frame) /\ IsInjective(Append(rest, ppn))
        /\ Range(Append(rest, ppn)) = Range(rest) \cup {ppn}
    <3>1. rest \in Seq(Frame) /\ ppn \in Frame
      BY <2>2
    <3>2. Append(rest, ppn) \in Seq(Frame)
      BY <3>1, AppendQueue
    <3>3. Range(Append(rest, ppn)) = Range(rest) \cup {ppn}
      BY <3>1, AppendQueue
    <3>4. IsInjective(Append(rest, ppn))
      BY <2>2, <2>4, <3>1, AppendQueue
    <3> QED
      BY <3>2, <3>3, <3>4
  <2>6. Range(ppnQueue') = ppnInUse'
    BY <2>2, <2>3, <2>5
  <2> QED
    BY <2>3, <2>5, <2>6 DEF QueueHoldsFrames
<1> QED
  BY <1>1, <1>2

LEMMA EvictStep ==
    ASSUME IInv, NEW v \in Page, NEW ppn \in Frame, EvictFault(v, ppn)
    PROVE  IInv'
<1> DEFINE inverted == [ipt EXCEPT ![ppn] = NewEntry(v)]
           buffer == InvalidateTLB(ppn)
<1>1. /\ Hits(v) = {} /\ Resident(v) = {}
      /\ ppnInUse = Frame /\ ppn \in Victims
      /\ EvictClean(v, ppn) \/ EvictDirty(v, ppn)
      /\ ppnQueue' = IF useRandomPageEviction THEN ppnQueue ELSE Append(Tail(ppnQueue), ppn)
      /\ UpdateTLBFromIPT(inverted, buffer, ppn)
      /\ UNCHANGED <<running, numPages, ppnInUse, halted, useRandomPageEviction>>
  BY DEF EvictFault
<1>2. ipt[ppn].valid
  BY <1>1, VictimUsed
<1>3. /\ buffer \in TlbType /\ Agrees(buffer, inverted) /\ SlotsDiffer(buffer)
      /\ \A i \in Slot : buffer[i].valid => tlb[i].valid /\ buffer[i] = tlb[i]
  BY <1>2, InvalidateStep
<1>4. inverted \in IptType /\ currentTLBIndex \in Slot
  BY NewEntryType
<1>5. inverted[ppn].valid /\ inverted[ppn].processID = running /\ inverted[ppn].virtualPage = v
  BY DEF NewEntry, IInv, TypeOK
<1>6. \A i \in Slot : buffer[i].valid => buffer[i].virtualPage # v
  BY <1>1, <1>3, NoHit
<1> HIDE DEF buffer, inverted
<1>7. /\ ipt' \in IptType /\ tlb' \in TlbType /\ currentTLBIndex' \in Slot
      /\ SameOwners(inverted, ipt')
      /\ Agrees(tlb, ipt)' /\ SlotsDiffer(tlb)'
  BY <1>1, <1>3, <1>4, <1>5, <1>6, UpdateStep
<1>8. FramesDiffer' /\ FramesOwned'
  <2>1. ppnInUse' = ppnInUse \cup {ppn}
    BY <1>1
  <2> QED
    BY <1>1, <1>7, <2>1, OwnersStep DEF inverted
<1>9. ppnQueue' \in Seq(Frame) /\ QueueHoldsFrames'
  BY <1>1, RequeueStep
<1>10. /\ pageTable' \in [Process -> [Page ->
             [location : {"IN_EXECUTABLE", "IN_SWAP_FILE", "NEITHER"},
              swapPageIndex : -1..(MaxSwapPages - 1)]]]
       /\ pageMap' \subseteq 0..(MaxSwapPages - 1)
       /\ swap' \in [0..(MaxSwapPages - 1) -> Value]
       /\ mainMemory' \in [Frame -> Value]
       /\ SwapOwned'
  <2>1. CASE EvictClean(v, ppn)
    BY <2>1, EvictCleanStep DEF IInv, TypeOK
  <2>2. CASE EvictDirty(v, ppn)
    BY <1>1, <1>2, <2>2, EvictDirtyStep
  <2> QED
    BY <1>1, <2>1, <2>2
<1>11. TypeOK'
  BY <1>1, <1>7, <1>9, <1>10 DEF IInv, TypeOK, IptType, TlbType
<1> QED
  BY <1>7, <1>8, <1>9, <1>10, <1>11 DEF IInv

-----------------------------------------------------------------------------
(* The steps that empty the TLB *)

\* An empty TLB agrees with every table.
LEMMA EmptyTLBStep ==
    ASSUME tlb' = EmptyTLB
    PROVE  tlb' \in TlbType /\ Agrees(tlb, ipt)' /\ SlotsDiffer(tlb)'
BY Ranges DEF EmptyTLB, Invalid, TlbType, Agrees, SlotsDiffer

\* The dirty bits that Scheduler::Run keeps: a frame is in one slot at most.
LEMMA DirtyStep ==
    ASSUME IInv
    PROVE  DirtyFromTLB \in IptType /\ SameOwners(ipt, DirtyFromTLB)
<1> DEFINE slots(f) == {i \in Slot : tlb[i].valid /\ tlb[i].physicalPage = f}
           entry(f) == IF slots(f) = {} THEN ipt[f]
                       ELSE [ipt[f] EXCEPT !.dirty = tlb[Max(slots(f))].dirty]
<1>1. DirtyFromTLB = [f \in Frame |-> entry(f)]
  BY DEF DirtyFromTLB
<1>2. ASSUME NEW f \in Frame, slots(f) # {}
      PROVE  tlb[Max(slots(f))].dirty \in BOOLEAN
  <2>1. PICK i \in Slot : i \in slots(f)
    BY <1>2
  <2>2. \A j \in slots(f) : j = i
    BY <2>1 DEF IInv, Agrees, SlotsDiffer
  <2>3. slots(f) = {i}
    BY <2>1, <2>2
  <2>4. Max({i}) = i
    BY Ranges DEF Max
  <2> QED
    BY <2>3, <2>4 DEF IInv, TypeOK
<1>3. \A f \in Frame :
         /\ entry(f) \in [virtualPage : Page, valid : BOOLEAN, dirty : BOOLEAN,
                          processID : Process \cup {NoProcess}]
         /\ entry(f).valid = ipt[f].valid
         /\ entry(f).processID = ipt[f].processID
         /\ entry(f).virtualPage = ipt[f].virtualPage
  <2> SUFFICES ASSUME NEW f \in Frame
               PROVE  /\ entry(f) \in [virtualPage : Page, valid : BOOLEAN, dirty : BOOLEAN,
                                       processID : Process \cup {NoProcess}]
                      /\ entry(f).valid = ipt[f].valid
                      /\ entry(f).processID = ipt[f].processID
                      /\ entry(f).virtualPage = ipt[f].virtualPage
    OBVIOUS
  <2>1. ipt[f] \in [virtualPage : Page, valid : BOOLEAN, dirty : BOOLEAN,
                    processID : Process \cup {NoProcess}]
    BY DEF IInv, TypeOK
  <2> QED
    BY <1>2, <2>1
<1> QED
  BY <1>1, <1>3 DEF IptType, SameOwners

LEMMA SwitchStep ==
    ASSUME IInv, NEW p \in Process, SwitchTo(p)
    PROVE  IInv'
<1>1. /\ running' = p /\ ipt' = DirtyFromTLB /\ tlb' = EmptyTLB
      /\ UNCHANGED <<numPages, pageTable, mainMemory, currentTLBIndex, ppnInUse, ppnQueue,
                     pageMap, swap, halted, useRandomPageEviction>>
  BY DEF SwitchTo
<1>2. ipt' \in IptType /\ SameOwners(ipt, ipt')
  BY <1>1, DirtyStep
<1>3. tlb' \in TlbType /\ Agrees(tlb, ipt)' /\ SlotsDiffer(tlb)'
  BY <1>1, EmptyTLBStep
<1>4. TypeOK'
  BY <1>1, <1>2, <1>3 DEF IInv, TypeOK, IptType, TlbType
<1>5. FramesDiffer' /\ FramesOwned'
  BY <1>1, <1>2 DEF IInv, FramesDiffer, FramesOwned, SameOwners
<1>6. SwapOwned' /\ QueueHoldsFrames'
  BY <1>1 DEF IInv, SwapOwned, Index, QueueHoldsFrames
<1> QED
  BY <1>3, <1>4, <1>5, <1>6 DEF IInv

\* Fork_Syscall and Exec_Syscall.
LEMMA NewThreadStep ==
    ASSUME IInv, Fork \/ \E p \in Process : Exec(p)
    PROVE  IInv'
<1>1. /\ tlb' = EmptyTLB
      /\ UNCHANGED <<running, pageTable, mainMemory, ipt, currentTLBIndex, ppnInUse,
                     ppnQueue, pageMap, swap, halted, useRandomPageEviction>>
  BY DEF Fork, Exec
<1>2. numPages' \in [Process -> 0..MaxPages]
  <2>1. CASE Fork
    <3>1. numPages[running] \in 0..MaxPages /\ numPages[running] < MaxPages
      BY <2>1 DEF Fork, IInv, TypeOK
    <3>2. numPages[running] + 1 \in 0..MaxPages
      BY <3>1
    <3> QED
      BY <2>1, <3>2 DEF Fork, IInv, TypeOK
  <2>2. CASE \E p \in Process : Exec(p)
    <3>1. DataPages \in 0..MaxPages
      OBVIOUS
    <3> QED
      BY <2>2, <3>1 DEF Exec, IInv, TypeOK
  <2> QED
    BY <2>1, <2>2
<1>3. tlb' \in TlbType /\ Agrees(tlb, ipt)' /\ SlotsDiffer(tlb)'
  BY <1>1, EmptyTLBStep
<1>4. TypeOK'
  BY <1>1, <1>2, <1>3 DEF IInv, TypeOK, TlbType
<1>5. FramesDiffer' /\ FramesOwned' /\ SwapOwned' /\ QueueHoldsFrames'
  BY <1>1 DEF IInv, FramesDiffer, FramesOwned, SwapOwned, Index, QueueHoldsFrames
<1> QED
  BY <1>3, <1>4, <1>5 DEF IInv

\* A step that leaves all but halted unchanged, or everything.
LEMMA SameIInv ==
    ASSUME IInv, halted' \in BOOLEAN,
           UNCHANGED <<running, numPages, pageTable, mainMemory, ipt, tlb, currentTLBIndex,
                       ppnInUse, ppnQueue, pageMap, swap, useRandomPageEviction>>
    PROVE  IInv'
<1>1. TypeOK'
  BY DEF IInv, TypeOK
<1>2. Agrees(tlb, ipt)' /\ SlotsDiffer(tlb)'
  BY DEF IInv, Agrees, SlotsDiffer
<1>3. FramesDiffer' /\ FramesOwned' /\ SwapOwned' /\ QueueHoldsFrames'
  BY DEF IInv, FramesDiffer, FramesOwned, SwapOwned, Index, QueueHoldsFrames
<1> QED
  BY <1>1, <1>2, <1>3 DEF IInv

-----------------------------------------------------------------------------
(* The theorems *)

LEMMA NextIInv == IInv /\ [Next]_vars => IInv'
<1> SUFFICES ASSUME IInv, [Next]_vars PROVE IInv'
  OBVIOUS
<1>1. ASSUME NEW v \in Page, HandlePageFault(v) PROVE IInv'
  <2>1. CASE SoftFault(v)
    BY <2>1, SoftFaultStep
  <2>2. CASE FreeFrameFault(v)
    BY <2>2, FreeFrameStep
  <2>3. ASSUME NEW ppn \in Frame, EvictFault(v, ppn) PROVE IInv'
    BY <2>3, EvictStep
  <2>4. ASSUME NEW ppn \in Frame, SwapFull(v, ppn) PROVE IInv'
    BY <2>4, SameIInv DEF SwapFull
  <2> QED
    BY <1>1, <2>1, <2>2, <2>3, <2>4 DEF HandlePageFault
<1>2. ASSUME NEW v \in Page, NEW x \in Stored, Write(v, x) PROVE IInv'
  BY <1>2, WriteStep
<1>3. ASSUME NEW p \in Process, SwitchTo(p) PROVE IInv'
  BY <1>3, SwitchStep
<1>4. CASE Fork \/ \E p \in Process : Exec(p)
  BY <1>4, NewThreadStep
<1>5. CASE UNCHANGED vars
  <2>1. halted' \in BOOLEAN
    BY <1>5 DEF vars, IInv, TypeOK
  <2> QED
    BY <1>5, <2>1, SameIInv DEF vars
<1> QED
  BY <1>1, <1>2, <1>3, <1>4, <1>5 DEF Next

\* The inductive invariant holds: HandlePageFault, Scheduler::Run, Fork_Syscall
\* and Exec_Syscall keep the tables consistent.
THEOREM Invariance == Spec => []IInv
BY InitIInv, NextIInv, PTL DEF Spec

\* The TLB never translates to a frame that holds another page, or a page of
\* another process (evictAPage, updateTLBFromIPT, Scheduler::Run, Fork_Syscall
\* and Exec_Syscall).
THEOREM TLBIsRight == Spec => []TLBAgrees
<1>1. IInv => TLBAgrees
  BY DEF IInv, Agrees, TLBAgrees
<1> QED
  BY <1>1, Invariance, PTL

\* At most one slot of the TLB is valid for a page.
LEMMA OneHit ==
    ASSUME IInv, NEW v \in Page
    PROVE  Cardinality(Hits(v)) <= 1
<1>1. \A i, j \in Hits(v) : i = j
  BY DEF IInv, SlotsDiffer, Hits
<1>2. CASE Hits(v) = {}
  BY <1>2, FS_EmptySet
<1>3. CASE Hits(v) # {}
  <2>1. PICK i \in Hits(v) : Hits(v) = {i}
    BY <1>1, <1>3
  <2>2. Cardinality({i}) = 1
    BY FS_Singleton
  <2> QED
    BY <2>1, <2>2
<1> QED
  BY <1>2, <1>3

LEMMA SwapPagesOwned ==
    ASSUME IInv
    PROVE  OwnSwapPage
<1> DEFINE swapped == {pv \in Process \X Page : pageTable[pv[1]][pv[2]].swapPageIndex >= 0}
           index(pv) == pageTable[pv[1]][pv[2]].swapPageIndex
<1>1. \A a, b \in swapped : index(a) = index(b) => a = b
  BY DEF IInv, SwapOwned, Index
<1>2. \A a \in swapped : index(a) \in pageMap
  BY DEF IInv, SwapOwned, Index
<1>3. ASSUME NEW s \in pageMap PROVE \E a \in swapped : index(a) = s
  <2>1. PICK p \in Process, v \in Page : Index(p, v) = s
    BY DEF IInv, SwapOwned
  <2>2. s >= 0
    BY DEF IInv, TypeOK
  <2>3. <<p, v>> \in swapped /\ index(<<p, v>>) = s
    BY <2>1, <2>2 DEF Index
  <2> QED
    BY <2>3
<1>4. {index(a) : a \in swapped} = pageMap
  BY <1>2, <1>3
<1> QED
  BY <1>1, <1>4 DEF OwnSwapPage

\* The bit maps, the queue of frames, the inverted page table and the page
\* tables agree on who owns a frame and a page of the swap file (findIPTIndex,
\* loadPageIntoIPT, evictAPage, GetSwapPageIndex).
THEOREM FramesAreSound == Spec => []FramesSound
<1>1. IInv => FramesSound
  <2> SUFFICES ASSUME IInv PROVE FramesSound
    OBVIOUS
  <2>1. OneFrame
    BY OneHit DEF IInv, FramesDiffer, OneFrame
  <2> QED
    BY <2>1, SwapPagesOwned DEF FramesSound, IInv
<1> QED
  BY <1>1, Invariance, PTL

-----------------------------------------------------------------------------
(* The memory that user programs see *)

\* Frame f holds page v of process p.
Holds(inverted, f, p, v) ==
    inverted[f].valid /\ inverted[f].virtualPage = v /\ inverted[f].processID = p

LEMMA MinOfOne == \A f \in Frame : Min({f}) = f
BY Ranges DEF Min

\* A page is in the frame that holds it, or where its page table entry says.
LEMMA ContentsNow ==
    ASSUME IInv, NEW p \in Process, NEW v \in Page
    PROVE  /\ \A f \in Frame : Holds(ipt, f, p, v) => Contents(p, v) = mainMemory[f]
           /\ (\A f \in Frame : ~Holds(ipt, f, p, v)) => Contents(p, v) = Loaded(pageTable[p][v], swap)
<1> DEFINE frames == {f \in Frame : ipt[f].valid /\ ipt[f].virtualPage = v
                                                   /\ ipt[f].processID = p}
<1>1. Contents(p, v) = IF frames # {} THEN mainMemory[Min(frames)] ELSE Loaded(pageTable[p][v], swap)
  BY DEF Contents
<1>2. ASSUME NEW f \in Frame, Holds(ipt, f, p, v)
      PROVE  frames = {f}
  BY <1>2 DEF Holds, IInv, FramesDiffer
<1>3. ASSUME \A f \in Frame : ~Holds(ipt, f, p, v)
      PROVE  frames = {}
  BY <1>3 DEF Holds
<1> HIDE DEF frames
<1> QED
  BY <1>1, <1>2, <1>3, MinOfOne

\* The same after a step.
LEMMA ContentsNext ==
    ASSUME IInv', NEW p \in Process, NEW v \in Page
    PROVE  /\ \A f \in Frame : Holds(ipt', f, p, v) => Contents(p, v)' = mainMemory'[f]
           /\ (\A f \in Frame : ~Holds(ipt', f, p, v)) => Contents(p, v)' = Loaded(pageTable'[p][v], swap')
<1> DEFINE frames == {f \in Frame : ipt'[f].valid /\ ipt'[f].virtualPage = v
                                                   /\ ipt'[f].processID = p}
<1>1. Contents(p, v)' = IF frames # {} THEN mainMemory'[Min(frames)] ELSE Loaded(pageTable'[p][v], swap')
  BY DEF Contents
<1>2. ASSUME NEW f \in Frame, Holds(ipt', f, p, v)
      PROVE  frames = {f}
  BY <1>2 DEF Holds, IInv, FramesDiffer
<1>3. ASSUME \A f \in Frame : ~Holds(ipt', f, p, v)
      PROVE  frames = {}
  BY <1>3 DEF Holds
<1> HIDE DEF frames
<1> QED
  BY <1>1, <1>2, <1>3, MinOfOne

Unmoved == \A p \in Process, v \in Page : Contents(p, v)' = Contents(p, v)

\* A step that changes no contents is a step of module Memory.
LEMMA UnmovedStep ==
    ASSUME Unmoved, running' \in Process
    PROVE  M!Next
<1>1. M!SwitchTo(running')
  BY DEF Unmoved, M!SwitchTo
<1> QED
  BY <1>1 DEF M!Next

\* What a step does that moves no page.
LEMMA SameOwnersUnmoved ==
    ASSUME IInv, IInv', SameOwners(ipt, ipt'), UNCHANGED <<pageTable, mainMemory, swap>>
    PROVE  Unmoved
<1> SUFFICES ASSUME NEW p \in Process, NEW v \in Page
             PROVE  Contents(p, v)' = Contents(p, v)
  BY DEF Unmoved
<1>1. \A f \in Frame : Holds(ipt', f, p, v) <=> Holds(ipt, f, p, v)
  BY DEF SameOwners, Holds
<1>2. CASE \E f \in Frame : Holds(ipt, f, p, v)
  BY <1>1, <1>2, ContentsNow, ContentsNext
<1>3. CASE \A f \in Frame : ~Holds(ipt, f, p, v)
  BY <1>1, <1>3, ContentsNow, ContentsNext
<1> QED
  BY <1>2, <1>3

LEMMA WriteMemory ==
    ASSUME IInv, IInv', NEW v \in Page, NEW x \in Stored, Write(v, x)
    PROVE  M!Next
<1> DEFINE i == Min(Hits(v))
           f == tlb[i].physicalPage
<1>1. i \in Slot /\ tlb[i].valid /\ tlb[i].virtualPage = v
  BY HitIsSlot DEF Write, Hits
<1>2. /\ mainMemory' = [mainMemory EXCEPT ![f] = x]
      /\ UNCHANGED <<running, pageTable, ipt, swap>>
  BY DEF Write
<1>3. f \in Frame /\ Holds(ipt, f, running, v)
  BY <1>1 DEF IInv, Agrees, TypeOK, Holds
<1> HIDE DEF i, f
<1>4. running \in Process
  BY DEF IInv, TypeOK
<1>5. mainMemory'[f] = x /\ \A g \in Frame : g # f => mainMemory'[g] = mainMemory[g]
  BY <1>2, <1>3 DEF IInv, TypeOK
<1>6. Contents(running, v)' = x
  <2>1. Contents(running, v)' = mainMemory'[f]
    <3>1. Holds(ipt', f, running, v)
      BY <1>2, <1>3
    <3>2. \A p \in Process : Holds(ipt', f, p, v) => Contents(p, v)' = mainMemory'[f]
      BY <1>3, ContentsNext
    <3> QED
      BY <1>2, <1>4, <3>1, <3>2
  <2> QED
    BY <1>5, <2>1
<1>7. ASSUME NEW p \in Process, NEW w \in Page, ~(p = running /\ w = v)
      PROVE  Contents(p, w)' = Contents(p, w)
  <2>1. \A g \in Frame : Holds(ipt, g, p, w) => g # f
    BY <1>3, <1>7 DEF Holds
  <2>2. CASE \E g \in Frame : Holds(ipt, g, p, w)
    BY <1>2, <1>5, <2>1, <2>2, ContentsNow, ContentsNext
  <2>3. CASE \A g \in Frame : ~Holds(ipt, g, p, w)
    BY <1>2, <2>3, ContentsNow, ContentsNext
  <2> QED
    BY <2>2, <2>3
<1>8. M!Write(v, x)
  BY <1>2, <1>4, <1>6, <1>7 DEF M!Write
<1> QED
  BY <1>8 DEF M!Next

\* After frame ppn got page v of the running process, it holds that page, and
\* the other frames hold what they held.
LEMMA NewHolders ==
    ASSUME IInv, NEW v \in Page, NEW ppn \in Frame, UNCHANGED running,
           SameOwners([ipt EXCEPT ![ppn] = NewEntry(v)], ipt')
    PROVE  \A f \in Frame, p \in Process, w \in Page :
              Holds(ipt', f, p, w) <=> IF f = ppn THEN p = running /\ w = v
                                       ELSE Holds(ipt, f, p, w)
<1>1. \A f \in Frame :
         /\ f # ppn => /\ ipt'[f].valid = ipt[f].valid
                       /\ ipt'[f].processID = ipt[f].processID
                       /\ ipt'[f].virtualPage = ipt[f].virtualPage
         /\ f = ppn => /\ ipt'[f].valid
                       /\ ipt'[f].processID = running
                       /\ ipt'[f].virtualPage = v
  BY DEF SameOwners, NewEntry, IInv, TypeOK
<1> QED
  BY <1>1 DEF Holds

\* updateTLBFromIPT leaves the owners alone, whatever the TLB held.
LEMMA UpdateOwners ==
    ASSUME NEW inverted \in IptType, NEW buffer \in TlbType, NEW ppn \in Frame,
           currentTLBIndex \in Slot, UpdateTLBFromIPT(inverted, buffer, ppn)
    PROVE  SameOwners(inverted, ipt')
<1> DEFINE old == buffer[currentTLBIndex]
<1>1. old.physicalPage \in Frame
  BY DEF TlbType
<1>2. ipt' = IF old.valid THEN [inverted EXCEPT ![old.physicalPage].dirty = old.dirty]
             ELSE inverted
  BY DEF UpdateTLBFromIPT
<1> QED
  BY <1>1, <1>2 DEF IptType, SameOwners

LEMMA FreeFrameUnmoved ==
    ASSUME IInv, IInv', NEW v \in Page, FreeFrameFault(v)
    PROVE  Unmoved
<1> DEFINE ppn == Min(Frame \ ppnInUse)
           inverted == [ipt EXCEPT ![ppn] = NewEntry(v)]
<1>1. ppn \in Frame /\ ppn \notin ppnInUse
  BY FreeFrame DEF FreeFrameFault, IInv, TypeOK
<1>2. /\ mainMemory' = [mainMemory EXCEPT ![ppn] = Loaded(pageTable[running][v], swap)]
      /\ UpdateTLBFromIPT(inverted, tlb, ppn)
      /\ UNCHANGED <<running, pageTable, swap>>
      /\ Resident(v) = {}
  BY DEF FreeFrameFault
<1> HIDE DEF ppn
<1>3. inverted \in IptType /\ tlb \in TlbType /\ currentTLBIndex \in Slot
  BY <1>1, NewEntryType
<1> HIDE DEF inverted
<1>4. SameOwners(inverted, ipt')
  BY <1>1, <1>2, <1>3, UpdateOwners
<1>5. \A f \in Frame, p \in Process, w \in Page :
         Holds(ipt', f, p, w) <=> IF f = ppn THEN p = running /\ w = v
                                  ELSE Holds(ipt, f, p, w)
  BY <1>1, <1>2, <1>4, NewHolders DEF inverted
<1>6. /\ \A p \in Process, w \in Page : ~Holds(ipt, ppn, p, w)
      /\ \A f \in Frame : ~Holds(ipt, f, running, v)
  BY <1>1, <1>2 DEF IInv, FramesOwned, Holds, Resident
<1>7. \A f \in Frame : mainMemory'[f] = IF f = ppn THEN Loaded(pageTable[running][v], swap)
                                        ELSE mainMemory[f]
  BY <1>1, <1>2 DEF IInv, TypeOK
<1> SUFFICES ASSUME NEW p \in Process, NEW w \in Page
             PROVE  Contents(p, w)' = Contents(p, w)
  BY DEF Unmoved
<1>8. CASE p = running /\ w = v
  <2>1. Contents(p, w) = Loaded(pageTable[p][w], swap)
    BY <1>6, <1>8, ContentsNow
  <2>2. Contents(p, w)' = mainMemory'[ppn]
    BY <1>1, <1>5, <1>8, ContentsNext
  <2> QED
    BY <1>1, <1>7, <1>8, <2>1, <2>2
<1>9. CASE ~(p = running /\ w = v)
  <2>1. CASE \E f \in Frame : Holds(ipt, f, p, w)
    <3>1. PICK f \in Frame : Holds(ipt, f, p, w)
      BY <2>1
    <3>2. f # ppn
      BY <1>6, <3>1
    <3>3. Contents(p, w) = mainMemory[f] /\ Contents(p, w)' = mainMemory'[f]
      BY <1>5, <3>1, <3>2, ContentsNow, ContentsNext
    <3> QED
      BY <1>7, <3>2, <3>3
  <2>2. CASE \A f \in Frame : ~Holds(ipt, f, p, w)
    <3>1. \A f \in Frame : ~Holds(ipt', f, p, w)
      BY <1>5, <1>9, <2>2
    <3> QED
      BY <1>2, <2>2, <3>1, ContentsNow, ContentsNext
  <2> QED
    BY <2>1, <2>2
<1> QED
  BY <1>8, <1>9

\* Eviction: the page of the victim is in its page table's place afterwards,
\* the page that was missing is in the frame, and the others have not moved.
LEMMA EvictHolders ==
    ASSUME IInv, IInv', NEW v \in Page, NEW ppn \in Frame, EvictFault(v, ppn)
    PROVE  /\ running \in Process
           /\ \A q \in Process, u \in Page :
                LET victim == q = ipt[ppn].processID /\ u = ipt[ppn].virtualPage
                    missing == q = running /\ u = v
                IN  /\ ~(victim /\ missing)
                    /\ victim => /\ Contents(q, u) = mainMemory[ppn]
                                 /\ Contents(q, u)' = Loaded(pageTable'[q][u], swap')
                    /\ missing => /\ Contents(q, u) = Loaded(pageTable[q][u], swap)
                                  /\ Contents(q, u)' = mainMemory'[ppn]
                    /\ ~victim /\ ~missing =>
                          \/ \E f \in Frame \ {ppn} : /\ Contents(q, u) = mainMemory[f]
                                                      /\ Contents(q, u)' = mainMemory'[f]
                          \/ /\ Contents(q, u) = Loaded(pageTable[q][u], swap)
                             /\ Contents(q, u)' = Loaded(pageTable'[q][u], swap')
<1> DEFINE p == ipt[ppn].processID
           w == ipt[ppn].virtualPage
           inverted == [ipt EXCEPT ![ppn] = NewEntry(v)]
           buffer == InvalidateTLB(ppn)
<1>1. /\ UpdateTLBFromIPT(inverted, buffer, ppn)
      /\ UNCHANGED running
      /\ Resident(v) = {} /\ ppnInUse = Frame /\ ppn \in Victims
  BY DEF EvictFault
<1>2. ipt[ppn].valid
  BY <1>1, VictimUsed
<1>3. p \in Process /\ w \in Page /\ running \in Process
  BY <1>2 DEF IInv, TypeOK, FramesOwned
<1>4. Holds(ipt, ppn, p, w)
  BY <1>2 DEF Holds
<1>5. \A f \in Frame : ~Holds(ipt, f, running, v)
  BY <1>1 DEF Resident, Holds
<1>6. ~(p = running /\ w = v)
  BY <1>4, <1>5
<1>7. buffer \in TlbType /\ inverted \in IptType /\ currentTLBIndex \in Slot
  BY <1>2, InvalidateStep, NewEntryType
<1> HIDE DEF p, w, inverted, buffer
<1>8. SameOwners(inverted, ipt')
  BY <1>1, <1>7, UpdateOwners
<1>9. \A f \in Frame, q \in Process, u \in Page :
         Holds(ipt', f, q, u) <=> IF f = ppn THEN q = running /\ u = v
                                  ELSE Holds(ipt, f, q, u)
  BY <1>1, <1>8, NewHolders DEF inverted
<1>10. \A q \in Process, u \in Page : Holds(ipt, ppn, q, u) => q = p /\ u = w
  BY DEF Holds, p, w
<1>11. \A f \in Frame : Holds(ipt, f, p, w) => f = ppn
  BY <1>4 DEF Holds, IInv, FramesDiffer
<1>12. ASSUME NEW q \in Process, NEW u \in Page, q = p /\ u = w
       PROVE  /\ Contents(q, u) = mainMemory[ppn]
              /\ Contents(q, u)' = Loaded(pageTable'[q][u], swap')
  <2>1. Holds(ipt, ppn, q, u)
    BY <1>4, <1>12
  <2>2. \A f \in Frame : ~Holds(ipt', f, q, u)
    BY <1>6, <1>9, <1>11, <1>12
  <2> QED
    BY <2>1, <2>2, ContentsNow, ContentsNext
<1>13. ASSUME NEW q \in Process, NEW u \in Page, q = running /\ u = v
       PROVE  /\ Contents(q, u) = Loaded(pageTable[q][u], swap)
              /\ Contents(q, u)' = mainMemory'[ppn]
  <2>1. \A f \in Frame : ~Holds(ipt, f, q, u)
    BY <1>5, <1>13
  <2>2. Holds(ipt', ppn, q, u)
    BY <1>9, <1>13
  <2> QED
    BY <2>1, <2>2, ContentsNow, ContentsNext
<1>14. ASSUME NEW q \in Process, NEW u \in Page,
              ~(q = p /\ u = w), ~(q = running /\ u = v)
       PROVE  \/ \E f \in Frame \ {ppn} : /\ Contents(q, u) = mainMemory[f]
                                          /\ Contents(q, u)' = mainMemory'[f]
              \/ /\ Contents(q, u) = Loaded(pageTable[q][u], swap)
                 /\ Contents(q, u)' = Loaded(pageTable'[q][u], swap')
  <2>1. CASE \E f \in Frame : Holds(ipt, f, q, u)
    <3>1. PICK f \in Frame : Holds(ipt, f, q, u)
      BY <2>1
    <3>2. f # ppn
      BY <1>10, <1>14, <3>1
    <3>3. Contents(q, u) = mainMemory[f] /\ Contents(q, u)' = mainMemory'[f]
      BY <1>9, <3>1, <3>2, ContentsNow, ContentsNext
    <3> QED
      BY <3>2, <3>3
  <2>2. CASE \A f \in Frame : ~Holds(ipt, f, q, u)
    <3>1. \A f \in Frame : ~Holds(ipt', f, q, u)
      BY <1>9, <1>14, <2>2
    <3> QED
      BY <2>2, <3>1, ContentsNow, ContentsNext
  <2> QED
    BY <2>1, <2>2
<1> QED
  BY <1>3, <1>6, <1>12, <1>13, <1>14 DEF p, w

\* A clean victim goes back to what is stored of it; nothing else changes.
LEMMA EvictCleanReverts ==
    ASSUME IInv, IInv', NEW v \in Page, NEW ppn \in Frame, EvictFault(v, ppn),
           EvictClean(v, ppn)
    PROVE  VictimReverts(ppn)
<1>1. /\ ~ipt[ppn].dirty
      /\ mainMemory' = [mainMemory EXCEPT ![ppn] = Loaded(pageTable[running][v], swap)]
      /\ UNCHANGED <<running, pageTable, swap>>
      /\ ppnInUse = Frame /\ ppn \in Victims
  BY DEF EvictFault, EvictClean
<1>2. ipt[ppn].valid
  BY <1>1, VictimUsed
<1>3. \A f \in Frame : mainMemory'[f] = IF f = ppn THEN Loaded(pageTable[running][v], swap)
                                        ELSE mainMemory[f]
  BY <1>1 DEF IInv, TypeOK
<1>4. ASSUME NEW p \in Process, NEW w \in Page
      PROVE  Contents(p, w)' = IF p = ipt[ppn].processID /\ w = ipt[ppn].virtualPage
                               THEN Loaded(pageTable[p][w], swap) ELSE Contents(p, w)
  BY <1>1, <1>3, EvictHolders
<1> QED
  BY <1>1, <1>2, <1>4 DEF VictimReverts

\* A dirty victim is stored, in a page of the swap file that no other page
\* refers to.
LEMMA EvictDirtyUnmoved ==
    ASSUME IInv, IInv', NEW v \in Page, NEW ppn \in Frame, EvictFault(v, ppn),
           EvictDirty(v, ppn)
    PROVE  Unmoved
<1> DEFINE p == ipt[ppn].processID
           w == ipt[ppn].virtualPage
           free == (0..(MaxSwapPages - 1)) \ pageMap
           s == IF pageTable[p][w].swapPageIndex < 0 THEN Min(free)
                ELSE pageTable[p][w].swapPageIndex
           stored == [location |-> "IN_SWAP_FILE", swapPageIndex |-> s]
<1>1. /\ pageTable[p][w].swapPageIndex < 0 => free # {}
      /\ swap' = [swap EXCEPT ![s] = mainMemory[ppn]]
      /\ pageTable' = [pageTable EXCEPT ![p][w] = stored]
      /\ mainMemory' = [mainMemory EXCEPT ![ppn] = Loaded(pageTable'[running][v], swap')]
      /\ UNCHANGED running
      /\ ppnInUse = Frame /\ ppn \in Victims
  BY DEF EvictFault, EvictDirty
<1>2. p \in Process /\ w \in Page
  BY <1>1, VictimUsed DEF IInv, TypeOK, FramesOwned
<1>3. /\ s \in 0..(MaxSwapPages - 1)
      /\ \/ Index(p, w) < 0 /\ s \notin pageMap
         \/ Index(p, w) = s
  BY <1>1, <1>2, SwapSlot
<1> HIDE DEF s
<1>4. \A q \in Process, u \in Page :
         pageTable'[q][u] = IF q = p /\ u = w THEN stored ELSE pageTable[q][u]
  BY <1>1, <1>2 DEF IInv, TypeOK
<1>5. \A f \in Frame : mainMemory'[f] = IF f = ppn THEN Loaded(pageTable'[running][v], swap')
                                        ELSE mainMemory[f]
  BY <1>1 DEF IInv, TypeOK
<1>6. /\ swap'[s] = mainMemory[ppn]
      /\ \A m \in 0..(MaxSwapPages - 1) : m # s => swap'[m] = swap[m]
  BY <1>1, <1>3 DEF IInv, TypeOK
\* The page of the victim is where its page table says now.
<1>7. ASSUME NEW q \in Process, NEW u \in Page, q = p /\ u = w
      PROVE  Loaded(pageTable'[q][u], swap') = mainMemory[ppn]
  BY <1>4, <1>6, <1>7 DEF Loaded
\* The page of another process or another page is where it was.
<1>8. ASSUME NEW q \in Process, NEW u \in Page, ~(q = p /\ u = w)
      PROVE  Loaded(pageTable'[q][u], swap') = Loaded(pageTable[q][u], swap)
  <2>1. pageTable'[q][u] = pageTable[q][u]
    BY <1>4, <1>8
  <2>2. /\ pageTable[q][u].location \in {"IN_EXECUTABLE", "IN_SWAP_FILE", "NEITHER"}
        /\ pageTable[q][u].swapPageIndex \in -1..(MaxSwapPages - 1)
    BY EntryType
  <2>3. CASE pageTable[q][u].location = "IN_SWAP_FILE"
    <3>1. Index(q, u) >= 0 /\ Index(q, u) \in pageMap
      BY <2>3 DEF IInv, SwapOwned
    <3>2. Index(q, u) # s
      BY <1>2, <1>3, <1>8, <3>1 DEF IInv, SwapOwned
    <3>3. swap'[pageTable[q][u].swapPageIndex] = swap[pageTable[q][u].swapPageIndex]
      BY <1>6, <2>2, <3>1, <3>2 DEF Index
    <3> QED
      BY <2>1, <2>3, <3>3 DEF Loaded
  <2>4. CASE pageTable[q][u].location # "IN_SWAP_FILE"
    BY <2>1, <2>2, <2>4 DEF Loaded
  <2> QED
    BY <2>3, <2>4
<1> SUFFICES ASSUME NEW q \in Process, NEW u \in Page
             PROVE  Contents(q, u)' = Contents(q, u)
  BY DEF Unmoved
<1>9. CASE q = p /\ u = w
  BY <1>7, <1>9, EvictHolders
<1>10. CASE q = running /\ u = v
  <2>1. ~(q = p /\ u = w)
    BY <1>10, EvictHolders
  <2>2. /\ Contents(q, u) = Loaded(pageTable[q][u], swap)
        /\ Contents(q, u)' = mainMemory'[ppn]
    BY <1>10, EvictHolders
  <2>3. mainMemory'[ppn] = Loaded(pageTable'[q][u], swap')
    BY <1>5, <1>10
  <2> QED
    BY <1>8, <2>1, <2>2, <2>3
<1>11. CASE ~(q = p /\ u = w) /\ ~(q = running /\ u = v)
  <2>1. \/ \E f \in Frame \ {ppn} : /\ Contents(q, u) = mainMemory[f]
                                    /\ Contents(q, u)' = mainMemory'[f]
        \/ /\ Contents(q, u) = Loaded(pageTable[q][u], swap)
           /\ Contents(q, u)' = Loaded(pageTable'[q][u], swap')
    BY <1>11, EvictHolders
  <2> QED
    BY <1>5, <1>8, <1>11, <2>1
<1> QED
  BY <1>9, <1>10, <1>11

\* The memory that user programs see starts as the loader promises, and every
\* step is a step of module Memory or loses what evictAPage does not store of
\* one victim (HandlePageFault, the swap file, Scheduler::Run, Fork_Syscall,
\* Exec_Syscall).
THEOREM MemoryIsKept == Spec => MemoryUnlessUnstored
<1>1. Init => M!Init
  <2> SUFFICES ASSUME Init PROVE M!Init
    OBVIOUS
  <2>1. IInv
    BY InitIInv
  <2>2. ASSUME NEW p \in Process, NEW v \in Page
        PROVE  Contents(p, v) = IF v < CodePages THEN Code ELSE Zero
    <3>1. \A f \in Frame : ~Holds(ipt, f, p, v)
      BY DEF Init, Holds
    <3>2. pageTable[p][v] = NewPage(v)
      BY DEF Init
    <3> QED
      BY <2>1, <3>1, <3>2, ContentsNow DEF Loaded, NewPage
  <2> QED
    BY <2>2 DEF M!Init, Init
<1>2. IInv /\ IInv' /\ [Next]_vars
         => [M!Next \/ \E f \in Frame : VictimReverts(f)]_vars
  <2> SUFFICES ASSUME IInv, IInv', Next
               PROVE  M!Next \/ \E f \in Frame : VictimReverts(f)
    OBVIOUS
  <2>1. running' \in Process
    BY DEF IInv, TypeOK
  <2>2. ASSUME NEW v \in Page, HandlePageFault(v)
        PROVE  M!Next \/ \E f \in Frame : VictimReverts(f)
    <3>1. CASE SoftFault(v)
      <4>1. /\ UpdateTLBFromIPT(ipt, tlb, Min(Resident(v)))
            /\ Min(Resident(v)) \in Frame
            /\ UNCHANGED <<pageTable, mainMemory, swap>>
        BY <3>1, ResidentIsFrame DEF SoftFault, Resident
      <4>2. ipt \in IptType /\ tlb \in TlbType /\ currentTLBIndex \in Slot
        BY DEF IInv, TypeOK, IptType, TlbType
      <4>3. SameOwners(ipt, ipt')
        BY <4>1, <4>2, UpdateOwners
      <4> QED
        BY <2>1, <4>1, <4>3, SameOwnersUnmoved, UnmovedStep
    <3>2. CASE FreeFrameFault(v)
      BY <2>1, <3>2, FreeFrameUnmoved, UnmovedStep
    <3>3. ASSUME NEW ppn \in Frame, EvictFault(v, ppn)
          PROVE  M!Next \/ \E f \in Frame : VictimReverts(f)
      <4>1. CASE EvictClean(v, ppn)
        BY <3>3, <4>1, EvictCleanReverts
      <4>2. CASE EvictDirty(v, ppn)
        BY <2>1, <3>3, <4>2, EvictDirtyUnmoved, UnmovedStep
      <4> QED
        BY <3>3, <4>1, <4>2 DEF EvictFault
    <3>4. ASSUME NEW ppn \in Frame, SwapFull(v, ppn)
          PROVE  M!Next
      <4>1. SameOwners(ipt, ipt') /\ UNCHANGED <<pageTable, mainMemory, swap>>
        BY <3>4 DEF SwapFull, SameOwners
      <4> QED
        BY <2>1, <4>1, SameOwnersUnmoved, UnmovedStep
    <3> QED
      BY <2>2, <3>1, <3>2, <3>3, <3>4 DEF HandlePageFault
  <2>3. ASSUME NEW v \in Page, NEW x \in Stored, Write(v, x)
        PROVE  M!Next
    BY <2>3, WriteMemory
  <2>4. ASSUME NEW p \in Process, SwitchTo(p)
        PROVE  M!Next
    <3>1. SameOwners(ipt, ipt') /\ UNCHANGED <<pageTable, mainMemory, swap>>
      BY <2>4, DirtyStep DEF SwitchTo
    <3> QED
      BY <2>1, <3>1, SameOwnersUnmoved, UnmovedStep
  <2>5. CASE Fork \/ \E p \in Process : Exec(p)
    <3>1. SameOwners(ipt, ipt') /\ UNCHANGED <<pageTable, mainMemory, swap>>
      BY <2>5 DEF Fork, Exec, SameOwners
    <3> QED
      BY <2>1, <3>1, SameOwnersUnmoved, UnmovedStep
  <2> QED
    BY <2>2, <2>3, <2>4, <2>5 DEF Next
<1> QED
  BY <1>1, <1>2, Invariance, PTL DEF Spec, MemoryUnlessUnstored

-----------------------------------------------------------------------------
(* The tables of locks and condition variables: their inductive invariant *)

HIDE MemoryAssumption
USE SynchManagerAssumption

\* Where a call of Wait has found its entries.
InWait == {"enterWait", "wait", "asleep", "awake", "waited"}

\* The place of a thread fits its call, and the call its arguments.
CallFits(t) ==
    /\ pc[t] = "user" <=> call[t].op = "none"
    /\ pc[t] \in {"acquire", "claim"} => call[t].op = "Acquire"
    /\ pc[t] = "unclaim" => call[t].op = "Release"
    /\ pc[t] \in InWait => call[t].op = "Wait"
    /\ call[t].op \in {"DestroyLock", "Acquire", "Release"} \cup PairOps => call[t].lock \in LockIndex
    /\ call[t].op \in {"DestroyCondition"} \cup PairOps => call[t].cv \in CVIndex

\* Who waits in a queue is where it says, once; the owner does not wait.
LockQueue(i) ==
    LET l == lockEntries[i] IN
    /\ IsInjective(l.queue)
    /\ l.owner \notin Range(l.queue)
    /\ l.owner = NULL => l.queue = <<>>
    /\ \A w \in Range(l.queue) : pc[w] \in {"acquire", "awake"} /\ call[w].lock = i

CVQueue(c) ==
    LET e == cvEntries[c] IN
    /\ IsInjective(e.waiters)
    /\ \A w \in Range(e.waiters) : pc[w] = "asleep" /\ call[w].cv = c

\* What a thread holds and uses is in the tables.
InTables(t) ==
    /\ \A i \in held[t] : lockEntries[i].bit /\ lockEntries[i].owner = t
    /\ pc[t] \in {"acquire", "claim"} => lockEntries[call[t].lock].bit
    /\ pc[t] = "claim" => lockEntries[call[t].lock].owner = t
    /\ pc[t] \in InWait => lockEntries[call[t].lock].bit /\ cvEntries[call[t].cv].bit
    /\ pc[t] = "asleep" => t \in Range(cvEntries[call[t].cv].waiters)
    /\ call[t].op = "Wait" /\ pc[t] \in {"first", "second", "body", "enterWait", "wait"} =>
         call[t].lock \in held[t]
    /\ pc[t] = "unclaim" => call[t].lock \notin held[t]

\* The marks of an entry that one thread uses.
LockMarked(i) ==
    \A u \in Thread :
        /\ pc[u] \in {"acquire", "claim"} /\ call[u].lock = i => lockEntries[i].toBeUsed
        /\ i \in held[u] => lockEntries[i].claimed
        /\ pc[u] \in InWait /\ call[u].lock = i => lockEntries[i].claimed

CVMarked(c) ==
    \A u \in Thread : pc[u] \in InWait /\ call[u].cv = c => cvEntries[c].toBeUsed

AtMostOne(users) == \A u, v \in users : u = v

\* An entry that is not crowded has one user, and true marks; one that is to be
\* destroyed is not crowded.
LockAlone(i) == i \notin crowdedLocks => AtMostOne(LockUsers(i)) /\ LockMarked(i)
CVAlone(c) == c \notin crowdedCVs => AtMostOne(CVUsers(c)) /\ CVMarked(c)

Doomed ==
    /\ \A i \in LockIndex : DoomedLock(i) => i \notin crowdedLocks
    /\ \A c \in CVIndex : DoomedCV(c) => c \notin crowdedCVs

\* The threads that call or hold something.
Busy == {t \in Thread : call[t].op # "none" \/ held[t] # {}}

TablesInv ==
    /\ ManagerTypeOK
    /\ IsFiniteSet(Busy)
    /\ \A t \in Thread : CallFits(t)
    /\ \A i \in LockIndex : LockQueue(i)
    /\ \A c \in CVIndex : CVQueue(c)
    /\ \A t \in Thread : InTables(t)
    /\ \A i \in LockIndex : LockAlone(i)
    /\ \A c \in CVIndex : CVAlone(c)
    /\ Doomed

-----------------------------------------------------------------------------
(* Who uses an entry *)

LEMMA OneOrNone ==
    ASSUME NEW S, IsFiniteSet(S)
    PROVE  Cardinality(S) <= 1 <=> AtMostOne(S)
<1>1. Cardinality(S) \in Nat
  BY FS_CardinalityType
<1>2. ASSUME Cardinality(S) <= 1
      PROVE  AtMostOne(S)
  <2>1. S = {} \/ \E x : S = {x}
    BY <1>1, <1>2, FS_EmptySet, FS_Singleton
  <2> QED
    BY <2>1 DEF AtMostOne
<1>3. ASSUME AtMostOne(S)
      PROVE  Cardinality(S) <= 1
  <2>1. ASSUME S # {} PROVE \E x : S = {x}
    <3>1. PICK x : x \in S
      BY <2>1
    <3>2. S = {x}
      BY <1>3, <3>1 DEF AtMostOne
    <3> QED
      BY <3>2
  <2>2. ASSUME S = {} PROVE Cardinality(S) = 0
    BY <2>2, FS_EmptySet
  <2>3. ASSUME NEW x, S = {x} PROVE Cardinality(S) = 1
    BY <2>3, FS_Singleton
  <2> QED
    BY <2>1, <2>2, <2>3
<1> QED
  BY <1>2, <1>3

LEMMA FewUsers ==
    IsFiniteSet(Busy) => /\ \A i \in LockIndex : IsFiniteSet(LockUsers(i))
                         /\ \A c \in CVIndex : IsFiniteSet(CVUsers(c))
<1> SUFFICES ASSUME IsFiniteSet(Busy)
             PROVE  /\ \A i \in LockIndex : IsFiniteSet(LockUsers(i))
                    /\ \A c \in CVIndex : IsFiniteSet(CVUsers(c))
  OBVIOUS
<1>1. ASSUME NEW i \in LockIndex
      PROVE  IsFiniteSet(LockUsers(i))
  <2>1. LockUsers(i) \subseteq Busy \cup {lockEntries[i].owner}
    BY DEF LockUsers, Busy, Calls
  <2> QED
    BY <2>1, FS_AddElement, FS_Subset
<1>2. ASSUME NEW c \in CVIndex
      PROVE  IsFiniteSet(CVUsers(c))
  <2>1. CVUsers(c) \subseteq Busy
    BY DEF CVUsers, Busy, Calls
  <2> QED
    BY <2>1, FS_Subset
<1> QED
  BY <1>1, <1>2

\* An entry gets crowded with a second user, and stays so until it has none.
LEMMA CrowdSays ==
    ASSUME Crowd, IsFiniteSet(Busy)'
    PROVE  /\ \A i \in LockIndex :
                /\ i \in crowdedLocks' => i \in crowdedLocks \/ ~AtMostOne(LockUsers(i)')
                /\ i \notin crowdedLocks' =>
                     LockUsers(i)' = {} \/ (i \notin crowdedLocks /\ AtMostOne(LockUsers(i)'))
           /\ \A c \in CVIndex :
                /\ c \in crowdedCVs' => c \in crowdedCVs \/ ~AtMostOne(CVUsers(c)')
                /\ c \notin crowdedCVs' =>
                     CVUsers(c)' = {} \/ (c \notin crowdedCVs /\ AtMostOne(CVUsers(c)'))
<1>1. /\ \A i \in LockIndex : IsFiniteSet(LockUsers(i)')
      /\ \A c \in CVIndex : IsFiniteSet(CVUsers(c)')
  <2>1. (IsFiniteSet(Busy) => /\ \A i \in LockIndex : IsFiniteSet(LockUsers(i))
                              /\ \A c \in CVIndex : IsFiniteSet(CVUsers(c)))'
    BY FewUsers, PTL
  <2> QED
    BY <2>1
<1>2. ASSUME NEW i \in LockIndex
      PROVE  /\ i \in crowdedLocks' => i \in crowdedLocks \/ ~AtMostOne(LockUsers(i)')
             /\ i \notin crowdedLocks' =>
                  LockUsers(i)' = {} \/ (i \notin crowdedLocks /\ AtMostOne(LockUsers(i)'))
  <2> DEFINE users == LockUsers(i)'
  <2>1. i \in crowdedLocks' <=> users # {} /\ (i \in crowdedLocks \/ Cardinality(users) > 1)
    BY DEF Crowd
  <2>2. IsFiniteSet(users)
    BY <1>1
  <2> HIDE DEF users
  <2>3. Cardinality(users) > 1 <=> ~AtMostOne(users)
    BY <2>2, OneOrNone, FS_CardinalityType
  <2>4. /\ i \in crowdedLocks' => i \in crowdedLocks \/ ~AtMostOne(users)
        /\ i \notin crowdedLocks' => users = {} \/ (i \notin crowdedLocks /\ AtMostOne(users))
    BY <2>1, <2>3
  <2> QED
    BY <2>4 DEF users
<1>3. ASSUME NEW c \in CVIndex
      PROVE  /\ c \in crowdedCVs' => c \in crowdedCVs \/ ~AtMostOne(CVUsers(c)')
             /\ c \notin crowdedCVs' =>
                  CVUsers(c)' = {} \/ (c \notin crowdedCVs /\ AtMostOne(CVUsers(c)'))
  <2> DEFINE users == CVUsers(c)'
  <2>1. c \in crowdedCVs' <=> users # {} /\ (c \in crowdedCVs \/ Cardinality(users) > 1)
    BY DEF Crowd
  <2>2. IsFiniteSet(users)
    BY <1>1
  <2> HIDE DEF users
  <2>3. Cardinality(users) > 1 <=> ~AtMostOne(users)
    BY <2>2, OneOrNone, FS_CardinalityType
  <2>4. /\ c \in crowdedCVs' => c \in crowdedCVs \/ ~AtMostOne(users)
        /\ c \notin crowdedCVs' => users = {} \/ (c \notin crowdedCVs /\ AtMostOne(users))
    BY <2>1, <2>3
  <2> QED
    BY <2>4 DEF users
<1> QED
  BY <1>2, <1>3

\* What all steps but the start of a call do: they keep the shape of everything,
\* nobody becomes a user, nothing becomes doomed that was not, and the marks of
\* entries that are not crowded stay true.
Kept ==
    /\ ManagerTypeOK'
    /\ IsFiniteSet(Busy)'
    /\ \A u \in Thread : CallFits(u)'
    /\ \A i \in LockIndex : LockQueue(i)'
    /\ \A c \in CVIndex : CVQueue(c)'
    /\ \A u \in Thread : InTables(u)'
    /\ \A i \in LockIndex :
         /\ LockUsers(i)' \subseteq LockUsers(i)
         /\ DoomedLock(i)' => DoomedLock(i)
         /\ i \notin crowdedLocks => LockMarked(i)'
    /\ \A c \in CVIndex :
         /\ CVUsers(c)' \subseteq CVUsers(c)
         /\ DoomedCV(c)' => DoomedCV(c)
         /\ c \notin crowdedCVs => CVMarked(c)'

\* Marks matter only to users.
LEMMA UnusedMarked ==
    (\A u \in Thread : CallFits(u)) =>
        /\ \A j \in LockIndex : LockUsers(j) = {} => LockMarked(j)
        /\ \A d \in CVIndex : CVUsers(d) = {} => CVMarked(d)
BY DEF CallFits, LockUsers, CVUsers, LockMarked, CVMarked, Calls

LEMMA UnusedMarkedNext ==
    ((\A u \in Thread : CallFits(u)) =>
        /\ \A j \in LockIndex : LockUsers(j) = {} => LockMarked(j)
        /\ \A d \in CVIndex : CVUsers(d) = {} => CVMarked(d))'
BY UnusedMarked, PTL

\* With Crowd, such a step preserves the invariant.
LEMMA KeptInv ==
    ASSUME TablesInv, Kept, Crowd
    PROVE  TablesInv'
<1>1. (\A t \in Thread : CallFits(t)') =>
        /\ \A i \in LockIndex : LockUsers(i)' = {} => LockMarked(i)'
        /\ \A c \in CVIndex : CVUsers(c)' = {} => CVMarked(c)'
  BY UnusedMarkedNext
<1>2. \A i \in LockIndex : LockAlone(i)'
  <2> TAKE i \in LockIndex
  <2>1. LockUsers(i)' = {} => LockAlone(i)'
    BY <1>1 DEF Kept, LockAlone, AtMostOne
  <2>2. i \notin crowdedLocks /\ AtMostOne(LockUsers(i)') => LockAlone(i)'
    BY DEF Kept, LockAlone, AtMostOne
  <2>3. i \in crowdedLocks' => LockAlone(i)'
    BY DEF LockAlone
  <2> QED
    BY <2>1, <2>2, <2>3, CrowdSays DEF Kept
<1>3. \A c \in CVIndex : CVAlone(c)'
  <2> TAKE c \in CVIndex
  <2>1. CVUsers(c)' = {} => CVAlone(c)'
    BY <1>1 DEF Kept, CVAlone, AtMostOne
  <2>2. c \notin crowdedCVs /\ AtMostOne(CVUsers(c)') => CVAlone(c)'
    BY DEF Kept, CVAlone, AtMostOne
  <2>3. c \in crowdedCVs' => CVAlone(c)'
    BY DEF CVAlone
  <2> QED
    BY <2>1, <2>2, <2>3, CrowdSays DEF Kept
<1>4. Doomed'
  <2>1. ASSUME NEW i \in LockIndex, DoomedLock(i)'
        PROVE  i \notin crowdedLocks'
    <3>1. i \notin crowdedLocks /\ AtMostOne(LockUsers(i))
      BY <2>1 DEF Kept, TablesInv, Doomed, LockAlone
    <3>2. AtMostOne(LockUsers(i)')
      BY <3>1 DEF Kept, AtMostOne
    <3> QED
      BY <3>1, <3>2, CrowdSays DEF Kept
  <2>2. ASSUME NEW c \in CVIndex, DoomedCV(c)'
        PROVE  c \notin crowdedCVs'
    <3>1. c \notin crowdedCVs /\ AtMostOne(CVUsers(c))
      BY <2>2 DEF Kept, TablesInv, Doomed, CVAlone
    <3>2. AtMostOne(CVUsers(c)')
      BY <3>1 DEF Kept, AtMostOne
    <3> QED
      BY <3>1, <3>2, CrowdSays DEF Kept
  <2> QED
    BY <2>1, <2>2 DEF Doomed
<1> QED
  BY <1>2, <1>3, <1>4 DEF Kept, TablesInv

-----------------------------------------------------------------------------
(* The start of a call *)

\* The arguments of a system call.
Args(op, c, i) ==
    /\ op \in Ops /\ c \in CVIndex \cup {NULL} /\ i \in LockIndex \cup {NULL}
    /\ op \in LockOps \cup PairOps => i \in LockIndex
    /\ op \in {"DestroyCondition"} \cup PairOps => c \in CVIndex

\* What is doomed has one user after the start of a careful call.
LEMMA EnterDoomed ==
    ASSUME TablesInv, Careful, NEW t \in Thread, NEW op, NEW c, NEW i, Args(op, c, i),
           Enter(t, op, c, i)
    PROVE  /\ \A j \in LockIndex : DoomedLock(j)' => j \notin crowdedLocks /\ AtMostOne(LockUsers(j)')
           /\ \A d \in CVIndex : DoomedCV(d)' => d \notin crowdedCVs /\ AtMostOne(CVUsers(d)')
<1>1. /\ Allowed(t, op, c, i)
      /\ lockEntries' = lockEntries /\ cvEntries' = cvEntries /\ held' = held
      /\ \A u \in Thread \ {t} : call'[u] = call[u]
      /\ call'[t] = [op |-> op, cv |-> c, lock |-> i]
      /\ call[t].op = "none"
  BY DEF Enter, entryVars, TablesInv, ManagerTypeOK, CallFits
<1>2. \A j \in LockIndex :
        LockUsers(j)' = IF op \in {"Acquire", "Release", "Wait"} /\ i = j
                        THEN LockUsers(j) \cup {t} ELSE LockUsers(j)
  <2> TAKE j \in LockIndex
  <2>1. \A u \in Thread \ {t} : u \in LockUsers(j)' <=> u \in LockUsers(j)
    BY <1>1 DEF LockUsers, Calls
  <2>2. t \in LockUsers(j)' <=> t \in LockUsers(j) \/ (op \in {"Acquire", "Release", "Wait"} /\ i = j)
    BY <1>1 DEF LockUsers, Calls
  <2>3. LockUsers(j)' \subseteq Thread /\ LockUsers(j) \subseteq Thread
    BY DEF LockUsers
  <2> QED
    BY <2>1, <2>2, <2>3
<1>3. \A d \in CVIndex :
        CVUsers(d)' = IF op = "Wait" /\ c = d THEN CVUsers(d) \cup {t} ELSE CVUsers(d)
  <2> TAKE d \in CVIndex
  <2>1. \A u \in Thread \ {t} : u \in CVUsers(d)' <=> u \in CVUsers(d)
    BY <1>1 DEF CVUsers, Calls
  <2>2. t \in CVUsers(d)' <=> t \in CVUsers(d) \/ (op = "Wait" /\ c = d)
    BY <1>1 DEF CVUsers, Calls
  <2>3. CVUsers(d)' \subseteq Thread /\ CVUsers(d) \subseteq Thread
    BY DEF CVUsers
  <2> QED
    BY <2>1, <2>2, <2>3
<1>4. \A j \in LockIndex : DoomedLock(j)' => DoomedLock(j) \/ (op = "DestroyLock" /\ i = j)
  BY <1>1 DEF DoomedLock, Calls
<1>5. \A d \in CVIndex : DoomedCV(d)' => DoomedCV(d) \/ (op = "DestroyCondition" /\ c = d)
  BY <1>1 DEF DoomedCV, Calls
<1>6. ASSUME NEW j \in LockIndex, DoomedLock(j)'
      PROVE  j \notin crowdedLocks /\ AtMostOne(LockUsers(j)')
  <2>1. CASE op = "DestroyLock" /\ i = j
    <3>1. Alone(LockUsers(j), crowdedLocks, j)
      BY <1>1, <2>1 DEF Allowed
    <3>2. IsFiniteSet(LockUsers(j))
      BY FewUsers DEF TablesInv
    <3> QED
      BY <1>2, <2>1, <3>1, <3>2, OneOrNone DEF Alone
  <2>2. CASE DoomedLock(j)
    <3>1. j \notin crowdedLocks /\ AtMostOne(LockUsers(j))
      BY <2>2 DEF TablesInv, Doomed, LockAlone
    <3>2. CASE op \in {"Acquire", "Release"} /\ i = j
      <4>1. LockUsers(j) \subseteq {t}
        BY <1>1, <2>2, <3>2 DEF Allowed
      <4> QED
        BY <1>2, <3>1, <3>2, <4>1 DEF AtMostOne
    <3>3. CASE op = "Wait" /\ i = j
      <4>1. t \in LockUsers(j)
        BY <1>1, <3>3 DEF Allowed, LockUsers
      <4> QED
        BY <1>2, <3>1, <4>1 DEF AtMostOne
    <3>4. CASE ~(op \in {"Acquire", "Release", "Wait"} /\ i = j)
      BY <1>2, <3>1, <3>4
    <3> QED
      BY <3>2, <3>3, <3>4
  <2> QED
    BY <1>4, <1>6, <2>1, <2>2
<1>7. ASSUME NEW d \in CVIndex, DoomedCV(d)'
      PROVE  d \notin crowdedCVs /\ AtMostOne(CVUsers(d)')
  <2>1. CASE op = "DestroyCondition" /\ c = d
    <3>1. Alone(CVUsers(d), crowdedCVs, d)
      BY <1>1, <2>1 DEF Allowed
    <3>2. IsFiniteSet(CVUsers(d))
      BY FewUsers DEF TablesInv
    <3> QED
      BY <1>3, <2>1, <3>1, <3>2, OneOrNone DEF Alone
  <2>2. CASE DoomedCV(d)
    <3>1. d \notin crowdedCVs /\ AtMostOne(CVUsers(d))
      BY <2>2 DEF TablesInv, Doomed, CVAlone
    <3>2. CASE op = "Wait" /\ c = d
      <4>1. CVUsers(d) = {}
        BY <1>1, <2>2, <3>2 DEF Allowed
      <4> QED
        BY <1>3, <3>1, <3>2, <4>1 DEF AtMostOne
    <3> QED
      BY <1>3, <3>1, <3>2
  <2> QED
    BY <1>5, <1>7, <2>1, <2>2
<1> QED
  BY <1>6, <1>7

\* A careful call preserves the invariant when it starts.
LEMMA EnterInv ==
    ASSUME TablesInv, Careful, NEW t \in Thread, NEW op, NEW c, NEW i, Args(op, c, i),
           Enter(t, op, c, i), Crowd
    PROVE  TablesInv'
<1>1. /\ Allowed(t, op, c, i)
      /\ table' = table /\ lockEntries' = lockEntries /\ cvEntries' = cvEntries /\ held' = held
      /\ \A u \in Thread \ {t} : call'[u] = call[u] /\ pc'[u] = pc[u]
      /\ call'[t] = [op |-> op, cv |-> c, lock |-> i] /\ pc'[t] = "first"
      /\ call[t].op = "none" /\ pc[t] = "user"
  BY DEF Enter, entryVars, TablesInv, ManagerTypeOK, CallFits
<1>2. ManagerTypeOK'
  <2>1. [op |-> op, cv |-> c, lock |-> i]
          \in [op : Ops \cup {"none"}, cv : CVIndex \cup {NULL}, lock : LockIndex \cup {NULL}]
    BY DEF Args
  <2>2. "first" \in Place
    BY DEF Place
  <2> QED
    BY <2>1, <2>2 DEF TablesInv, ManagerTypeOK, Enter, entryVars
<1>3. IsFiniteSet(Busy)'
  <2>1. Busy' \subseteq Busy \cup {t}
    BY <1>1 DEF Busy
  <2>2. IsFiniteSet(Busy \cup {t})
    BY FS_AddElement DEF TablesInv
  <2> QED
    BY <2>1, <2>2, FS_Subset
<1>4. \A u \in Thread : CallFits(u)'
  <2>1. CallFits(t)'
    BY <1>1 DEF CallFits, Args, Ops, LockOps, PairOps, InWait
  <2>2. \A u \in Thread \ {t} : CallFits(u)'
    BY <1>1 DEF TablesInv, CallFits
  <2> QED
    BY <2>1, <2>2
<1>5. \A j \in LockIndex : LockQueue(j)'
  <2> TAKE j \in LockIndex
  <2>1. \A w \in Range(lockEntries[j].queue) : w \in Thread /\ w # t
    <3>1. lockEntries[j].queue \in Seq(Thread)
      BY DEF TablesInv, ManagerTypeOK
    <3>2. Range(lockEntries[j].queue) \subseteq Thread
      BY <3>1 DEF Range
    <3> QED
      BY <1>1, <3>2 DEF TablesInv, LockQueue
  <2> QED
    BY <1>1, <2>1 DEF TablesInv, LockQueue
<1>6. \A d \in CVIndex : CVQueue(d)'
  <2> TAKE d \in CVIndex
  <2>1. \A w \in Range(cvEntries[d].waiters) : w \in Thread /\ w # t
    <3>1. cvEntries[d].waiters \in Seq(Thread)
      BY DEF TablesInv, ManagerTypeOK
    <3>2. Range(cvEntries[d].waiters) \subseteq Thread
      BY <3>1 DEF Range
    <3> QED
      BY <1>1, <3>2 DEF TablesInv, CVQueue
  <2> QED
    BY <1>1, <2>1 DEF TablesInv, CVQueue
<1>7. \A u \in Thread : InTables(u)'
  <2>1. InTables(t)'
    BY <1>1 DEF TablesInv, InTables, Allowed, InWait
  <2>2. \A u \in Thread \ {t} : InTables(u)'
    BY <1>1 DEF TablesInv, InTables
  <2> QED
    BY <2>1, <2>2
<1>8. \A j \in LockIndex : LockMarked(j) => LockMarked(j)'
  BY <1>1 DEF LockMarked, InWait
<1>9. \A d \in CVIndex : CVMarked(d) => CVMarked(d)'
  BY <1>1 DEF CVMarked, InWait
<1>10. /\ \A j \in LockIndex : LockUsers(j)' = {} => LockMarked(j)'
       /\ \A d \in CVIndex : CVUsers(d)' = {} => CVMarked(d)'
  BY <1>4, UnusedMarkedNext
<1>11. \A j \in LockIndex : LockAlone(j)'
  <2> TAKE j \in LockIndex
  <2>1. LockUsers(j)' = {} => LockAlone(j)'
    BY <1>10 DEF LockAlone, AtMostOne
  <2>2. j \notin crowdedLocks /\ AtMostOne(LockUsers(j)') => LockAlone(j)'
    BY <1>8 DEF TablesInv, LockAlone, AtMostOne
  <2>3. j \in crowdedLocks' => LockAlone(j)'
    BY DEF LockAlone
  <2> QED
    BY <1>3, <2>1, <2>2, <2>3, CrowdSays
<1>12. \A d \in CVIndex : CVAlone(d)'
  <2> TAKE d \in CVIndex
  <2>1. CVUsers(d)' = {} => CVAlone(d)'
    BY <1>10 DEF CVAlone, AtMostOne
  <2>2. d \notin crowdedCVs /\ AtMostOne(CVUsers(d)') => CVAlone(d)'
    BY <1>9 DEF TablesInv, CVAlone, AtMostOne
  <2>3. d \in crowdedCVs' => CVAlone(d)'
    BY DEF CVAlone
  <2> QED
    BY <1>3, <2>1, <2>2, <2>3, CrowdSays
<1>13. Doomed'
  BY <1>3, EnterDoomed, CrowdSays DEF Doomed
<1> QED
  BY <1>2, <1>3, <1>4, <1>5, <1>6, <1>7, <1>11, <1>12, <1>13 DEF TablesInv

-----------------------------------------------------------------------------
(* What the steps of a call share *)

TableType == [owner : Thread \cup {NULL}, queue : Seq(Thread)]
LockType == [bit : BOOLEAN, owner : Thread \cup {NULL}, queue : Seq(Thread),
             claimed : BOOLEAN, toBeUsed : BOOLEAN, toBeDeleted : BOOLEAN]
CVType == [bit : BOOLEAN, lock : LockIndex \cup {NULL}, waiters : Seq(Thread),
           claimed : BOOLEAN, toBeUsed : BOOLEAN, toBeDeleted : BOOLEAN]
CallType == [op : Ops \cup {"none"}, cv : CVIndex \cup {NULL}, lock : LockIndex \cup {NULL}]

LEMMA Typed ==
    ASSUME TablesInv
    PROVE  /\ table \in [Table -> TableType]
           /\ lockEntries \in [LockIndex -> LockType]
           /\ cvEntries \in [CVIndex -> CVType]
           /\ call \in [Thread -> CallType]
           /\ pc \in [Thread -> Place]
           /\ held \in [Thread -> SUBSET LockIndex]
BY DEF TablesInv, ManagerTypeOK, TableType, LockType, CVType, CallType

LEMMA TypedNext ==
    ASSUME table' \in [Table -> TableType], lockEntries' \in [LockIndex -> LockType],
           cvEntries' \in [CVIndex -> CVType], call' \in [Thread -> CallType],
           pc' \in [Thread -> Place], held' \in [Thread -> SUBSET LockIndex]
    PROVE  ManagerTypeOK'
BY DEF ManagerTypeOK, TableType, LockType, CVType, CallType

LEMMA NothingTyped == NoLock \in LockType /\ NoCV \in CVType /\ NoCall \in CallType
BY DEF NoLock, NoCV, NoCall, LockType, CVType, CallType

LEMMA MarkTyped ==
    /\ \A l \in LockType : \A b \in BOOLEAN : [l EXCEPT !.toBeUsed = b] \in LockType
    /\ \A l \in LockType : \A b \in BOOLEAN : [l EXCEPT !.claimed = b] \in LockType
    /\ \A e \in CVType : \A b \in BOOLEAN : [e EXCEPT !.toBeUsed = b] \in CVType
    /\ \A e \in CVType : \A b \in BOOLEAN : [e EXCEPT !.claimed = b] \in CVType
    /\ \A l \in LockType : \A q \in Seq(Thread) : [l EXCEPT !.queue = q] \in LockType
    /\ \A l \in LockType : \A t \in Thread : [l EXCEPT !.owner = t] \in LockType
    /\ \A l \in TableType : \A q \in Seq(Thread) : [l EXCEPT !.queue = q] \in TableType
    /\ \A l \in TableType : \A t \in Thread : [l EXCEPT !.owner = t] \in TableType
    /\ \A l \in LockType : [l EXCEPT !.claimed = TRUE, !.toBeUsed = FALSE] \in LockType
    /\ \A e \in CVType : [e EXCEPT !.claimed = FALSE, !.toBeUsed = FALSE] \in CVType
<1>1. \A l \in LockType : \A b \in BOOLEAN : [l EXCEPT !.toBeUsed = b] \in LockType
  BY DEF LockType
<1>2. \A l \in LockType : \A b \in BOOLEAN : [l EXCEPT !.claimed = b] \in LockType
  BY DEF LockType
<1>3. \A e \in CVType : \A b \in BOOLEAN : [e EXCEPT !.toBeUsed = b] \in CVType
  BY DEF CVType
<1>4. \A e \in CVType : \A b \in BOOLEAN : [e EXCEPT !.claimed = b] \in CVType
  BY DEF CVType
<1>5. \A l \in LockType : \A q \in Seq(Thread) : [l EXCEPT !.queue = q] \in LockType
  BY DEF LockType
<1>6. \A l \in LockType : \A t \in Thread : [l EXCEPT !.owner = t] \in LockType
  BY DEF LockType
<1>7. \A l \in TableType : \A q \in Seq(Thread) : [l EXCEPT !.queue = q] \in TableType
  BY DEF TableType
<1>8. \A l \in TableType : \A t \in Thread : [l EXCEPT !.owner = t] \in TableType
  BY DEF TableType
<1>9. \A l \in LockType : [l EXCEPT !.claimed = TRUE, !.toBeUsed = FALSE] \in LockType
  BY DEF LockType
<1>10. \A e \in CVType : [e EXCEPT !.claimed = FALSE, !.toBeUsed = FALSE] \in CVType
  BY DEF CVType
<1> QED
  BY <1>1, <1>2, <1>3, <1>4, <1>5, <1>6, <1>7, <1>8, <1>9, <1>10

LEMMA ReleasedTyped ==
    ASSUME NEW t \in Thread
    PROVE  /\ \A l \in TableType : Released(l, t) \in TableType
           /\ \A l \in LockType : Released(l, t) \in LockType
<1>1. ASSUME NEW q \in Seq(Thread), q # <<>>
      PROVE  Head(q) \in Thread /\ Tail(q) \in Seq(Thread)
  BY <1>1
<1>2. ASSUME NEW l \in TableType
      PROVE  Released(l, t) \in TableType
  <2>1. l.queue \in Seq(Thread)
    BY DEF TableType
  <2> QED
    BY <1>1, <2>1 DEF TableType, Released
<1>3. ASSUME NEW l \in LockType
      PROVE  Released(l, t) \in LockType
  <2>1. l.queue \in Seq(Thread)
    BY DEF LockType
  <2> QED
    BY <1>1, <2>1 DEF LockType, Released
<1> QED
  BY <1>2, <1>3

LEMMA GiveTyped ==
    ASSUME TablesInv, NEW t \in Thread, NEW k \in Table, NEW next \in Place, Give(t, k, next)
    PROVE  /\ table' \in [Table -> TableType]
           /\ call' \in [Thread -> CallType]
           /\ pc' \in [Thread -> Place]
<1>1. Released(table[k], t) \in TableType
  BY Typed, ReleasedTyped
<1>2. table' = [table EXCEPT ![k] = Released(table[k], t)]
  BY DEF Give
<1> QED
  BY <1>1, <1>2, Typed, NothingTyped DEF Give

LEMMA QueuedThreads ==
    ASSUME TablesInv
    PROVE  /\ \A i \in LockIndex : /\ lockEntries[i].queue \in Seq(Thread)
                                   /\ Range(lockEntries[i].queue) \subseteq Thread
           /\ \A c \in CVIndex : /\ cvEntries[c].waiters \in Seq(Thread)
                                 /\ Range(cvEntries[c].waiters) \subseteq Thread
<1>1. \A q \in Seq(Thread) : Range(q) \subseteq Thread
  BY DEF Range
<1> QED
  BY <1>1 DEF TablesInv, ManagerTypeOK

\* Only t moves.
Moves(t) ==
    \A u \in Thread \ {t} : pc'[u] = pc[u] /\ call'[u] = call[u] /\ held'[u] = held[u]

\* A thread that does not wait in a queue leaves the queues as they are.
LEMMA SameQueue ==
    ASSUME TablesInv, NEW t \in Thread, Moves(t), NEW i \in LockIndex,
           pc[t] \notin {"acquire", "awake"} \/ call[t].lock # i,
           lockEntries'[i].queue = lockEntries[i].queue,
           lockEntries'[i].owner = lockEntries[i].owner
    PROVE  LockQueue(i)'
<1>1. \A w \in Range(lockEntries[i].queue) : w \in Thread \ {t}
  BY QueuedThreads DEF TablesInv, LockQueue
<1> QED
  BY <1>1 DEF TablesInv, LockQueue, Moves

LEMMA SameWaiters ==
    ASSUME TablesInv, NEW t \in Thread, Moves(t), NEW c \in CVIndex,
           pc[t] # "asleep",
           cvEntries'[c].waiters = cvEntries[c].waiters
    PROVE  CVQueue(c)'
<1>1. \A w \in Range(cvEntries[c].waiters) : w \in Thread \ {t}
  BY QueuedThreads DEF TablesInv, CVQueue
<1> QED
  BY <1>1 DEF TablesInv, CVQueue, Moves

LEMMA StillFew ==
    ASSUME TablesInv, NEW t \in Thread,
           \A u \in Thread \ {t} : call'[u] = call[u] /\ held'[u] = held[u]
    PROVE  IsFiniteSet(Busy)'
<1>1. Busy' \subseteq Busy \cup {t}
  BY DEF Busy
<1>2. IsFiniteSet(Busy \cup {t})
  BY FS_AddElement DEF TablesInv
<1> QED
  BY <1>1, <1>2, FS_Subset

\* The call of t goes on or ends.
Continues(t) ==
    \/ call'[t] = call[t] /\ pc'[t] # "user"
    \/ call'[t] = NoCall /\ pc'[t] = "user"

\* Steps that change neither entries nor what is held.
Quiet(t) ==
    /\ lockEntries' = lockEntries /\ cvEntries' = cvEntries /\ held' = held
    /\ Moves(t) /\ Continues(t)
    /\ \/ /\ pc[t] \in {"first", "second", "body"}
          /\ pc'[t] \in {"user", "first", "second", "body", "giveLock", "leave"}
       \/ pc[t] \in {"giveLock", "leave"} /\ pc'[t] \in {"user", "leave"}
       \/ pc[t] = "enterWait" /\ pc'[t] = "wait"

\* They keep everything.
LEMMA QuietKept ==
    ASSUME TablesInv, NEW t \in Thread, Quiet(t), ManagerTypeOK'
    PROVE  Kept
<1> USE DEF Quiet
<1>1. CallFits(t) /\ InTables(t)
  BY DEF TablesInv
<1>2. \A u \in Thread : CallFits(u)'
  <2>1. CallFits(t)'
    BY <1>1 DEF CallFits, Continues, NoCall, InWait, PairOps
  <2>2. \A u \in Thread \ {t} : CallFits(u)'
    BY DEF TablesInv, CallFits, Moves
  <2> QED
    BY <2>1, <2>2
<1>3. \A i \in LockIndex : LockQueue(i)'
  BY SameQueue
<1>4. \A c \in CVIndex : CVQueue(c)'
  BY SameWaiters
<1>5. \A u \in Thread : InTables(u)'
  <2>1. InTables(t)'
    BY <1>1 DEF InTables, Continues, NoCall, InWait
  <2>2. \A u \in Thread \ {t} : InTables(u)'
    BY DEF TablesInv, InTables, Moves
  <2> QED
    BY <2>1, <2>2
<1>6. IsFiniteSet(Busy)'
  BY StillFew DEF Moves
<1>7. \A u \in Thread : call'[u] = call[u] \/ call'[u] = NoCall
  BY DEF Continues, Moves
<1>8. \A i \in LockIndex : LockUsers(i)' \subseteq LockUsers(i)
  BY <1>7 DEF LockUsers, Calls, NoCall
<1>9. \A c \in CVIndex : CVUsers(c)' \subseteq CVUsers(c)
  BY <1>7 DEF CVUsers, Calls, NoCall
<1>10. /\ \A i \in LockIndex : DoomedLock(i)' => DoomedLock(i)
       /\ \A c \in CVIndex : DoomedCV(c)' => DoomedCV(c)
  BY <1>7 DEF DoomedLock, DoomedCV, Calls, NoCall
<1>11. \A u \in Thread : pc'[u] \in InWait \cup {"acquire", "claim"} =>
          /\ call'[u] = call[u]
          /\ pc'[u] \in InWait <=> pc[u] \in InWait
          /\ pc'[u] \in {"acquire", "claim"} <=> pc[u] \in {"acquire", "claim"}
  BY DEF Continues, Moves, InWait
<1>12. \A i \in LockIndex : LockMarked(i) => LockMarked(i)'
  BY <1>11 DEF LockMarked
<1>13. \A c \in CVIndex : CVMarked(c) => CVMarked(c)'
  BY <1>11 DEF CVMarked
<1>14. /\ \A i \in LockIndex : i \notin crowdedLocks => LockMarked(i)
       /\ \A c \in CVIndex : c \notin crowdedCVs => CVMarked(c)
  BY DEF TablesInv, LockAlone, CVAlone
<1> QED
  BY <1>2, <1>3, <1>4, <1>5, <1>6, <1>8, <1>9, <1>10, <1>12, <1>13, <1>14 DEF Kept

LEMMA TakeKept ==
    ASSUME TablesInv, NEW t \in Thread, TakeFirst(t) \/ TakeSecond(t)
    PROVE  Kept
<1>1. PICK at \in {"first", "second"}, n \in {1, 2}, next \in {"second", "body"} : Take(t, at, n, next)
  BY DEF TakeFirst, TakeSecond
<1> DEFINE k == TablesOf(call[t].op)[n]
<1>2. k \in Table
  <2>1. n \in DOMAIN TablesOf(call[t].op)
    BY <1>1 DEF Take
  <2>2. TablesOf(call[t].op) \in {<<"lock">>, <<"cv">>, <<"cv", "lock">>}
    BY DEF TablesOf
  <2>3. \A s \in {<<"lock">>, <<"cv">>, <<"cv", "lock">>} : \A j \in DOMAIN s : s[j] \in Table
    BY DEF Table
  <2> QED
    BY <2>1, <2>2, <2>3
<1>3. /\ pc[t] = at /\ call' = call /\ held' = held
      /\ lockEntries' = lockEntries /\ cvEntries' = cvEntries
      /\ \/ pc' = [pc EXCEPT ![t] = next] /\ table' = [table EXCEPT ![k].owner = t]
         \/ pc' = pc /\ table' = [table EXCEPT ![k].queue = Append(@, t)]
  BY <1>1 DEF Take, entryVars
<1>4. ManagerTypeOK'
  <2>1. table[k] \in TableType /\ table[k].queue \in Seq(Thread)
    BY <1>2, Typed DEF TableType
  <2>2. Append(table[k].queue, t) \in Seq(Thread)
    BY <2>1
  <2> HIDE DEF k
  <2>3. table' \in [Table -> TableType]
    <3>1. /\ [table[k] EXCEPT !.owner = t] \in TableType
          /\ [table[k] EXCEPT !.queue = Append(table[k].queue, t)] \in TableType
      BY <2>1, <2>2, MarkTyped
    <3> QED
      BY <1>2, <1>3, <3>1, Typed
  <2>4. pc' \in [Thread -> Place]
    BY <1>3, Typed DEF Place
  <2> QED
    BY <1>3, <2>3, <2>4, Typed, TypedNext
<1>5. Quiet(t)
  BY <1>3, Typed DEF Quiet, Moves, Continues
<1> QED
  BY <1>4, <1>5, QuietKept

LEMMA GiveKept ==
    ASSUME TablesInv, NEW t \in Thread, WaitGiveTable(t) \/ GiveLockTable(t) \/ GiveCVTable(t)
    PROVE  Kept
<1>1. PICK k \in Table, next \in {"wait", "leave", "user"} :
        /\ Give(t, k, next)
        /\ \/ pc[t] = "enterWait" /\ next = "wait"
           \/ pc[t] \in {"giveLock", "leave"} /\ next # "wait"
        /\ lockEntries' = lockEntries /\ cvEntries' = cvEntries /\ held' = held
  BY DEF WaitGiveTable, GiveLockTable, GiveCVTable, entryVars, Table
<1>2. ManagerTypeOK'
  <2>1. next \in Place
    BY DEF Place
  <2> QED
    BY <1>1, <2>1, GiveTyped, Typed, TypedNext
<1>3. Quiet(t)
  BY <1>1, Typed DEF Give, Quiet, Moves, Continues
<1> QED
  BY <1>2, <1>3, QuietKept

LEMMA BroadcastDoneKept ==
    ASSUME TablesInv, NEW t \in Thread, BroadcastDone(t)
    PROVE  Kept
<1>1. /\ pc[t] = "body" /\ pc' = [pc EXCEPT ![t] = "giveLock"] /\ table' = table
      /\ lockEntries' = lockEntries /\ cvEntries' = cvEntries /\ held' = held /\ call' = call
  BY DEF BroadcastDone, InBody, entryVars
<1>2. ManagerTypeOK'
  BY <1>1, Typed, TypedNext DEF Place
<1>3. Quiet(t)
  BY <1>1, Typed DEF Quiet, Moves, Continues
<1> QED
  BY <1>2, <1>3, QuietKept

-----------------------------------------------------------------------------
(* Creation and destruction: calls that end with an entry that is as it was,  *)
(* but for its marks, or empty and used by nobody.                            *)

Ends(t) ==
    /\ Moves(t) /\ held' = held
    /\ pc[t] \in {"body", "unclaim"} /\ pc'[t] = "user" /\ call'[t] = NoCall

LockSame(i) ==
    LET l == lockEntries[i] IN
    /\ l'.bit = l.bit /\ l'.owner = l.owner /\ l'.queue = l.queue
    /\ l'.toBeDeleted => DoomedLock(i)
    /\ i \notin crowdedLocks => LockMarked(i)'

CVSame(c) ==
    LET e == cvEntries[c] IN
    /\ e'.bit = e.bit /\ e'.waiters = e.waiters
    /\ e'.toBeDeleted => DoomedCV(c)
    /\ c \notin crowdedCVs => CVMarked(c)'

\* Nobody needs an entry.
LockIdle(i) ==
    \A u \in Thread :
        /\ i \notin held[u]
        /\ ~(pc[u] \in {"acquire", "claim"} \cup InWait /\ call[u].lock = i)

CVIdle(c) == \A u \in Thread : ~(pc[u] \in InWait /\ call[u].cv = c)

LockEmpty(i) ==
    /\ lockEntries'[i] \in {NoLock, [NoLock EXCEPT !.bit = TRUE]}
    /\ LockIdle(i)'

CVEmpty(c) ==
    /\ cvEntries'[c] \in {NoCV, [NoCV EXCEPT !.bit = TRUE]}
    /\ CVIdle(c)'

\* Such a call keeps everything.
LEMMA EndKept ==
    ASSUME TablesInv, NEW t \in Thread, Ends(t), ManagerTypeOK',
           \A i \in LockIndex : LockSame(i) \/ LockEmpty(i),
           \A c \in CVIndex : CVSame(c) \/ CVEmpty(c)
    PROVE  Kept
<1>1. \A u \in Thread :
        \/ u # t /\ call'[u] = call[u] /\ pc'[u] = pc[u] /\ held'[u] = held[u]
        \/ u = t /\ call'[u] = NoCall /\ pc'[u] = "user" /\ held'[u] = held[u]
  BY DEF Ends, Moves
<1>2. IsFiniteSet(Busy)'
  BY StillFew DEF Ends, Moves
<1>3. \A u \in Thread : CallFits(u)'
  BY <1>1 DEF TablesInv, CallFits, NoCall, InWait, PairOps
<1>4. \A i \in LockIndex : LockQueue(i)'
  <2> TAKE i \in LockIndex
  <2>1. LockSame(i) => LockQueue(i)'
    BY SameQueue DEF LockSame, Ends
  <2>2. LockEmpty(i) => LockQueue(i)'
    BY EmptyQueue DEF LockEmpty, LockQueue, NoLock
  <2> QED
    BY <2>1, <2>2
<1>5. \A c \in CVIndex : CVQueue(c)'
  <2> TAKE c \in CVIndex
  <2>1. CVSame(c) => CVQueue(c)'
    BY SameWaiters DEF CVSame, Ends
  <2>2. CVEmpty(c) => CVQueue(c)'
    BY EmptyQueue DEF CVEmpty, CVQueue, NoCV
  <2> QED
    BY <2>1, <2>2
<1>6. \A u \in Thread : InTables(u)'
  <2> TAKE u \in Thread
  <2>1. CASE u = t
    <3>1. \A i \in held[t] : lockEntries'[i].bit /\ lockEntries'[i].owner = t
      <4> TAKE i \in held[t]
      <4>1. i \in LockIndex
        BY Typed
      <4>2. ~LockEmpty(i)
        BY <1>1 DEF LockEmpty, LockIdle
      <4> QED
        BY <4>1, <4>2 DEF LockSame, TablesInv, InTables
    <3> QED
      BY <1>1, <2>1, <3>1 DEF InTables, InWait, NoCall
  <2>2. CASE u # t
    <3>1. pc'[u] = pc[u] /\ call'[u] = call[u] /\ held'[u] = held[u]
      BY <1>1, <2>2
    <3>2. InTables(u) /\ CallFits(u)
      BY DEF TablesInv
    <3>3. \A i \in held[u] : LockSame(i)
      BY <3>1, Typed DEF LockEmpty, LockIdle
    <3>4. ASSUME pc[u] \in {"acquire", "claim"} \cup InWait
          PROVE  /\ call[u].lock \in LockIndex
                 /\ \A i \in LockIndex : i = call[u].lock => LockSame(i)
      <4>1. call[u].lock \in LockIndex
        BY <3>2, <3>4 DEF CallFits, PairOps
      <4>2. \A i \in LockIndex : i = call[u].lock => ~LockEmpty(i)
        BY <3>1, <3>4 DEF LockEmpty, LockIdle
      <4> QED
        BY <4>1, <4>2
    <3>5. ASSUME pc[u] \in InWait
          PROVE  /\ call[u].cv \in CVIndex
                 /\ \A c \in CVIndex : c = call[u].cv => CVSame(c)
      <4>1. call[u].cv \in CVIndex
        BY <3>2, <3>5 DEF CallFits, PairOps
      <4>2. \A c \in CVIndex : c = call[u].cv => ~CVEmpty(c)
        BY <3>1, <3>5 DEF CVEmpty, CVIdle
      <4> QED
        BY <4>1, <4>2
    <3>6. \A i \in held[u] : lockEntries'[i].bit /\ lockEntries'[i].owner = u
      BY <3>2, <3>3 DEF InTables, LockSame
    <3>7. pc[u] \in {"acquire", "claim"} \cup InWait =>
            /\ lockEntries'[call[u].lock].bit = lockEntries[call[u].lock].bit
            /\ lockEntries'[call[u].lock].owner = lockEntries[call[u].lock].owner
      BY <3>4 DEF LockSame
    <3>8. pc[u] \in InWait =>
            /\ cvEntries'[call[u].cv].bit = cvEntries[call[u].cv].bit
            /\ cvEntries'[call[u].cv].waiters = cvEntries[call[u].cv].waiters
      BY <3>5 DEF CVSame
    <3> QED
      BY <3>1, <3>2, <3>6, <3>7, <3>8 DEF InTables, InWait
  <2> QED
    BY <2>1, <2>2
<1>7. \A i \in LockIndex : LockUsers(i)' \subseteq LockUsers(i)
  <2> TAKE i \in LockIndex
  <2>1. \A u \in Thread : lockEntries'[i].owner = u => lockEntries[i].owner = u
    BY DEF LockSame, LockEmpty, NoLock, Thread
  <2> QED
    BY <1>1, <2>1 DEF LockUsers, Calls, NoCall
<1>8. \A c \in CVIndex : CVUsers(c)' \subseteq CVUsers(c)
  BY <1>1 DEF CVUsers, Calls, NoCall
<1>9. \A i \in LockIndex : DoomedLock(i)' => DoomedLock(i)
  <2> TAKE i \in LockIndex
  <2>1. lockEntries'[i].toBeDeleted => DoomedLock(i)
    BY DEF LockSame, LockEmpty, NoLock
  <2> QED
    BY <1>1, <2>1 DEF DoomedLock, Calls, NoCall
<1>10. \A c \in CVIndex : DoomedCV(c)' => DoomedCV(c)
  <2> TAKE c \in CVIndex
  <2>1. cvEntries'[c].toBeDeleted => DoomedCV(c)
    BY DEF CVSame, CVEmpty, NoCV
  <2> QED
    BY <1>1, <2>1 DEF DoomedCV, Calls, NoCall
<1>11. \A i \in LockIndex : i \notin crowdedLocks => LockMarked(i)'
  BY DEF LockSame, LockEmpty, LockIdle, LockMarked
<1>12. \A c \in CVIndex : c \notin crowdedCVs => CVMarked(c)'
  BY DEF CVSame, CVEmpty, CVIdle, CVMarked
<1> QED
  BY <1>2, <1>3, <1>4, <1>5, <1>6, <1>7, <1>8, <1>9, <1>10, <1>11, <1>12 DEF Kept

\* An entry without a bit is not used.
LEMMA NoBitNoUse ==
    ASSUME TablesInv
    PROVE  /\ \A i \in LockIndex : ~lockEntries[i].bit => LockIdle(i)
           /\ \A c \in CVIndex : ~cvEntries[c].bit => CVIdle(c)
BY DEF TablesInv, InTables, LockIdle, CVIdle

\* A call that ends leaves an idle entry idle, and marks true.
LEMMA EndsIdle ==
    ASSUME NEW t \in Thread, Ends(t)
    PROVE  /\ \A i \in LockIndex : LockIdle(i) => LockIdle(i)'
           /\ \A c \in CVIndex : CVIdle(c) => CVIdle(c)'
BY DEF Ends, Moves, LockIdle, CVIdle, InWait

LEMMA EndsMarked ==
    ASSUME TablesInv, NEW t \in Thread, Ends(t)
    PROVE  /\ \A i \in LockIndex :
                /\ i \notin crowdedLocks
                /\ lockEntries'[i].claimed = lockEntries[i].claimed
                /\ lockEntries'[i].toBeUsed = lockEntries[i].toBeUsed
                => LockMarked(i)'
           /\ \A c \in CVIndex :
                /\ c \notin crowdedCVs
                /\ cvEntries'[c].toBeUsed = cvEntries[c].toBeUsed
                => CVMarked(c)'
<1>1. \A u \in Thread :
        \/ call'[u] = call[u] /\ pc'[u] = pc[u] /\ held'[u] = held[u]
        \/ pc'[u] = "user" /\ held'[u] = held[u]
  BY DEF Ends, Moves
<1>2. ASSUME NEW i \in LockIndex, i \notin crowdedLocks,
             lockEntries'[i].claimed = lockEntries[i].claimed,
             lockEntries'[i].toBeUsed = lockEntries[i].toBeUsed
      PROVE  LockMarked(i)'
  <2>1. LockMarked(i)
    BY <1>2 DEF TablesInv, LockAlone
  <2> QED
    BY <1>1, <1>2, <2>1 DEF LockMarked, InWait
<1>3. ASSUME NEW c \in CVIndex, c \notin crowdedCVs,
             cvEntries'[c].toBeUsed = cvEntries[c].toBeUsed
      PROVE  CVMarked(c)'
  <2>1. CVMarked(c)
    BY <1>3 DEF TablesInv, CVAlone
  <2> QED
    BY <1>1, <1>3, <2>1 DEF CVMarked, InWait
<1> QED
  BY <1>2, <1>3

LEMMA SameEntries ==
    ASSUME TablesInv, NEW t \in Thread, Ends(t)
    PROVE  /\ \A i \in LockIndex : lockEntries'[i] = lockEntries[i] => LockSame(i)
           /\ \A c \in CVIndex : cvEntries'[c] = cvEntries[c] => CVSame(c)
<1>1. \A i \in LockIndex : lockEntries[i].toBeDeleted => DoomedLock(i)
  BY DEF DoomedLock
<1>2. \A c \in CVIndex : cvEntries[c].toBeDeleted => DoomedCV(c)
  BY DEF DoomedCV
<1> QED
  BY <1>1, <1>2, EndsMarked DEF LockSame, CVSame

LEMMA CreateLockKept ==
    ASSUME TablesInv, NEW t \in Thread, CreateLock(t)
    PROVE  Kept
<1>1. /\ Ends(t)
      /\ cvEntries' = cvEntries
      /\ Give(t, "lock", "user")
      /\ lockEntries' \in [LockIndex -> LockType]
      /\ \A i \in LockIndex :
           \/ lockEntries'[i] = lockEntries[i]
           \/ ~lockEntries[i].bit /\ lockEntries'[i] = [NoLock EXCEPT !.bit = TRUE]
  <2>1. Ends(t)
    BY Typed DEF CreateLock, Give, InBody, Ends, Moves
  <2>2. [NoLock EXCEPT !.bit = TRUE] \in LockType
    BY NothingTyped DEF LockType
  <2> QED
    BY <2>1, <2>2, Typed DEF CreateLock
<1>2. ManagerTypeOK'
  BY <1>1, GiveTyped, Typed, TypedNext DEF Table, Place, Ends
<1>3. \A i \in LockIndex : LockSame(i) \/ LockEmpty(i)
  BY <1>1, SameEntries, NoBitNoUse, EndsIdle DEF LockEmpty
<1>4. \A c \in CVIndex : CVSame(c)
  BY <1>1, SameEntries
<1> QED
  BY <1>1, <1>2, <1>3, <1>4, EndKept

LEMMA CreateConditionKept ==
    ASSUME TablesInv, NEW t \in Thread, CreateCondition(t)
    PROVE  Kept
<1>1. /\ Ends(t)
      /\ lockEntries' = lockEntries
      /\ Give(t, "cv", "user")
      /\ cvEntries' \in [CVIndex -> CVType]
      /\ \A c \in CVIndex :
           \/ cvEntries'[c] = cvEntries[c]
           \/ ~cvEntries[c].bit /\ cvEntries'[c] = [NoCV EXCEPT !.bit = TRUE]
  <2>1. Ends(t)
    BY Typed DEF CreateCondition, Give, InBody, Ends, Moves
  <2>2. [NoCV EXCEPT !.bit = TRUE] \in CVType
    BY NothingTyped DEF CVType
  <2> QED
    BY <2>1, <2>2, Typed DEF CreateCondition
<1>2. ManagerTypeOK'
  BY <1>1, GiveTyped, Typed, TypedNext DEF Table, Place, Ends
<1>3. \A c \in CVIndex : CVSame(c) \/ CVEmpty(c)
  BY <1>1, SameEntries, NoBitNoUse, EndsIdle DEF CVEmpty
<1>4. \A i \in LockIndex : LockSame(i)
  BY <1>1, SameEntries
<1> QED
  BY <1>1, <1>2, <1>3, <1>4, EndKept

\* DestroyLock finds true marks, as what is doomed is not crowded.
LEMMA DestroyLockKept ==
    ASSUME TablesInv, NEW t \in Thread, DestroyLock(t)
    PROVE  Kept
<1>1. PICK d \in LockIndex : d = call[t].lock
  BY DEF DestroyLock, InBody, TablesInv, CallFits
<1>2. /\ DoomedLock(d)
      /\ Ends(t)
      /\ cvEntries' = cvEntries
      /\ Give(t, "lock", "user")
      /\ lockEntries' = [lockEntries EXCEPT ![d] = Destroyed(lockEntries[d], NoLock)]
  <2>1. DoomedLock(d)
    BY <1>1 DEF DestroyLock, InBody, DoomedLock, Calls
  <2>2. Ends(t)
    BY Typed DEF DestroyLock, Give, InBody, Ends, Moves
  <2> QED
    BY <1>1, <2>1, <2>2 DEF DestroyLock
<1>3. Destroyed(lockEntries[d], NoLock) \in LockType
  BY Typed, NothingTyped DEF Destroyed, LockType
<1>4. ManagerTypeOK'
  BY <1>2, <1>3, GiveTyped, Typed, TypedNext DEF Table, Place, Ends
<1>5. \A i \in LockIndex \ {d} : LockSame(i)
  BY <1>2, SameEntries, Typed
<1>6. lockEntries'[d] = Destroyed(lockEntries[d], NoLock)
  BY <1>2, Typed
<1>7. ASSUME ~lockEntries[d].bit
      PROVE  LockSame(d)
  BY <1>2, <1>6, <1>7, SameEntries DEF Destroyed
<1>8. ASSUME lockEntries[d].bit /\ ~lockEntries[d].claimed /\ ~lockEntries[d].toBeUsed
      PROVE  LockEmpty(d)
  <2>1. LockIdle(d)
    BY <1>2, <1>8 DEF TablesInv, Doomed, LockAlone, LockMarked, LockIdle
  <2> QED
    BY <1>2, <1>6, <1>8, <2>1, EndsIdle DEF Destroyed, LockEmpty
<1>9. ASSUME lockEntries[d].bit /\ ~(~lockEntries[d].claimed /\ ~lockEntries[d].toBeUsed)
      PROVE  LockSame(d)
  <2>1. lockEntries'[d] = [lockEntries[d] EXCEPT !.toBeDeleted = TRUE]
    BY <1>6, <1>9 DEF Destroyed
  <2>2. /\ lockEntries'[d].bit = lockEntries[d].bit
        /\ lockEntries'[d].owner = lockEntries[d].owner
        /\ lockEntries'[d].queue = lockEntries[d].queue
        /\ lockEntries'[d].claimed = lockEntries[d].claimed
        /\ lockEntries'[d].toBeUsed = lockEntries[d].toBeUsed
    BY <2>1, Typed DEF LockType
  <2> QED
    BY <1>2, <2>2, <2>1, EndsMarked DEF LockSame
<1>10. LockSame(d) \/ LockEmpty(d)
  BY <1>7, <1>8, <1>9
<1>11. \A c \in CVIndex : CVSame(c)
  BY <1>2, SameEntries
<1> QED
  BY <1>2, <1>4, <1>5, <1>10, <1>11, EndKept

LEMMA DestroyConditionKept ==
    ASSUME TablesInv, NEW t \in Thread, DestroyCondition(t)
    PROVE  Kept
<1>1. PICK d \in CVIndex : d = call[t].cv
  BY DEF DestroyCondition, InBody, TablesInv, CallFits
<1>2. /\ DoomedCV(d)
      /\ Ends(t)
      /\ lockEntries' = lockEntries
      /\ Give(t, "cv", "user")
      /\ cvEntries' = [cvEntries EXCEPT ![d] = Destroyed(cvEntries[d], NoCV)]
  <2>1. DoomedCV(d)
    BY <1>1 DEF DestroyCondition, InBody, DoomedCV, Calls
  <2>2. Ends(t)
    BY Typed DEF DestroyCondition, Give, InBody, Ends, Moves
  <2> QED
    BY <1>1, <2>1, <2>2 DEF DestroyCondition
<1>3. Destroyed(cvEntries[d], NoCV) \in CVType
  BY Typed, NothingTyped DEF Destroyed, CVType
<1>4. ManagerTypeOK'
  BY <1>2, <1>3, GiveTyped, Typed, TypedNext DEF Table, Place, Ends
<1>5. \A c \in CVIndex \ {d} : CVSame(c)
  BY <1>2, SameEntries, Typed
<1>6. cvEntries'[d] = Destroyed(cvEntries[d], NoCV)
  BY <1>2, Typed
<1>7. ASSUME ~cvEntries[d].bit
      PROVE  CVSame(d)
  BY <1>2, <1>6, <1>7, SameEntries DEF Destroyed
<1>8. ASSUME cvEntries[d].bit /\ ~cvEntries[d].claimed /\ ~cvEntries[d].toBeUsed
      PROVE  CVEmpty(d)
  <2>1. CVIdle(d)
    BY <1>2, <1>8 DEF TablesInv, Doomed, CVAlone, CVMarked, CVIdle
  <2> QED
    BY <1>2, <1>6, <1>8, <2>1, EndsIdle DEF Destroyed, CVEmpty
<1>9. ASSUME cvEntries[d].bit /\ ~(~cvEntries[d].claimed /\ ~cvEntries[d].toBeUsed)
      PROVE  CVSame(d)
  <2>1. cvEntries'[d] = [cvEntries[d] EXCEPT !.toBeDeleted = TRUE]
    BY <1>6, <1>9 DEF Destroyed
  <2>2. /\ cvEntries'[d].bit = cvEntries[d].bit
        /\ cvEntries'[d].waiters = cvEntries[d].waiters
        /\ cvEntries'[d].toBeUsed = cvEntries[d].toBeUsed
    BY <2>1, Typed DEF CVType
  <2> QED
    BY <1>2, <2>2, <2>1, EndsMarked DEF CVSame
<1>10. CVSame(d) \/ CVEmpty(d)
  BY <1>7, <1>8, <1>9
<1>11. \A i \in LockIndex : LockSame(i)
  BY <1>2, SameEntries
<1> QED
  BY <1>2, <1>4, <1>5, <1>10, <1>11, EndKept

\* Release finds that somebody wants the lock destroyed, or takes its mark away.
LEMMA ReleaseUnclaimKept ==
    ASSUME TablesInv, NEW t \in Thread, ReleaseUnclaim(t)
    PROVE  Kept
<1>1. PICK d \in LockIndex : d = call[t].lock
  BY DEF ReleaseUnclaim, TablesInv, CallFits
<1> DEFINE l == lockEntries[d]
<1>2. /\ Ends(t)
      /\ t \in LockUsers(d) /\ d \notin held[t]
      /\ cvEntries' = cvEntries
      /\ Give(t, "lock", "user")
      /\ lockEntries' = [lockEntries EXCEPT ![d] =
             IF l.toBeDeleted THEN NoLock ELSE [l EXCEPT !.claimed = FALSE]]
  <2>1. Ends(t)
    BY Typed DEF ReleaseUnclaim, Give, Ends, Moves
  <2>2. t \in LockUsers(d) /\ d \notin held[t]
    BY <1>1 DEF ReleaseUnclaim, TablesInv, CallFits, InTables, LockUsers, Calls
  <2> QED
    BY <1>1, <2>1, <2>2 DEF ReleaseUnclaim
<1>3. (IF l.toBeDeleted THEN NoLock ELSE [l EXCEPT !.claimed = FALSE]) \in LockType
  BY Typed, NothingTyped DEF LockType
<1>4. ManagerTypeOK'
  BY <1>2, <1>3, GiveTyped, Typed, TypedNext DEF Table, Place, Ends
<1>5. \A i \in LockIndex \ {d} : LockSame(i)
  BY <1>2, SameEntries, Typed
<1>6. d \notin crowdedLocks => LockIdle(d)'
  <2> SUFFICES ASSUME d \notin crowdedLocks, NEW u \in Thread
               PROVE  /\ d \notin held'[u]
                      /\ ~(pc'[u] \in {"acquire", "claim"} \cup InWait /\ call'[u].lock = d)
    BY DEF LockIdle
  <2>1. CASE u = t
    BY <1>2, <2>1 DEF Ends, InWait
  <2>2. CASE u # t
    <3>1. u \notin LockUsers(d)
      BY <1>2, <2>2 DEF TablesInv, LockAlone, AtMostOne
    <3> QED
      BY <1>2, <2>2, <3>1 DEF LockUsers, Calls, TablesInv, CallFits, Ends, Moves
  <2> QED
    BY <2>1, <2>2
<1>7. ASSUME l.toBeDeleted
      PROVE  LockEmpty(d)
  <2>1. d \notin crowdedLocks
    BY <1>7 DEF TablesInv, Doomed, DoomedLock
  <2>2. lockEntries'[d] = NoLock
    BY <1>2, <1>7, Typed
  <2> QED
    BY <1>6, <2>1, <2>2 DEF LockEmpty
<1>8. ASSUME ~l.toBeDeleted
      PROVE  LockSame(d)
  <2>1. lockEntries'[d] = [l EXCEPT !.claimed = FALSE]
    BY <1>2, <1>8, Typed
  <2>2. /\ lockEntries'[d].bit = l.bit /\ lockEntries'[d].owner = l.owner
        /\ lockEntries'[d].queue = l.queue /\ lockEntries'[d].toBeDeleted = l.toBeDeleted
    BY <2>1, Typed DEF LockType
  <2>3. d \notin crowdedLocks => LockMarked(d)'
    BY <1>6 DEF LockIdle, LockMarked
  <2> QED
    BY <1>8, <2>2, <2>3 DEF LockSame
<1>9. \A c \in CVIndex : CVSame(c)
  BY <1>2, SameEntries
<1>10. LockSame(d) \/ LockEmpty(d)
  BY <1>7, <1>8
<1> QED
  BY <1>2, <1>4, <1>5, <1>9, <1>10, EndKept

\* Acquire and Release of an index without a lock.
LEMMA NoSuchLockKept ==
    ASSUME TablesInv, NEW t \in Thread, AcquireEntry(t) \/ ReleaseLock(t),
           ~lockEntries[call[t].lock].bit
    PROVE  Kept
<1>1. /\ pc[t] = "body" /\ pc' = [pc EXCEPT ![t] = "user"]
      /\ call' = [call EXCEPT ![t] = NoCall]
      /\ table' = table /\ lockEntries' = lockEntries /\ cvEntries' = cvEntries /\ held' = held
  BY DEF AcquireEntry, ReleaseLock, InBody
<1>2. ManagerTypeOK'
  BY <1>1, Typed, TypedNext, NothingTyped DEF Place
<1>3. Quiet(t)
  BY <1>1, Typed DEF Quiet, Moves, Continues
<1> QED
  BY <1>2, <1>3, QuietKept

-----------------------------------------------------------------------------
(* Steps of one thread with one lock and one condition variable *)

\* What the step leaves alone of entries other than d.
OthersSame(t, d) ==
    /\ Moves(t)
    /\ call'[t] \in {call[t], NoCall}
    /\ pc[t] # "asleep"
    /\ pc[t] \in {"acquire", "awake"} => call[t].lock = d
    /\ pc'[t] \in {"acquire", "claim"} \cup InWait => call'[t].lock = d
    /\ \A i \in LockIndex \ {d} :
         lockEntries'[i] = lockEntries[i] /\ (i \in held'[t] <=> i \in held[t])
    /\ lockEntries'[d].bit = lockEntries[d].bit
    /\ lockEntries'[d].toBeDeleted = lockEntries[d].toBeDeleted

\* The condition variables are as before, or have a waiter and a mark more.
CVKept(c) ==
    /\ CVQueue(c)'
    /\ cvEntries'[c].bit = cvEntries[c].bit
    /\ cvEntries'[c].toBeDeleted = cvEntries[c].toBeDeleted
    /\ Range(cvEntries[c].waiters) \subseteq Range(cvEntries'[c].waiters)
    /\ c \notin crowdedCVs => CVMarked(c)'

\* Nobody else loses the lock.
OwnersKept(t, d) ==
    \A u \in Thread \ {t} :
        d \in held[u] \/ (pc[u] = "claim" /\ call[u].lock = d) => lockEntries'[d].owner = u

\* A step of t that keeps what the others have, and whose own part is right.
LEMMA StepKept ==
    ASSUME TablesInv, NEW t \in Thread, NEW d \in LockIndex,
           ManagerTypeOK', OthersSame(t, d), OwnersKept(t, d),
           CallFits(t)', LockQueue(d)', InTables(t)',
           LockUsers(d)' \subseteq LockUsers(d),
           d \notin crowdedLocks => LockMarked(d)',
           \A c \in CVIndex : CVKept(c)
    PROVE  Kept
<1>1. \A u \in Thread \ {t} : call'[u] = call[u] /\ pc'[u] = pc[u] /\ held'[u] = held[u]
  BY DEF OthersSame, Moves
<1>2. IsFiniteSet(Busy)'
  BY <1>1, StillFew
<1>3. \A u \in Thread : CallFits(u)'
  BY <1>1 DEF TablesInv, CallFits
<1>4. \A i \in LockIndex : LockQueue(i)'
  BY SameQueue DEF OthersSame
<1>5. \A u \in Thread : InTables(u)'
  <2> SUFFICES ASSUME NEW u \in Thread \ {t} PROVE InTables(u)'
    OBVIOUS
  <2>1. InTables(u) /\ CallFits(u)
    BY DEF TablesInv
  <2>2. \A i \in held[u] : lockEntries'[i].bit /\ lockEntries'[i].owner = u
    <3> TAKE i \in held[u]
    <3>1. i \in LockIndex
      BY Typed
    <3> QED
      BY <2>1, <3>1 DEF InTables, OthersSame, OwnersKept
  <2>3. pc[u] \in {"acquire", "claim"} \cup InWait =>
          lockEntries'[call[u].lock].bit = lockEntries[call[u].lock].bit
    BY <2>1 DEF CallFits, PairOps, OthersSame
  <2>4. pc[u] = "claim" => lockEntries'[call[u].lock].owner = u
    BY <2>1 DEF CallFits, InTables, OthersSame, OwnersKept
  <2>5. pc[u] \in InWait => /\ call[u].cv \in CVIndex
                            /\ cvEntries'[call[u].cv].bit = cvEntries[call[u].cv].bit
    BY <2>1 DEF CallFits, PairOps, CVKept
  <2>6. pc[u] = "asleep" => u \in Range(cvEntries'[call[u].cv].waiters)
    BY <2>1, <2>5 DEF InTables, InWait, CVKept
  <2> QED
    BY <1>1, <2>1, <2>2, <2>3, <2>4, <2>5, <2>6 DEF InTables, InWait
<1>6. \A i \in LockIndex : LockUsers(i)' \subseteq LockUsers(i)
  <2> TAKE i \in LockIndex
  <2>1. CASE i = d
    BY <2>1
  <2>2. CASE i # d
    <3>1. \A u \in Thread : i \in held'[u] => i \in held[u]
      BY <1>1, <2>2 DEF OthersSame
    <3>2. \A u \in Thread : call'[u] = call[u] \/ call'[u] = NoCall
      BY <1>1 DEF OthersSame
    <3>3. lockEntries'[i] = lockEntries[i]
      BY <2>2 DEF OthersSame
    <3> QED
      BY <3>1, <3>2, <3>3 DEF LockUsers, Calls, NoCall
  <2> QED
    BY <2>1, <2>2
<1>7. \A u \in Thread : call'[u] = call[u] \/ call'[u] = NoCall
  BY <1>1 DEF OthersSame
<1>8. \A c \in CVIndex : CVUsers(c)' \subseteq CVUsers(c)
  BY <1>7 DEF CVUsers, Calls, NoCall
<1>9. \A i \in LockIndex : DoomedLock(i)' => DoomedLock(i)
  <2> TAKE i \in LockIndex
  <2>1. lockEntries'[i].toBeDeleted = lockEntries[i].toBeDeleted
    BY DEF OthersSame
  <2> QED
    BY <1>7, <2>1 DEF DoomedLock, Calls, NoCall
<1>10. \A c \in CVIndex : DoomedCV(c)' => DoomedCV(c)
  BY <1>7 DEF DoomedCV, Calls, NoCall, CVKept
<1>11. \A i \in LockIndex : i \notin crowdedLocks => LockMarked(i)'
  <2> SUFFICES ASSUME NEW i \in LockIndex \ {d}, i \notin crowdedLocks
               PROVE  LockMarked(i)'
    OBVIOUS
  <2>1. LockMarked(i)
    BY DEF TablesInv, LockAlone
  <2>2. lockEntries'[i] = lockEntries[i] /\ (i \in held'[t] <=> i \in held[t])
    BY DEF OthersSame
  <2>3. ~(pc'[t] \in {"acquire", "claim"} \cup InWait /\ call'[t].lock = i)
    BY DEF OthersSame
  <2> QED
    BY <1>1, <2>1, <2>2, <2>3 DEF LockMarked
<1> QED
  BY <1>2, <1>3, <1>4, <1>5, <1>6, <1>8, <1>9, <1>10, <1>11 DEF Kept, CVKept

LEMMA SameCVs ==
    ASSUME TablesInv, NEW t \in Thread, Moves(t), pc[t] # "asleep",
           pc'[t] \in InWait => pc[t] \in InWait /\ call'[t] = call[t],
           NEW c \in CVIndex, cvEntries'[c] = cvEntries[c]
    PROVE  CVKept(c)
<1>1. CVQueue(c)'
  BY SameWaiters
<1>2. c \notin crowdedCVs => CVMarked(c)'
  BY DEF TablesInv, CVAlone, CVMarked, Moves
<1> QED
  BY <1>1, <1>2 DEF CVKept

\* SynchManager::Acquire of an index with a lock: the entry is marked as to be
\* used before anybody can destroy it.
LEMMA AcquireEntryKept ==
    ASSUME TablesInv, NEW t \in Thread, AcquireEntry(t), lockEntries[call[t].lock].bit
    PROVE  Kept
<1>1. PICK d \in LockIndex : d = call[t].lock
  BY DEF AcquireEntry, InBody, TablesInv, CallFits
<1>2. /\ pc[t] = "body" /\ call[t].op = "Acquire"
      /\ lockEntries' = [lockEntries EXCEPT ![d].toBeUsed = TRUE]
      /\ Give(t, "lock", "acquire") /\ cvEntries' = cvEntries /\ held' = held
  BY <1>1 DEF AcquireEntry, InBody
<1>3. call' = call /\ pc' = [pc EXCEPT ![t] = "acquire"]
  BY <1>2 DEF Give
<1>4. ManagerTypeOK'
  <2>1. lockEntries' \in [LockIndex -> LockType]
    <3>1. [lockEntries[d] EXCEPT !.toBeUsed = TRUE] \in LockType
      BY Typed, MarkTyped
    <3> QED
      BY <1>2, <3>1, Typed
  <2> QED
    BY <1>2, <2>1, GiveTyped, Typed, TypedNext DEF Table, Place
<1>5. \A i \in LockIndex \ {d} : lockEntries'[i] = lockEntries[i]
  BY <1>2, Typed
<1>6. /\ lockEntries'[d].bit = lockEntries[d].bit
      /\ lockEntries'[d].owner = lockEntries[d].owner
      /\ lockEntries'[d].queue = lockEntries[d].queue
      /\ lockEntries'[d].toBeDeleted = lockEntries[d].toBeDeleted
      /\ lockEntries'[d].claimed = lockEntries[d].claimed
      /\ lockEntries'[d].toBeUsed
  BY <1>2, Typed DEF LockType
<1>7. OthersSame(t, d)
  BY <1>1, <1>2, <1>3, <1>5, <1>6, Typed DEF OthersSame, Moves
<1>8. OwnersKept(t, d)
  BY <1>6 DEF OwnersKept, TablesInv, InTables
<1>9. CallFits(t)'
  BY <1>2, <1>3, Typed DEF TablesInv, CallFits, InWait
<1>10. LockQueue(d)'
  BY <1>2, <1>6, <1>7, SameQueue DEF OthersSame
<1>11. InTables(t)'
  <2>1. InTables(t)
    BY DEF TablesInv
  <2>2. \A i \in held[t] : i \in LockIndex
    BY Typed
  <2> QED
    BY <1>1, <1>2, <1>3, <1>5, <1>6, <2>1, <2>2, Typed DEF InTables, AcquireEntry, InWait
<1>12. LockUsers(d)' \subseteq LockUsers(d)
  BY <1>2, <1>3, <1>6 DEF LockUsers, Calls
<1>13. d \notin crowdedLocks => LockMarked(d)'
  BY <1>2, <1>3, <1>6, Typed DEF TablesInv, LockAlone, LockMarked, InWait
<1>14. \A c \in CVIndex : CVKept(c)
  BY <1>2, <1>3, <1>7, SameCVs, Typed DEF OthersSame, InWait
<1> QED
  BY <1>4, <1>7, <1>8, <1>9, <1>10, <1>11, <1>12, <1>13, <1>14, StepKept

\* Lock::Acquire in a call of Acquire or Wait.
LEMMA TakeLockKept ==
    ASSUME TablesInv, NEW t \in Thread, AcquireLock(t) \/ WaitLock(t)
    PROVE  Kept
<1>1. PICK at \in {"acquire", "awake"}, next \in {"claim", "waited"} :
        TakeLock(t, at, next) /\ (at = "acquire" <=> next = "claim")
  BY DEF AcquireLock, WaitLock
<1>2. PICK d \in LockIndex : d = call[t].lock
  BY <1>1 DEF TakeLock, TablesInv, CallFits, InWait, PairOps
<1> DEFINE l == lockEntries[d]
<1>3. /\ pc[t] = at /\ table' = table /\ cvEntries' = cvEntries /\ call' = call /\ held' = held
      /\ CallFits(t) /\ InTables(t) /\ LockQueue(d)
  BY <1>1 DEF TakeLock, TablesInv
<1>4. \/ /\ l.owner \in {NULL, t}
         /\ lockEntries' = [lockEntries EXCEPT ![d].owner = t]
         /\ pc' = [pc EXCEPT ![t] = next]
      \/ /\ l.owner \notin {NULL, t} /\ t \notin Range(l.queue)
         /\ lockEntries' = [lockEntries EXCEPT ![d].queue = Append(l.queue, t)]
         /\ pc' = pc
  <2>1. Blocks(l, t) => t \notin Range(l.queue)
    BY DEF Blocks, Range
  <2> QED
    BY <1>1, <1>2, <2>1 DEF TakeLock, Available, Blocks
<1>5. /\ l.queue \in Seq(Thread) /\ Append(l.queue, t) \in Seq(Thread)
      /\ l.owner \in Thread \cup {NULL}
  BY QueuedThreads, Typed DEF LockType
<1>6. ManagerTypeOK'
  <2>1. lockEntries' \in [LockIndex -> LockType]
    <3>1. [l EXCEPT !.owner = t] \in LockType
      BY Typed, MarkTyped
    <3>2. [l EXCEPT !.queue = Append(l.queue, t)] \in LockType
      BY <1>5, Typed, MarkTyped
    <3> QED
      BY <1>4, <3>1, <3>2, Typed
  <2>2. pc' \in [Thread -> Place]
    BY <1>4, Typed DEF Place
  <2> QED
    BY <1>3, <2>1, <2>2, Typed, TypedNext
<1>7. \A i \in LockIndex \ {d} : lockEntries'[i] = lockEntries[i]
  BY <1>4, Typed
<1>8. /\ lockEntries'[d].bit = l.bit
      /\ lockEntries'[d].toBeDeleted = l.toBeDeleted
      /\ lockEntries'[d].claimed = l.claimed
      /\ lockEntries'[d].toBeUsed = l.toBeUsed
      /\ \/ /\ l.owner \in {NULL, t} /\ lockEntries'[d].owner = t
            /\ lockEntries'[d].queue = l.queue /\ pc'[t] = next
         \/ /\ l.owner \notin {NULL, t} /\ lockEntries'[d].owner = l.owner
            /\ t \notin Range(l.queue)
            /\ lockEntries'[d].queue = Append(l.queue, t) /\ pc'[t] = at
  BY <1>3, <1>4, Typed DEF LockType
<1>9. Moves(t)
  BY <1>3, <1>4, Typed DEF Moves
<1>10. OthersSame(t, d)
  BY <1>2, <1>3, <1>7, <1>8, <1>9 DEF OthersSame
<1>11. OwnersKept(t, d)
  BY <1>8 DEF OwnersKept, TablesInv, InTables, Thread
<1>12. CallFits(t)'
  BY <1>1, <1>3, <1>8 DEF CallFits, InWait
<1>13. LockQueue(d)'
  <2>1. CASE /\ l.owner \in {NULL, t} /\ lockEntries'[d].owner = t
             /\ lockEntries'[d].queue = l.queue
    <3>1. t \notin Range(l.queue)
      BY <1>3, <2>1, EmptyQueue DEF LockQueue
    <3>2. \A w \in Range(l.queue) : w \in Thread \ {t}
      BY <3>1, QueuedThreads
    <3> QED
      BY <1>3, <1>9, <2>1, <3>1, <3>2 DEF LockQueue, Moves, Thread
  <2>2. CASE /\ l.owner \notin {NULL, t} /\ lockEntries'[d].owner = l.owner
             /\ t \notin Range(l.queue)
             /\ lockEntries'[d].queue = Append(l.queue, t) /\ pc'[t] = at
    <3>1. /\ Range(Append(l.queue, t)) = Range(l.queue) \cup {t}
          /\ IsInjective(Append(l.queue, t))
      BY <1>3, <1>5, <2>2, AppendQueue DEF LockQueue
    <3>2. \A w \in Range(l.queue) : w \in Thread \ {t}
      BY <2>2, QueuedThreads
    <3> QED
      BY <1>2, <1>3, <1>9, <2>2, <3>1, <3>2 DEF LockQueue, Moves
  <2> QED
    BY <1>8, <2>1, <2>2
<1>14. InTables(t)'
  <2>1. \A i \in held[t] : i \in LockIndex
    BY Typed
  <2>2. \A i \in held[t] : lockEntries'[i].bit /\ lockEntries'[i].owner = t
    BY <1>3, <1>7, <1>8, <2>1 DEF InTables
  <2> QED
    BY <1>1, <1>2, <1>3, <1>8, <2>2 DEF InTables, InWait
<1>15. LockUsers(d)' \subseteq LockUsers(d)
  <2>1. t \in LockUsers(d)
    BY <1>2, <1>3 DEF LockUsers, Calls, CallFits, InWait
  <2>2. \A u \in Thread \ {t} : lockEntries'[d].owner = u => lockEntries[d].owner = u
    BY <1>8
  <2> QED
    BY <1>3, <2>1, <2>2 DEF LockUsers, Calls
<1>16. d \notin crowdedLocks => LockMarked(d)'
  BY <1>1, <1>3, <1>8, <1>9 DEF TablesInv, LockAlone, LockMarked, InWait, Moves
<1>17. \A c \in CVIndex : CVKept(c)
  BY <1>1, <1>3, <1>8, <1>9, SameCVs DEF InWait
<1> QED
  BY <1>6, <1>10, <1>11, <1>12, <1>13, <1>14, <1>15, <1>16, <1>17, StepKept

\* Acquire marks the entry as owned, and takes the other mark away: if another
\* thread wants the lock too, it is crowded.
LEMMA AcquireClaimKept ==
    ASSUME TablesInv, NEW t \in Thread, AcquireClaim(t)
    PROVE  Kept
<1>1. PICK d \in LockIndex : d = call[t].lock
  BY DEF AcquireClaim, TablesInv, CallFits
<1>2. /\ pc[t] = "claim"
      /\ lockEntries' = [lockEntries EXCEPT ![d].claimed = TRUE, ![d].toBeUsed = FALSE]
      /\ held' = [held EXCEPT ![t] = @ \cup {d}]
      /\ pc' = [pc EXCEPT ![t] = "user"] /\ call' = [call EXCEPT ![t] = NoCall]
      /\ table' = table /\ cvEntries' = cvEntries
      /\ CallFits(t) /\ InTables(t) /\ LockQueue(d)
  BY <1>1 DEF AcquireClaim, TablesInv
<1>3. ManagerTypeOK'
  <2>1. [lockEntries[d] EXCEPT !.claimed = TRUE, !.toBeUsed = FALSE] \in LockType
    BY Typed, MarkTyped
  <2>2. lockEntries' = [lockEntries EXCEPT
            ![d] = [lockEntries[d] EXCEPT !.claimed = TRUE, !.toBeUsed = FALSE]]
    BY <1>2, Typed
  <2>3. lockEntries' \in [LockIndex -> LockType]
    BY <2>1, <2>2, Typed
  <2>4. /\ held' \in [Thread -> SUBSET LockIndex]
        /\ pc' \in [Thread -> Place]
        /\ call' \in [Thread -> CallType]
    BY <1>2, Typed, NothingTyped DEF Place
  <2> QED
    BY <1>2, <2>3, <2>4, Typed, TypedNext
<1>4. \A i \in LockIndex \ {d} : lockEntries'[i] = lockEntries[i]
  BY <1>2, Typed
<1>5. /\ lockEntries'[d].bit = lockEntries[d].bit
      /\ lockEntries'[d].owner = lockEntries[d].owner
      /\ lockEntries'[d].queue = lockEntries[d].queue
      /\ lockEntries'[d].toBeDeleted = lockEntries[d].toBeDeleted
      /\ lockEntries'[d].claimed
  BY <1>2, Typed DEF LockType
<1>6. Moves(t) /\ pc'[t] = "user" /\ call'[t] = NoCall /\ held'[t] = held[t] \cup {d}
  BY <1>2, Typed DEF Moves
<1>7. OthersSame(t, d)
  BY <1>2, <1>4, <1>5, <1>6 DEF OthersSame, InWait
<1>8. OwnersKept(t, d)
  BY <1>5 DEF OwnersKept, TablesInv, InTables
<1>9. CallFits(t)'
  BY <1>6 DEF CallFits, InWait, NoCall, PairOps
<1>10. LockQueue(d)'
  BY <1>2, <1>5, <1>6, SameQueue
<1>11. InTables(t)'
  <2>1. \A i \in held[t] : i \in LockIndex
    BY Typed
  <2>3. lockEntries[d].bit /\ lockEntries[d].owner = t
    BY <1>1, <1>2 DEF InTables
  <2>4. \A i \in held[t] : lockEntries[i].bit /\ lockEntries[i].owner = t
    BY <1>2 DEF InTables
  <2>2. \A i \in held'[t] : lockEntries'[i].bit /\ lockEntries'[i].owner = t
    BY <1>4, <1>5, <1>6, <2>1, <2>3, <2>4
  <2> QED
    BY <1>6, <2>2 DEF InTables, InWait, NoCall
<1>12. t \in LockUsers(d)
  BY <1>1, <1>2 DEF LockUsers, Calls, CallFits
<1>13. LockUsers(d)' \subseteq LockUsers(d)
  <2>1. \A u \in Thread \ {t} : u \in LockUsers(d)' => u \in LockUsers(d)
    BY <1>5, <1>6 DEF LockUsers, Calls, Moves
  <2> QED
    BY <1>12, <2>1 DEF LockUsers
<1>14. d \notin crowdedLocks => LockMarked(d)'
  <2> SUFFICES ASSUME d \notin crowdedLocks, NEW u \in Thread,
                      pc'[u] \in {"acquire", "claim"}, call'[u].lock = d
               PROVE  FALSE
    BY <1>5 DEF LockMarked
  <2>1. u # t /\ pc[u] = pc'[u] /\ call[u] = call'[u]
    BY <1>6 DEF Moves
  <2>2. u \in LockUsers(d)
    BY <2>1 DEF TablesInv, CallFits, LockUsers, Calls
  <2> QED
    BY <1>12, <2>1, <2>2 DEF TablesInv, LockAlone, AtMostOne
<1>15. \A c \in CVIndex : CVKept(c)
  BY <1>2, <1>6, SameCVs DEF InWait
<1> QED
  BY <1>3, <1>7, <1>8, <1>9, <1>10, <1>11, <1>13, <1>14, <1>15, StepKept

\* Lock::Release hands the lock to a thread that waits for it.
LEMMA ReleasedKeeps ==
    ASSUME TablesInv, NEW t \in Thread, NEW d \in LockIndex, Moves(t),
           pc[t] \notin {"acquire", "awake"},
           lockEntries'[d] = Released(lockEntries[d], t)
    PROVE  /\ lockEntries'[d].bit = lockEntries[d].bit
           /\ lockEntries'[d].claimed = lockEntries[d].claimed
           /\ lockEntries'[d].toBeUsed = lockEntries[d].toBeUsed
           /\ lockEntries'[d].toBeDeleted = lockEntries[d].toBeDeleted
           /\ LockQueue(d)'
           /\ \A u \in Thread : lockEntries'[d].owner = u => u \in LockUsers(d)
           /\ OwnersKept(t, d)
<1> DEFINE l == lockEntries[d]
<1>1. l \in LockType /\ LockQueue(d) /\ l.queue \in Seq(Thread) /\ Range(l.queue) \subseteq Thread
  BY Typed, QueuedThreads DEF TablesInv
<1>2. \A w \in Range(l.queue) :
        /\ w \in Thread \ {t}
        /\ pc'[w] = pc[w] /\ call'[w] = call[w]
        /\ pc[w] \in {"acquire", "awake"} /\ call[w].lock = d
  BY <1>1 DEF LockQueue, Moves
<1>3. \A w \in Range(l.queue) : w \in LockUsers(d)
  BY <1>2 DEF LockUsers, Calls, TablesInv, CallFits, InWait
<1>4. \A u \in Thread : l.owner = u => u \in LockUsers(d)
  BY DEF LockUsers
<1>5. OwnersKept(t, d)
  <2> SUFFICES ASSUME NEW u \in Thread \ {t},
                      d \in held[u] \/ (pc[u] = "claim" /\ call[u].lock = d)
               PROVE  lockEntries'[d].owner = u
    BY DEF OwnersKept
  <2>1. l.owner = u
    BY DEF TablesInv, InTables
  <2> QED
    BY <2>1 DEF Released
<1>6. CASE l.owner # t
  <2>1. lockEntries'[d] = l
    BY <1>6 DEF Released
  <2>2. LockQueue(d)'
    BY <2>1, SameQueue
  <2> QED
    BY <1>4, <1>5, <2>1, <2>2
<1>7. CASE l.owner = t /\ l.queue = <<>>
  <2>1. lockEntries'[d] = [l EXCEPT !.owner = NULL]
    BY <1>7 DEF Released
  <2>2. /\ lockEntries'[d].bit = l.bit /\ lockEntries'[d].claimed = l.claimed
        /\ lockEntries'[d].toBeUsed = l.toBeUsed /\ lockEntries'[d].toBeDeleted = l.toBeDeleted
        /\ lockEntries'[d].owner = NULL /\ lockEntries'[d].queue = <<>>
    BY <1>1, <1>7, <2>1 DEF LockType
  <2>3. LockQueue(d)'
    BY <2>2, EmptyQueue DEF LockQueue
  <2> QED
    BY <1>5, <2>2, <2>3 DEF Thread
<1>8. CASE l.owner = t /\ l.queue # <<>>
  <2>1. lockEntries'[d] = [l EXCEPT !.owner = Head(l.queue), !.queue = Tail(l.queue)]
    BY <1>8 DEF Released
  <2>2. /\ Head(l.queue) \in Range(l.queue) /\ IsInjective(Tail(l.queue))
        /\ Range(Tail(l.queue)) = Range(l.queue) \ {Head(l.queue)}
    BY <1>1, <1>8, RemoveQueue DEF LockQueue
  <2>3. /\ lockEntries'[d].bit = l.bit /\ lockEntries'[d].claimed = l.claimed
        /\ lockEntries'[d].toBeUsed = l.toBeUsed /\ lockEntries'[d].toBeDeleted = l.toBeDeleted
        /\ lockEntries'[d].owner = Head(l.queue) /\ lockEntries'[d].queue = Tail(l.queue)
    BY <1>1, <2>1 DEF LockType
  <2>4. Head(l.queue) # NULL
    BY <1>2, <2>2 DEF Thread
  <2>5. LockQueue(d)'
    BY <1>2, <2>2, <2>3, <2>4 DEF LockQueue
  <2> QED
    BY <1>3, <1>5, <2>2, <2>3, <2>5
<1> QED
  BY <1>6, <1>7, <1>8

\* SynchManager::Release of an index with a lock.
LEMMA ReleaseLockKept ==
    ASSUME TablesInv, NEW t \in Thread, ReleaseLock(t), lockEntries[call[t].lock].bit
    PROVE  Kept
<1>1. PICK d \in LockIndex : d = call[t].lock
  BY DEF ReleaseLock, InBody, TablesInv, CallFits
<1>2. /\ pc[t] = "body" /\ call[t].op = "Release"
      /\ lockEntries' = [lockEntries EXCEPT ![d] = Released(lockEntries[d], t)]
      /\ held' = [held EXCEPT ![t] = @ \ {d}]
      /\ pc' = [pc EXCEPT ![t] = "unclaim"]
      /\ call' = call /\ table' = table /\ cvEntries' = cvEntries
      /\ InTables(t)
  BY <1>1 DEF ReleaseLock, InBody, TablesInv
<1>3. ManagerTypeOK'
  <2>1. Released(lockEntries[d], t) \in LockType
    BY Typed, ReleasedTyped
  <2>2. /\ lockEntries' \in [LockIndex -> LockType]
        /\ held' \in [Thread -> SUBSET LockIndex]
        /\ pc' \in [Thread -> Place]
    BY <1>2, <2>1, Typed DEF Place
  <2> QED
    BY <1>2, <2>2, Typed, TypedNext
<1>4. Moves(t) /\ pc'[t] = "unclaim" /\ held'[t] = held[t] \ {d}
  BY <1>2, Typed DEF Moves
<1>5. /\ lockEntries'[d] = Released(lockEntries[d], t)
      /\ \A i \in LockIndex \ {d} : lockEntries'[i] = lockEntries[i]
  BY <1>2, Typed
<1>6. /\ lockEntries'[d].bit = lockEntries[d].bit
      /\ lockEntries'[d].claimed = lockEntries[d].claimed
      /\ lockEntries'[d].toBeUsed = lockEntries[d].toBeUsed
      /\ lockEntries'[d].toBeDeleted = lockEntries[d].toBeDeleted
      /\ LockQueue(d)'
      /\ \A u \in Thread : lockEntries'[d].owner = u => u \in LockUsers(d)
      /\ OwnersKept(t, d)
  BY <1>2, <1>4, <1>5, ReleasedKeeps
<1>7. OthersSame(t, d)
  BY <1>2, <1>4, <1>5, <1>6 DEF OthersSame, InWait
<1>8. CallFits(t)'
  BY <1>1, <1>2, <1>4 DEF CallFits, InWait, PairOps
<1>9. InTables(t)'
  <2>1. \A i \in held[t] : i \in LockIndex
    BY Typed
  <2>2. \A i \in held'[t] : lockEntries'[i].bit /\ lockEntries'[i].owner = t
    BY <1>2, <1>4, <1>5, <2>1 DEF InTables
  <2> QED
    BY <1>1, <1>2, <1>4, <2>2 DEF InTables, InWait
<1>10. LockUsers(d)' \subseteq LockUsers(d)
  BY <1>2, <1>4, <1>6 DEF LockUsers, Calls, Moves
<1>11. d \notin crowdedLocks => LockMarked(d)'
  BY <1>2, <1>4, <1>6 DEF TablesInv, LockAlone, LockMarked, InWait, Moves
<1>12. \A c \in CVIndex : CVKept(c)
  BY <1>2, <1>4, SameCVs DEF InWait
<1> QED
  BY <1>3, <1>6, <1>7, <1>8, <1>9, <1>10, <1>11, <1>12, StepKept

-----------------------------------------------------------------------------
(* Wait, Signal and Broadcast *)

\* SynchManager::Wait with two valid indices marks the condition variable; the
\* lock has its mark, as the caller holds it.
LEMMA WaitEntryKept ==
    ASSUME TablesInv, NEW t \in Thread, WaitEntry(t)
    PROVE  Kept
<1>1. CASE ~BothValid(t)
  <2>1. /\ pc[t] = "body" /\ Give(t, "lock", "leave")
        /\ lockEntries' = lockEntries /\ cvEntries' = cvEntries /\ held' = held
    BY <1>1 DEF WaitEntry, InBody
  <2>2. ManagerTypeOK'
    BY <2>1, GiveTyped, Typed, TypedNext DEF Table, Place
  <2>3. Quiet(t)
    BY <2>1, Typed DEF Give, Quiet, Moves, Continues
  <2> QED
    BY <2>2, <2>3, QuietKept
<1>2. CASE BothValid(t)
  <2>1. PICK d \in LockIndex, e \in CVIndex : d = call[t].lock /\ e = call[t].cv
    BY DEF WaitEntry, InBody, TablesInv, CallFits, PairOps
  <2>2. /\ pc[t] = "body" /\ call[t].op = "Wait" /\ Give(t, "lock", "enterWait")
        /\ cvEntries' = [cvEntries EXCEPT ![e].toBeUsed = TRUE]
        /\ lockEntries' = lockEntries /\ held' = held
        /\ lockEntries[d].bit /\ cvEntries[e].bit
        /\ InTables(t)
    BY <1>2, <2>1 DEF WaitEntry, InBody, BothValid, TablesInv
  <2>3. call' = call /\ pc'[t] = "enterWait" /\ Moves(t)
    BY <2>2, Typed DEF Give, Moves
  <2>4. ManagerTypeOK'
    <3>1. [cvEntries[e] EXCEPT !.toBeUsed = TRUE] \in CVType
      BY Typed, MarkTyped
    <3>2. cvEntries' \in [CVIndex -> CVType]
      BY <2>2, <3>1, Typed
    <3> QED
      BY <2>2, <3>2, GiveTyped, Typed, TypedNext DEF Table, Place
  <2>5. /\ \A c \in CVIndex \ {e} : cvEntries'[c] = cvEntries[c]
        /\ cvEntries'[e].bit = cvEntries[e].bit
        /\ cvEntries'[e].waiters = cvEntries[e].waiters
        /\ cvEntries'[e].toBeDeleted = cvEntries[e].toBeDeleted
        /\ cvEntries'[e].toBeUsed
    BY <2>2, Typed DEF CVType
  <2>6. OthersSame(t, d)
    BY <2>1, <2>2, <2>3 DEF OthersSame
  <2>7. OwnersKept(t, d)
    BY <2>2 DEF OwnersKept, TablesInv, InTables
  <2>8. CallFits(t)'
    BY <2>1, <2>2, <2>3 DEF CallFits, InWait, PairOps
  <2>9. LockQueue(d)'
    BY <2>2, <2>3, SameQueue
  <2>10. InTables(t)'
    BY <2>1, <2>2, <2>3, <2>5 DEF InTables, InWait
  <2>11. LockUsers(d)' \subseteq LockUsers(d)
    BY <2>2, <2>3 DEF LockUsers, Calls
  <2>12. d \notin crowdedLocks => LockMarked(d)'
    <3>1. d \in held[t]
      BY <2>1, <2>2 DEF InTables
    <3> QED
      BY <2>2, <2>3, <3>1 DEF TablesInv, LockAlone, LockMarked, InWait, Moves
  <2>13. \A c \in CVIndex : CVKept(c)
    <3> TAKE c \in CVIndex
    <3>1. CVQueue(c)'
      BY <2>2, <2>3, <2>5, SameWaiters
    <3>2. c \notin crowdedCVs => CVMarked(c)'
      <4>1. CASE c = e
        BY <2>5, <4>1 DEF CVMarked
      <4>2. CASE c # e
        BY <2>1, <2>3, <2>5, <4>2 DEF TablesInv, CVAlone, CVMarked, Moves
      <4> QED
        BY <4>1, <4>2
    <3> QED
      BY <2>5, <3>1, <3>2 DEF CVKept
  <2> QED
    BY <2>4, <2>6, <2>7, <2>8, <2>9, <2>10, <2>11, <2>12, <2>13, StepKept
<1> QED
  BY <1>1, <1>2

\* Condition::Wait puts the caller into the queue and hands the lock on, or
\* returns if the waiters use another lock.
LEMMA WaitSleepKept ==
    ASSUME TablesInv, NEW t \in Thread, WaitSleep(t)
    PROVE  Kept
<1>1. PICK d \in LockIndex, e \in CVIndex : d = call[t].lock /\ e = call[t].cv
  BY DEF WaitSleep, TablesInv, CallFits, PairOps, InWait
<1> DEFINE v == cvEntries[e]
           own == v.lock \in {NULL, d}
<1>2. /\ pc[t] = "wait" /\ call[t].op = "Wait"
      /\ cvEntries' = [cvEntries EXCEPT ![e].claimed = TRUE,
                          ![e].lock = IF own THEN d ELSE @,
                          ![e].waiters = IF own THEN Append(@, t) ELSE @]
      /\ lockEntries' = [lockEntries EXCEPT ![d] = IF own THEN Released(@, t) ELSE @]
      /\ held' = [held EXCEPT ![t] = IF own THEN @ \ {d} ELSE @]
      /\ pc' = [pc EXCEPT ![t] = IF own THEN "asleep" ELSE "waited"]
      /\ call' = call /\ table' = table
      /\ InTables(t) /\ CallFits(t) /\ LockQueue(d) /\ CVQueue(e)
  BY <1>1 DEF WaitSleep, TablesInv, CallFits, InWait
<1>3. /\ v \in CVType /\ v.waiters \in Seq(Thread)
      /\ Append(v.waiters, t) \in Seq(Thread)
  BY Typed, QueuedThreads
<1>4. Moves(t) /\ pc'[t] = IF own THEN "asleep" ELSE "waited"
  BY <1>2, Typed DEF Moves
<1>5. /\ \A c \in CVIndex \ {e} : cvEntries'[c] = cvEntries[c]
      /\ cvEntries'[e].bit = v.bit
      /\ cvEntries'[e].waiters = IF own THEN Append(v.waiters, t) ELSE v.waiters
      /\ cvEntries'[e].toBeDeleted = v.toBeDeleted
      /\ cvEntries'[e].toBeUsed = v.toBeUsed
  BY <1>2, <1>3, Typed DEF CVType
<1>6. /\ \A i \in LockIndex \ {d} : lockEntries'[i] = lockEntries[i]
      /\ lockEntries'[d] = IF own THEN Released(lockEntries[d], t) ELSE lockEntries[d]
      /\ held'[t] = IF own THEN held[t] \ {d} ELSE held[t]
  BY <1>2, Typed
<1>7. ManagerTypeOK'
  <2>1. Released(lockEntries[d], t) \in LockType
    BY Typed, ReleasedTyped
  <2>2. lockEntries' \in [LockIndex -> LockType]
    BY <1>2, <2>1, Typed
  <2>3. [v EXCEPT !.claimed = TRUE, !.lock = IF own THEN d ELSE @,
                  !.waiters = IF own THEN Append(@, t) ELSE @] \in CVType
    BY <1>3 DEF CVType
  <2>4. cvEntries' = [cvEntries EXCEPT ![e] =
            [v EXCEPT !.claimed = TRUE, !.lock = IF own THEN d ELSE @,
                      !.waiters = IF own THEN Append(@, t) ELSE @]]
    BY <1>2, <1>3, Typed DEF CVType
  <2>5. cvEntries' \in [CVIndex -> CVType]
    BY <2>3, <2>4, Typed
  <2>6. held' \in [Thread -> SUBSET LockIndex] /\ pc' \in [Thread -> Place]
    BY <1>2, Typed DEF Place
  <2> QED
    BY <1>2, <2>2, <2>5, <2>6, Typed, TypedNext
<1>8. /\ lockEntries'[d].bit = lockEntries[d].bit
      /\ lockEntries'[d].claimed = lockEntries[d].claimed
      /\ lockEntries'[d].toBeUsed = lockEntries[d].toBeUsed
      /\ lockEntries'[d].toBeDeleted = lockEntries[d].toBeDeleted
      /\ LockQueue(d)'
      /\ \A u \in Thread : lockEntries'[d].owner = u => u \in LockUsers(d)
      /\ OwnersKept(t, d)
  <2>1. CASE own
    BY <1>2, <1>4, <1>6, <2>1, ReleasedKeeps
  <2>2. CASE ~own
    <3>1. LockQueue(d)'
      BY <1>2, <1>4, <1>6, <2>2, SameQueue
    <3>2. \A u \in Thread : lockEntries[d].owner = u => u \in LockUsers(d)
      BY DEF LockUsers
    <3>3. OwnersKept(t, d)
      BY <1>6, <2>2 DEF OwnersKept, TablesInv, InTables
    <3> QED
      BY <1>6, <2>2, <3>1, <3>2, <3>3
  <2> QED
    BY <2>1, <2>2
<1>9. OthersSame(t, d)
  <2>1. \A i \in LockIndex \ {d} : i \in held'[t] <=> i \in held[t]
    BY <1>6
  <2>2. pc[t] = "wait" /\ call'[t] = call[t] /\ call'[t].lock = d
    BY <1>1, <1>2
  <2>3. \A i \in LockIndex \ {d} : lockEntries'[i] = lockEntries[i]
    BY <1>6
  <2>4. /\ lockEntries'[d].bit = lockEntries[d].bit
        /\ lockEntries'[d].toBeDeleted = lockEntries[d].toBeDeleted
    BY <1>8
  <2> HIDE DEF own, v
  <2> QED
    BY <1>4, <2>1, <2>2, <2>3, <2>4 DEF OthersSame
<1>10. CallFits(t)'
  <2>1. pc'[t] \in {"asleep", "waited"}
    BY <1>4
  <2>2. call'[t] = call[t] /\ call[t].op = "Wait" /\ call[t].lock = d /\ call[t].cv = e
    BY <1>1, <1>2
  <2> QED
    BY <2>1, <2>2 DEF CallFits, InWait, PairOps
<1>11. \A w \in Range(v.waiters) : w \in Thread \ {t} /\ pc'[w] = pc[w] /\ call'[w] = call[w]
  BY <1>2, <1>4, QueuedThreads DEF CVQueue, Moves
<1>12. CVQueue(e)' /\ Range(v.waiters) \subseteq Range(cvEntries'[e].waiters)
       /\ (own => t \in Range(cvEntries'[e].waiters))
  <2>1. CASE own
    <3>1. /\ Range(Append(v.waiters, t)) = Range(v.waiters) \cup {t}
          /\ IsInjective(Append(v.waiters, t))
      BY <1>2, <1>3, <1>11, AppendQueue DEF CVQueue
    <3>2. cvEntries'[e].waiters = Append(v.waiters, t)
      BY <1>5, <2>1
    <3>3. call'[t].cv = e
      BY <1>1, <1>2
    <3>4. pc'[t] = "asleep"
      <4> HIDE DEF own
      <4> QED
        BY <1>4, <2>1
    <3>5. CVQueue(e)'
      <4>1. \A w \in Range(v.waiters) \cup {t} : pc'[w] = "asleep" /\ call'[w].cv = e
        BY <1>2, <1>11, <3>3, <3>4 DEF CVQueue
      <4> QED
        BY <3>1, <3>2, <4>1 DEF CVQueue
    <3> QED
      BY <3>1, <3>2, <3>5
  <2>2. CASE ~own
    <3>1. cvEntries'[e].waiters = v.waiters
      BY <1>5, <2>2
    <3> QED
      BY <1>2, <1>11, <2>2, <3>1 DEF CVQueue
  <2> QED
    BY <2>1, <2>2
<1>13. InTables(t)'
  <2>1. \A i \in held[t] : i \in LockIndex
    BY Typed
  <2>2. \A i \in held'[t] : lockEntries'[i].bit /\ lockEntries'[i].owner = t
    <3>1. CASE own
      BY <1>2, <1>6, <2>1, <3>1 DEF InTables
    <3>2. CASE ~own
      BY <1>2, <1>6, <2>1, <3>2 DEF InTables
    <3> QED
      BY <3>1, <3>2
  <2>3. lockEntries'[d].bit /\ cvEntries'[e].bit
    BY <1>1, <1>2, <1>5, <1>8 DEF InTables, InWait
  <2>4. call'[t].lock = d /\ call'[t].cv = e /\ pc'[t] \in {"asleep", "waited"}
    BY <1>1, <1>2, <1>4
  <2>5. pc'[t] = "asleep" => t \in Range(cvEntries'[e].waiters)
    BY <1>4, <1>12
  <2> HIDE DEF own, v
  <2> QED
    BY <2>2, <2>3, <2>4, <2>5 DEF InTables
<1>14. LockUsers(d)' \subseteq LockUsers(d)
  BY <1>2, <1>4, <1>6, <1>8 DEF LockUsers, Calls, Moves
<1>15. d \notin crowdedLocks => LockMarked(d)'
  <2>1. d \notin crowdedLocks => LockMarked(d)
    BY DEF TablesInv, LockAlone
  <2>2. \A u \in Thread : d \in held'[u] => d \in held[u]
    BY <1>4, <1>6 DEF Moves
  <2>3. \A u \in Thread : /\ pc'[u] \in {"acquire", "claim"} => pc[u] \in {"acquire", "claim"}
                          /\ pc'[u] \in InWait => pc[u] \in InWait
    BY <1>2, <1>4 DEF InWait, Moves
  <2> QED
    BY <1>2, <1>8, <2>1, <2>2, <2>3 DEF LockMarked
<1>16. \A c \in CVIndex : CVKept(c)
  <2> TAKE c \in CVIndex
  <2>1. CASE c # e
    BY <1>2, <1>4, <1>5, <2>1, SameCVs DEF InWait
  <2>2. CASE c = e
    <3>1. \A u \in Thread : pc'[u] \in InWait => pc[u] \in InWait
      BY <1>2, <1>4 DEF InWait, Moves
    <3>2. c \notin crowdedCVs => CVMarked(c)'
      BY <1>2, <1>5, <2>2, <3>1 DEF TablesInv, CVAlone, CVMarked
    <3> QED
      BY <1>5, <1>12, <2>2, <3>2 DEF CVKept
  <2> QED
    BY <2>1, <2>2
<1> QED
  BY <1>7, <1>8, <1>9, <1>10, <1>13, <1>14, <1>15, <1>16, StepKept

\* Wait ends when its caller has the lock again: the caller was the one user of
\* the condition variable, or that is crowded.
LEMMA WaitReturnKept ==
    ASSUME TablesInv, NEW t \in Thread, WaitReturn(t)
    PROVE  Kept
<1>1. PICK d \in LockIndex, e \in CVIndex : d = call[t].lock /\ e = call[t].cv
  BY DEF WaitReturn, TablesInv, CallFits, PairOps, InWait
<1>2. /\ pc[t] = "waited" /\ call[t].op = "Wait"
      /\ cvEntries' = [cvEntries EXCEPT ![e].claimed = FALSE, ![e].toBeUsed = FALSE]
      /\ held' = IF lockEntries[d].owner = t THEN [held EXCEPT ![t] = @ \cup {d}] ELSE held
      /\ pc' = [pc EXCEPT ![t] = "user"] /\ call' = [call EXCEPT ![t] = NoCall]
      /\ table' = table /\ lockEntries' = lockEntries
      /\ InTables(t) /\ lockEntries[d].bit
  BY <1>1 DEF WaitReturn, TablesInv, CallFits, InTables, InWait
<1>3. /\ Moves(t) /\ pc'[t] = "user" /\ call'[t] = NoCall
      /\ held'[t] = IF lockEntries[d].owner = t THEN held[t] \cup {d} ELSE held[t]
  BY <1>2, Typed DEF Moves
<1>4. /\ \A c \in CVIndex \ {e} : cvEntries'[c] = cvEntries[c]
      /\ cvEntries'[e].bit = cvEntries[e].bit
      /\ cvEntries'[e].waiters = cvEntries[e].waiters
      /\ cvEntries'[e].toBeDeleted = cvEntries[e].toBeDeleted
  BY <1>2, Typed DEF CVType
<1>5. ManagerTypeOK'
  <2>1. [cvEntries[e] EXCEPT !.claimed = FALSE, !.toBeUsed = FALSE] \in CVType
    BY Typed, MarkTyped
  <2>2. cvEntries' = [cvEntries EXCEPT
            ![e] = [cvEntries[e] EXCEPT !.claimed = FALSE, !.toBeUsed = FALSE]]
    BY <1>2, Typed
  <2>3. cvEntries' \in [CVIndex -> CVType]
    BY <2>1, <2>2, Typed
  <2>4. /\ held' \in [Thread -> SUBSET LockIndex]
        /\ pc' \in [Thread -> Place]
        /\ call' \in [Thread -> CallType]
    BY <1>2, Typed, NothingTyped DEF Place
  <2> QED
    BY <1>2, <2>3, <2>4, Typed, TypedNext
<1>6. OthersSame(t, d)
  <2>1. \A i \in LockIndex \ {d} : i \in held'[t] <=> i \in held[t]
    BY <1>3
  <2>2. pc[t] = "waited" /\ lockEntries' = lockEntries
    BY <1>2
  <2> QED
    BY <1>3, <2>1, <2>2 DEF OthersSame, InWait
<1>7. OwnersKept(t, d)
  BY <1>2 DEF OwnersKept, TablesInv, InTables
<1>8. CallFits(t)'
  BY <1>3 DEF CallFits, InWait, NoCall, PairOps
<1>9. LockQueue(d)'
  BY <1>2, <1>3, SameQueue
<1>10. InTables(t)'
  <2>1. \A i \in held[t] : lockEntries[i].bit /\ lockEntries[i].owner = t
    BY <1>2 DEF InTables
  <2>2. \A i \in held'[t] : lockEntries'[i].bit /\ lockEntries'[i].owner = t
    BY <1>2, <1>3, <2>1
  <2> QED
    BY <1>3, <2>2 DEF InTables, InWait, NoCall
<1>11. LockUsers(d)' \subseteq LockUsers(d)
  <2>1. t \in LockUsers(d)
    BY <1>1, <1>2 DEF LockUsers, Calls
  <2>2. \A u \in Thread \ {t} : u \in LockUsers(d)' => u \in LockUsers(d)
    BY <1>2, <1>3 DEF LockUsers, Calls, Moves
  <2> QED
    BY <2>1, <2>2 DEF LockUsers
<1>12. d \notin crowdedLocks => LockMarked(d)'
  <2> SUFFICES ASSUME d \notin crowdedLocks
               PROVE  LockMarked(d)'
    OBVIOUS
  <2>1. LockMarked(d)
    BY DEF TablesInv, LockAlone
  <2>2. lockEntries[d].claimed
    BY <1>1, <1>2, <2>1 DEF LockMarked, InWait
  <2> QED
    BY <1>2, <1>3, <2>1, <2>2 DEF LockMarked, Moves, InWait
<1>13. \A c \in CVIndex : CVKept(c)
  <2> TAKE c \in CVIndex
  <2>1. CASE c # e
    BY <1>2, <1>3, <1>4, <2>1, SameCVs DEF InWait
  <2>2. CASE c = e
    <3>1. CVQueue(e)'
      BY <1>2, <1>3, <1>4, SameWaiters
    <3>2. e \notin crowdedCVs => CVMarked(e)'
      <4> SUFFICES ASSUME e \notin crowdedCVs, NEW u \in Thread,
                          pc'[u] \in InWait, call'[u].cv = e
                   PROVE  FALSE
        BY DEF CVMarked
      <4>1. u # t /\ pc[u] = pc'[u] /\ call[u] = call'[u]
        BY <1>3 DEF Moves, InWait
      <4>2. u \in CVUsers(e) /\ t \in CVUsers(e)
        BY <1>1, <1>2, <4>1 DEF TablesInv, CallFits, CVUsers, Calls
      <4> QED
        BY <4>1, <4>2 DEF TablesInv, CVAlone, AtMostOne
    <3> QED
      BY <1>4, <2>2, <3>1, <3>2 DEF CVKept
  <2> QED
    BY <2>1, <2>2
<1> QED
  BY <1>5, <1>6, <1>7, <1>8, <1>9, <1>10, <1>11, <1>12, <1>13, StepKept

\* Signal and Broadcast move the first waiter, who stays in its call.
LEMMA WakeKept ==
    ASSUME TablesInv, NEW t \in Thread, InBody(t, "Signal") \/ InBody(t, "Broadcast"),
           CanWake(t), Wake(call[t].cv),
           NEW next \in {"body", "giveLock"},
           pc' = [pc EXCEPT ![t] = next,
                            ![Head(cvEntries[call[t].cv].waiters)] = "awake"],
           table' = table, lockEntries' = lockEntries, call' = call, held' = held
    PROVE  Kept
<1>1. PICK e \in CVIndex : e = call[t].cv
  BY DEF InBody, TablesInv, CallFits, PairOps
<1> DEFINE v == cvEntries[e]
<1>2. /\ pc[t] = "body" /\ call[t].op \in {"Signal", "Broadcast"}
      /\ v.waiters # <<>> /\ v.waiters \in Seq(Thread) /\ IsInjective(v.waiters)
      /\ \A w \in Range(v.waiters) : pc[w] = "asleep" /\ call[w].cv = e
  BY <1>1, QueuedThreads DEF InBody, CanWake, TablesInv, CVQueue
<1>3. PICK w \in Thread : w = Head(v.waiters)
  BY <1>2, RemoveQueue
<1>4. /\ w \in Range(v.waiters)
      /\ Tail(v.waiters) \in Seq(Thread) /\ IsInjective(Tail(v.waiters))
      /\ Range(Tail(v.waiters)) = Range(v.waiters) \ {w}
  BY <1>2, <1>3, RemoveQueue
<1>5. /\ pc[w] = "asleep" /\ w # t
      /\ pc'[t] = next /\ pc'[w] = "awake"
      /\ \A u \in Thread \ {t, w} : pc'[u] = pc[u]
      /\ pc' \in [Thread -> Place]
  BY <1>1, <1>2, <1>3, <1>4, Typed DEF Place
<1>6. /\ cvEntries' = [cvEntries EXCEPT ![e].waiters = Tail(v.waiters),
                          ![e].lock = IF Tail(v.waiters) = <<>> THEN NULL ELSE v.lock]
      /\ cvEntries' \in [CVIndex -> CVType]
  <2>1. cvEntries' = [cvEntries EXCEPT ![e].waiters = Tail(v.waiters),
                          ![e].lock = IF Tail(v.waiters) = <<>> THEN NULL ELSE v.lock]
    BY <1>1, Typed DEF Wake
  <2>2. v \in CVType
    BY Typed
  <2>3. [v EXCEPT !.waiters = Tail(v.waiters),
                  !.lock = IF Tail(v.waiters) = <<>> THEN NULL ELSE v.lock] \in CVType
    BY <1>4, <2>2 DEF CVType
  <2>4. cvEntries' = [cvEntries EXCEPT ![e] =
            [v EXCEPT !.waiters = Tail(v.waiters),
                      !.lock = IF Tail(v.waiters) = <<>> THEN NULL ELSE v.lock]]
    BY <2>1, <2>2, Typed DEF CVType
  <2>5. cvEntries' \in [CVIndex -> CVType]
    BY <2>3, <2>4, Typed
  <2> QED
    BY <2>1, <2>5
<1>7. /\ \A c \in CVIndex \ {e} : cvEntries'[c] = cvEntries[c]
      /\ cvEntries'[e].waiters = Tail(v.waiters)
      /\ \A c \in CVIndex : /\ cvEntries'[c].bit = cvEntries[c].bit
                            /\ cvEntries'[c].toBeUsed = cvEntries[c].toBeUsed
                            /\ cvEntries'[c].toBeDeleted = cvEntries[c].toBeDeleted
  BY <1>6, Typed DEF CVType
<1> HIDE DEF v
<1>8. ManagerTypeOK'
  BY <1>5, <1>6, Typed, TypedNext
<1>9. IsFiniteSet(Busy)'
  BY DEF TablesInv, Busy
<1>10. \A u \in Thread : /\ pc'[u] \in InWait <=> pc[u] \in InWait
                         /\ pc'[u] \in {"acquire", "claim", "unclaim", "asleep", "user"} => pc'[u] = pc[u]
                         /\ pc[u] \in {"acquire", "awake", "user"} => pc'[u] = pc[u]
                         /\ pc'[u] \in {"first", "second", "body", "enterWait", "wait"} =>
                              pc[u] = pc'[u] \/ (u = t /\ call[t].op # "Wait")
  <2>1. \A u \in Thread \ {t, w} : pc'[u] = pc[u]
    BY <1>5
  <2> QED
    BY <1>2, <1>5, <2>1 DEF InWait
<1>11. \A u \in Thread : CallFits(u)'
  BY <1>10 DEF TablesInv, CallFits
<1>12. \A i \in LockIndex : LockQueue(i)'
  <2> TAKE i \in LockIndex
  <2>1. \A x \in Range(lockEntries[i].queue) : x \in Thread
    BY QueuedThreads
  <2> QED
    BY <1>10, <2>1 DEF TablesInv, LockQueue
<1>13. \A c \in CVIndex : CVQueue(c)'
  <2> TAKE c \in CVIndex
  <2>1. CVQueue(c) /\ Range(cvEntries[c].waiters) \subseteq Thread
    BY QueuedThreads DEF TablesInv
  <2>2. CASE c = e
    <3>1. \A x \in Range(Tail(v.waiters)) : x \in Thread \ {w} /\ pc[x] = "asleep" /\ call[x].cv = e
      BY <1>2, <1>4, <2>1, <2>2 DEF v
    <3>2. \A x \in Range(Tail(v.waiters)) : pc'[x] = "asleep"
      BY <1>2, <1>5, <3>1
    <3> QED
      BY <1>4, <1>7, <2>2, <3>1, <3>2 DEF CVQueue
  <2>3. CASE c # e
    <3>1. call[w].cv = e
      BY <1>2, <1>4
    <3>2. \A x \in Range(cvEntries[c].waiters) : x \in Thread \ {t, w}
      BY <1>2, <2>1, <2>3, <3>1 DEF CVQueue
    <3> QED
      BY <1>5, <1>7, <2>1, <2>3, <3>2 DEF CVQueue
  <2> QED
    BY <2>2, <2>3
<1>14. \A u \in Thread : InTables(u)'
  <2> TAKE u \in Thread
  <2>1. InTables(u) /\ CallFits(u)
    BY DEF TablesInv
  <2>2. pc[u] \in InWait => call[u].cv \in CVIndex
    BY <2>1 DEF CallFits, PairOps
  <2>3. pc'[u] = "asleep" => u \in Range(cvEntries'[call[u].cv].waiters)
    <3> SUFFICES ASSUME pc'[u] = "asleep"
                 PROVE  u \in Range(cvEntries'[call[u].cv].waiters)
      OBVIOUS
    <3>1. pc[u] = "asleep" /\ u # w
      BY <1>5, <1>10
    <3>2. u \in Range(cvEntries[call[u].cv].waiters) /\ call[u].cv \in CVIndex
      BY <2>1, <2>2, <3>1 DEF InTables, InWait
    <3> QED
      BY <1>4, <1>7, <3>1, <3>2 DEF v
  <2>4. pc'[u] \in InWait => lockEntries'[call[u].lock].bit /\ cvEntries'[call[u].cv].bit
    BY <1>7, <1>10, <2>1, <2>2 DEF InTables
  <2> QED
    BY <1>10, <2>1, <2>3, <2>4 DEF InTables
<1>15. /\ \A i \in LockIndex : LockUsers(i)' = LockUsers(i) /\ (DoomedLock(i)' <=> DoomedLock(i))
       /\ \A c \in CVIndex : CVUsers(c)' = CVUsers(c) /\ (DoomedCV(c)' <=> DoomedCV(c))
  BY <1>7 DEF LockUsers, CVUsers, DoomedLock, DoomedCV, Calls
<1>16. \A i \in LockIndex : i \notin crowdedLocks => LockMarked(i)'
  BY <1>10 DEF TablesInv, LockAlone, LockMarked
<1>17. \A c \in CVIndex : c \notin crowdedCVs => CVMarked(c)'
  BY <1>7, <1>10 DEF TablesInv, CVAlone, CVMarked
<1> QED
  BY <1>8, <1>9, <1>11, <1>12, <1>13, <1>14, <1>15, <1>16, <1>17 DEF Kept

LEMMA SignalKept ==
    ASSUME TablesInv, NEW t \in Thread, SignalOne(t)
    PROVE  Kept
<1>1. CASE CanWake(t)
  BY <1>1, WakeKept DEF SignalOne
<1>2. CASE ~CanWake(t)
  <2>1. /\ pc[t] = "body" /\ pc' = [pc EXCEPT ![t] = "giveLock"] /\ table' = table
        /\ lockEntries' = lockEntries /\ cvEntries' = cvEntries /\ held' = held /\ call' = call
    BY <1>2 DEF SignalOne, InBody
  <2>2. ManagerTypeOK'
    BY <2>1, Typed, TypedNext DEF Place
  <2>3. Quiet(t)
    BY <2>1, Typed DEF Quiet, Moves, Continues
  <2> QED
    BY <2>2, <2>3, QuietKept
<1> QED
  BY <1>1, <1>2

LEMMA BroadcastKept ==
    ASSUME TablesInv, NEW t \in Thread, BroadcastOne(t)
    PROVE  Kept
<1>1. [pc EXCEPT ![t] = "body"] = pc
  BY Typed DEF BroadcastOne, InBody
<1> QED
  BY <1>1, WakeKept DEF BroadcastOne

-----------------------------------------------------------------------------
(* The theorem about the tables *)

LEMMA InitInv == ManagerInit => TablesInv
<1> SUFFICES ASSUME ManagerInit PROVE TablesInv
  OBVIOUS
<1>1. /\ table = [k \in Table |-> FreeLock]
      /\ lockEntries = [i \in LockIndex |-> NoLock]
      /\ cvEntries = [c \in CVIndex |-> NoCV]
      /\ call = [t \in Thread |-> NoCall]
      /\ pc = [t \in Thread |-> "user"]
      /\ held = [t \in Thread |-> {}]
      /\ crowdedLocks = {} /\ crowdedCVs = {}
  BY DEF ManagerInit
<1>2. ManagerTypeOK
  <2>1. FreeLock \in TableType
    BY DEF FreeLock, TableType
  <2>2. /\ table \in [Table -> TableType]
        /\ lockEntries \in [LockIndex -> LockType]
        /\ cvEntries \in [CVIndex -> CVType]
        /\ call \in [Thread -> CallType]
        /\ pc \in [Thread -> Place]
        /\ held \in [Thread -> SUBSET LockIndex]
    BY <1>1, <2>1, NothingTyped DEF Place
  <2> QED
    BY <2>2 DEF ManagerTypeOK, TableType, LockType, CVType, CallType
<1>3. /\ \A t \in Thread : call[t].op = "none" /\ pc[t] = "user" /\ held[t] = {}
      /\ \A i \in LockIndex : lockEntries[i] = NoLock
      /\ \A c \in CVIndex : cvEntries[c] = NoCV
  BY <1>1 DEF NoCall
<1>4. IsFiniteSet(Busy)
  <2>1. Busy = {}
    BY <1>3 DEF Busy
  <2> QED
    BY <2>1, FS_EmptySet
<1>5. \A t \in Thread : CallFits(t) /\ InTables(t)
  BY <1>3 DEF CallFits, InTables, InWait, PairOps
<1>6. \A i \in LockIndex : LockQueue(i)
  BY <1>3, EmptyQueue DEF LockQueue, NoLock
<1>7. \A c \in CVIndex : CVQueue(c)
  BY <1>3, EmptyQueue DEF CVQueue, NoCV
<1>8. \A i \in LockIndex : LockUsers(i) = {} /\ ~DoomedLock(i)
  BY <1>3 DEF LockUsers, DoomedLock, Calls, NoLock, Thread
<1>9. \A c \in CVIndex : CVUsers(c) = {} /\ ~DoomedCV(c)
  BY <1>3 DEF CVUsers, DoomedCV, Calls, NoCV
<1>10. \A i \in LockIndex : LockAlone(i)
  BY <1>5, <1>8, UnusedMarked DEF LockAlone, AtMostOne
<1>11. \A c \in CVIndex : CVAlone(c)
  BY <1>5, <1>9, UnusedMarked DEF CVAlone, AtMostOne
<1>12. Doomed
  BY <1>8, <1>9 DEF Doomed
<1> QED
  BY <1>2, <1>4, <1>5, <1>6, <1>7, <1>10, <1>11, <1>12 DEF TablesInv

LEMMA UserStepInv ==
    ASSUME TablesInv, Careful, NEW t \in Thread, UserStep(t), Crowd
    PROVE  TablesInv'
<1>1. ASSUME NEW op, NEW c, NEW i, Enter(t, op, c, i), Args(op, c, i)
      PROVE  TablesInv'
  BY <1>1, EnterInv
<1> USE DEF Args, Ops, LockOps, PairOps
<1>2. ASSUME CreateLock_Syscall(t)
      PROVE  TablesInv'
  BY <1>1, <1>2 DEF CreateLock_Syscall
<1>3. ASSUME CreateCondition_Syscall(t)
      PROVE  TablesInv'
  BY <1>1, <1>3 DEF CreateCondition_Syscall
<1>4. ASSUME DestroyLock_Syscall(t)
      PROVE  TablesInv'
  <2>1. PICK i \in LockIndex : Enter(t, "DestroyLock", NULL, i)
    BY <1>4 DEF DestroyLock_Syscall
  <2> QED
    BY <1>1, <2>1
<1>5. ASSUME DestroyCondition_Syscall(t)
      PROVE  TablesInv'
  <2>1. PICK c \in CVIndex : Enter(t, "DestroyCondition", c, NULL)
    BY <1>5 DEF DestroyCondition_Syscall
  <2> QED
    BY <1>1, <2>1
<1>6. ASSUME Lock_Syscall(t)
      PROVE  TablesInv'
  <2>1. PICK op \in {"Acquire", "Release"}, i \in LockIndex : Enter(t, op, NULL, i)
    BY <1>6 DEF Lock_Syscall
  <2> QED
    BY <1>1, <2>1
<1>7. ASSUME Condition_Syscall(t)
      PROVE  TablesInv'
  <2>1. PICK op \in {"Wait", "Signal", "Broadcast"}, c \in CVIndex \cap LockIndex :
          Enter(t, op, c, c)
    BY <1>7 DEF Condition_Syscall
  <2> QED
    BY <1>1, <2>1
<1> QED
  BY <1>2, <1>3, <1>4, <1>5, <1>6, <1>7 DEF UserStep

LEMMA KernelStepKept ==
    ASSUME TablesInv, NEW t \in Thread, KernelStep(t)
    PROVE  Kept
<1>1. AcquireEntry(t) => Kept
  BY AcquireEntryKept, NoSuchLockKept
<1>2. ReleaseLock(t) => Kept
  BY ReleaseLockKept, NoSuchLockKept
<1> QED
  BY <1>1, <1>2, TakeKept, CreateLockKept, CreateConditionKept, DestroyLockKept,
     DestroyConditionKept, TakeLockKept, AcquireClaimKept, ReleaseUnclaimKept, WaitEntryKept,
     GiveKept, WaitSleepKept, WaitReturnKept, SignalKept, BroadcastKept, BroadcastDoneKept
     DEF KernelStep

LEMMA NextInv ==
    ASSUME TablesInv, Careful, [ManagerNext]_managerVars
    PROVE  TablesInv'
<1>1. CASE ManagerNext
  <2>1. PICK t \in Thread : UserStep(t) \/ KernelStep(t)
    BY <1>1 DEF ManagerNext
  <2>2. Crowd
    BY <1>1 DEF ManagerNext
  <2> QED
    BY <2>1, <2>2, UserStepInv, KernelStepKept, KeptInv
<1>2. CASE UNCHANGED managerVars
  <2> USE <1>2 DEF managerVars
  <2>1. ManagerTypeOK' = ManagerTypeOK
    BY DEF ManagerTypeOK
  <2>2. Busy' = Busy
    BY DEF Busy
  <2>3. \A t \in Thread : CallFits(t)' = CallFits(t) /\ InTables(t)' = InTables(t)
    BY DEF CallFits, InTables
  <2>4. \A i \in LockIndex : LockQueue(i)' = LockQueue(i) /\ LockAlone(i)' = LockAlone(i)
    BY DEF LockQueue, LockAlone, LockMarked, LockUsers, Calls
  <2>5. \A c \in CVIndex : CVQueue(c)' = CVQueue(c) /\ CVAlone(c)' = CVAlone(c)
    BY DEF CVQueue, CVAlone, CVMarked, CVUsers, Calls
  <2>6. Doomed' = Doomed
    BY DEF Doomed, DoomedLock, DoomedCV, Calls
  <2>7. IsFiniteSet(Busy)' = IsFiniteSet(Busy)
    BY <2>2
  <2> QED
    BY <2>1, <2>3, <2>4, <2>5, <2>6, <2>7 DEF TablesInv
<1> QED
  BY <1>1, <1>2

\* While every program destroys an object only when at most one thread uses it
\* (Careful), no DestroyLock, DestroyCondition or deferred deletion in Release
\* takes a lock or a condition variable from under a thread that holds it, waits
\* for it or waits on it, for every number of threads and of entries
\* (SynchManager.cc:95-104, 168-172).
THEOREM NothingTakenAway ==
    ASSUME Careful
    PROVE  ManagerSpec => []EntriesSound
<1>1. ManagerInit => TablesInv
  BY InitInv
<1>2. TablesInv /\ [ManagerNext]_managerVars => TablesInv'
  BY NextInv
<1>3. TablesInv => EntriesSound
  <2> SUFFICES ASSUME TablesInv PROVE EntriesSound
    OBVIOUS
  <2>1. \A t \in Thread : pc[t] = "asleep" =>
          \E n \in DOMAIN cvEntries[call[t].cv].waiters : cvEntries[call[t].cv].waiters[n] = t
    BY DEF TablesInv, InTables, Range
  <2>2. InUse
    BY <2>1 DEF TablesInv, InTables, InUse, InWait
  <2> QED
    BY <2>2 DEF TablesInv, EntriesSound
<1> QED
  BY <1>1, <1>2, <1>3, PTL DEF ManagerSpec
=============================================================================
