-------------------------- MODULE FileSystemProofs --------------------------
(***************************************************************************)
(* Proofs about the file system, for disks, directories and sectors of any *)
(* size: whatever call a halt interrupts, no two files share a sector, and *)
(* between calls the bit map marks the sectors of the files and no others. *)
(* From this follows the refinement of FileStore: the files that callers   *)
(* see change as it says, step by step, and the sectors that it counts are *)
(* those that the map leaves free.                                         *)
(***************************************************************************)
EXTENDS FileSystem, FiniteSetTheorems, FunctionTheorems, SequenceTheorems, TLAPS

USE FileSystemAssumption

-----------------------------------------------------------------------------
(* The inductive invariant, about a disk dk and a directory dir *)

SectorsOf(dk, dir, e) == {dir[e].sector} \cup DataSectors(dk[dir[e].sector])

\* The header of a file: as many sectors as its length needs, all different.
Complete(hdr) ==
    /\ Len(hdr.sectors) = NumSectorsFor(hdr.length)
    /\ \A i, j \in DOMAIN hdr.sectors : i # j => hdr.sectors[i] # hdr.sectors[j]

Apart(dk, dir) ==
    \A d, e \in InUse(dir) : d # e =>
        /\ dir[d].name # dir[e].name
        /\ SectorsOf(dk, dir, d) \cap SectorsOf(dk, dir, e) = {}

Good(dk, dir) ==
    \A e \in InUse(dir) :
        /\ Complete(dk[dir[e].sector])
        /\ dir[e].sector \notin DataSectors(dk[dir[e].sector])
        /\ SectorsOf(dk, dir, e) \cap Reserved = {}

\* The bit map that belongs to a directory.
Marked(dk, dir) == Reserved \cup UNION {SectorsOf(dk, dir, e) : e \in InUse(dir)}

\* The header in an open file is the one of its entry.
OpenIn(dk, table, dir) ==
    \A h \in Handle : table[h] # NULL =>
        \E e \in Entry : /\ dir[e].name = table[h].name
                         /\ dk[dir[e].sector] = table[h].hdr

Sound(dk, table, dir) == Apart(dk, dir) /\ Good(dk, dir) /\ OpenIn(dk, table, dir)

\* What Create has prepared before its first write: a file in free sectors.
NewFile ==
    /\ op.name \in Name
    /\ \A e \in Entry : diskDir[e].name # op.name
    /\ op.sector \notin diskMap
    /\ \E e \in Entry :
          /\ diskDir[e].name = NULL
          /\ op.dir = [diskDir EXCEPT ![e] = [name |-> op.name, sector |-> op.sector]]
    /\ Complete(op.hdr)
    /\ DataSectors(op.hdr) \cap (diskMap \cup {op.sector}) = {}
    /\ op.map = diskMap \cup {op.sector} \cup DataSectors(op.hdr)

\* The directory on the disk is sound at every moment.  The map belongs to it
\* until the first of the last two writes, and then to the next directory.
FilesInv ==
    /\ Sound(disk, fileTable, diskDir)
    /\ op.pc \in {"idle", "writeHeader", "writeDirectory", "removeMap"}
          => diskMap = Marked(disk, diskDir)
    /\ op.pc = "writeHeader" => NewFile
    /\ op.pc \in {"writeDirectory", "writeMap", "removeMap", "removeDirectory"}
          => Sound(disk, fileTable, op.dir) /\ op.map = Marked(disk, op.dir)
    /\ op.pc = "writeMap" => diskDir = op.dir
    /\ op.pc = "removeDirectory" => diskMap = op.map

IInv ==
    /\ TypeOK
    /\ torn => op.pc = "idle"
    /\ ~torn => FilesInv

-----------------------------------------------------------------------------
(* Files and sectors *)

LEMMA DivNat == ASSUME NEW x \in Nat PROVE x \div SectorSize \in Nat
OBVIOUS

LEMMA SizeNat == ASSUME NEW x \in Nat PROVE NumSectorsFor(x) \in Nat
BY DivNat DEF NumSectorsFor

\* FileHeader::ByteToSector finds a sector for each byte below the length.
LEMMA ByteInside ==
    ASSUME NEW x \in Nat, NEW length \in Nat, x < length
    PROVE  x \div SectorSize + 1 \in 1 .. NumSectorsFor(length)
<1>1. length - 1 \in Nat /\ x <= length - 1 /\ length + SectorSize - 1 = length - 1 + SectorSize
  OBVIOUS
<1>2. x \div SectorSize <= (length - 1) \div SectorSize
  BY <1>1
<1>3. (length - 1 + SectorSize) \div SectorSize = (length - 1) \div SectorSize + 1
  BY <1>1
<1> QED
  BY <1>1, <1>2, <1>3, DivNat DEF NumSectorsFor

\* A header that was written: its list of sectors is a sequence.
LEMMA HeaderSectors ==
    ASSUME NEW hdr \in Contents
    PROVE  /\ DOMAIN hdr.sectors = 1 .. Len(hdr.sectors)
           /\ \A i \in 1 .. Len(hdr.sectors) : hdr.sectors[i] \in Sector
           /\ DataSectors(hdr) \in SUBSET Sector
<1>1. hdr.sectors \in Seq(Sector)
  BY DEF Contents
<1>2. DOMAIN hdr.sectors = 1 .. Len(hdr.sectors)
  BY <1>1, LenProperties
<1>3. \A i \in 1 .. Len(hdr.sectors) : hdr.sectors[i] \in Sector
  BY <1>1, ElementOfSeq
<1> QED
  BY <1>2, <1>3 DEF DataSectors

LEMMA NoSharingIsSound == NoSharing <=> Apart(disk, diskDir) /\ Good(disk, diskDir)
BY DEF NoSharing, Apart, Good, GoodHeader, Complete, FileSectors, SectorsOf

LEMMA MapAgreesIsMarked ==
    MapAgrees <=> (op.pc = "idle" => diskMap = Marked(disk, diskDir))
BY DEF MapAgrees, Marked, FileSectors, SectorsOf

NamesIn(table) == \A h \in Handle : table[h] # NULL => table[h].name \in Name

\* The names of open files are names.
LEMMA TableNames ==
    ASSUME TypeOK
    PROVE  NamesIn(fileTable)
BY DEF TypeOK, NamesIn

\* A file keeps its sectors as long as its header is not written over.
LEMMA SameHeaders ==
    ASSUME NEW dk, NEW dl, NEW table, NEW dir \in Directory,
           NamesIn(table),
           \A e \in InUse(dir) : dl[dir[e].sector] = dk[dir[e].sector]
    PROVE  /\ Sound(dk, table, dir) => Sound(dl, table, dir)
           /\ Marked(dl, dir) = Marked(dk, dir)
<1>1. \A e \in InUse(dir) : SectorsOf(dl, dir, e) = SectorsOf(dk, dir, e)
  BY DEF SectorsOf
<1>2. Marked(dl, dir) = Marked(dk, dir)
  BY <1>1 DEF Marked
<1>3. Apart(dk, dir) => Apart(dl, dir)
  BY <1>1 DEF Apart
<1>4. Good(dk, dir) => Good(dl, dir)
  BY <1>1 DEF Good
<1>5. OpenIn(dk, table, dir) => OpenIn(dl, table, dir)
  BY DEF OpenIn, InUse, NamesIn
<1> QED
  BY <1>2, <1>3, <1>4, <1>5 DEF Sound

-----------------------------------------------------------------------------
(* Types *)

OpType == [pc : {"idle", "writeHeader", "writeDirectory", "writeMap",
                 "removeMap", "removeDirectory"},
           name : Name \cup {NULL}, sector : Sector, hdr : Contents,
           dir : Directory, map : SUBSET Sector]

LEMMA ZeroIsSector == 0 \in Sector
BY DEF Sector

LEMMA EmptyDirectory ==
    /\ Unused.name = NULL
    /\ Unused \in [name : Name \cup {NULL}, sector : Sector]
    /\ [e \in Entry |-> Unused] \in Directory
    /\ InUse([e \in Entry |-> Unused]) = {}
BY ZeroIsSector DEF Unused, Directory, InUse

\* A header as Create prepares it, and a block as Write does.
LEMMA HeaderType ==
    ASSUME NEW length \in Nat, NEW sectors \in Seq(Sector)
    PROVE  /\ Header(length, sectors) \in Contents
           /\ Header(length, sectors).length = length
           /\ Header(length, sectors).sectors = sectors
BY DEF Header, Contents, JunkBytes

LEMMA BlockType ==
    ASSUME NEW bytes \in [1 .. SectorSize -> Byte \cup {Junk}]
    PROVE  Block(bytes) \in Contents
<1>1. <<>> \in Seq(Sector)
  BY EmptySeq
<1> QED
  BY <1>1 DEF Block, Contents

LEMMA NoOpType ==
    /\ NoOp \in OpType
    /\ NoOp.pc = "idle"
<1>1. <<>> \in Seq(Sector)
  BY EmptySeq
<1>2. Header(0, <<>>) \in Contents
  BY <1>1, HeaderType
<1> QED
  BY <1>2, ZeroIsSector, EmptyDirectory DEF NoOp, OpType

\* With no file in the directory, as after formatting.
LEMMA EmptyDisk ==
    ASSUME NEW dk, NEW table, \A h \in Handle : table[h] = NULL
    PROVE  /\ Sound(dk, table, [e \in Entry |-> Unused])
           /\ Marked(dk, [e \in Entry |-> Unused]) = Reserved
BY EmptyDirectory DEF Sound, Apart, Good, OpenIn, Marked

LEMMA ReservedSectors == Reserved \subseteq Sector
BY DEF Reserved, Sector

LEMMA InitIInv == Init => IInv
<1> SUFFICES ASSUME Init PROVE IInv
  OBVIOUS
<1> USE DEF Init
<1>1. JunkBytes \in [1 .. SectorSize -> Byte \cup {Junk}]
  BY DEF JunkBytes
<1>2. disk \in [Sector -> Contents]
  BY <1>1, BlockType
<1>3. TypeOK
  BY <1>2, NoOpType, EmptyDirectory, ReservedSectors DEF TypeOK, OpType
<1>4. FilesInv
  BY EmptyDisk, NoOpType DEF FilesInv
<1> QED
  BY <1>3, <1>4 DEF IInv

-----------------------------------------------------------------------------
(* FileSystem::Create *)

\* What Create puts into op, with s the sector of the header and e the entry.
Prepared(n, size, s, e, sectors) ==
    /\ IsFirstUnused(diskDir, e)
    /\ IsAllocation(diskMap \cup {s}, sectors)
    /\ op' = [pc |-> "writeHeader", name |-> n, sector |-> s,
              hdr |-> Header(size, sectors),
              dir |-> [diskDir EXCEPT ![e] = [name |-> n, sector |-> s]],
              map |-> diskMap \cup {s} \cup {sectors[i] : i \in DOMAIN sectors}]

LEMMA CreateStep ==
    ASSUME IInv, NEW n \in Name, NEW size \in 0 .. MaxFileSize, Create(n, size)
    PROVE  IInv'
<1>1. TypeOK /\ FilesInv /\ op.pc = "idle" /\ ~torn
  BY DEF IInv, Create, Idle
<1>2. PICK s \in Free(diskMap), e \in Entry :
         \E sectors \in [1 .. NumSectorsFor(size) -> Free(diskMap \cup {s})] :
            Prepared(n, size, s, e, sectors)
  BY DEF Create, Prepared
<1>3. PICK sectors \in [1 .. NumSectorsFor(size) -> Free(diskMap \cup {s})] :
         Prepared(n, size, s, e, sectors)
  BY <1>2
<1>4. UNCHANGED <<disk, diskMap, diskDir, fileTable, torn>>
  BY DEF Create
<1>5. size \in Nat /\ NumSectorsFor(size) \in Nat
  BY SizeNat
<1>6. /\ s \in Sector /\ s \notin diskMap
      /\ \A i \in 1 .. NumSectorsFor(size) :
            sectors[i] \in Sector /\ sectors[i] \notin diskMap /\ sectors[i] # s
  BY <1>3 DEF Free
<1>7. /\ sectors \in Seq(Sector) /\ Len(sectors) = NumSectorsFor(size)
      /\ DOMAIN sectors = 1 .. NumSectorsFor(size)
  <2>1. sectors \in [1 .. NumSectorsFor(size) -> Sector]
    BY <1>3, <1>6
  <2> QED
    BY <1>5, <2>1, SeqDef, LenProperties
<1> DEFINE hdr == Header(size, sectors)
           dir == [diskDir EXCEPT ![e] = [name |-> n, sector |-> s]]
           map == diskMap \cup {s} \cup {sectors[i] : i \in DOMAIN sectors}
<1>8. hdr \in Contents /\ hdr.length = size /\ hdr.sectors = sectors
  BY <1>5, <1>7, HeaderType
<1>9. dir \in Directory
  BY <1>1, <1>6 DEF TypeOK, Directory
<1>10. map \in SUBSET Sector
  BY <1>1, <1>6, <1>7 DEF TypeOK
<1>11. map = diskMap \cup {s} \cup DataSectors(hdr)
  BY <1>8 DEF DataSectors
<1>12. Complete(hdr)
  <2>1. \A i, j \in 1 .. NumSectorsFor(size) : i < j => sectors[i] < sectors[j]
    BY <1>3 DEF Prepared, IsAllocation
  <2>2. \A i, j \in 1 .. NumSectorsFor(size) : i # j => sectors[i] # sectors[j]
    BY <1>5, <1>6, <2>1 DEF Sector
  <2> QED
    BY <1>7, <1>8, <2>2 DEF Complete
<1>13. DataSectors(hdr) \cap (diskMap \cup {s}) = {}
  BY <1>6, <1>7, <1>8 DEF DataSectors
<1>14. \A d \in Entry : diskDir[d].name # n
  BY DEF Create, CanCreate, Named
<1>15. diskDir[e].name = NULL
  BY <1>3 DEF Prepared, IsFirstUnused
<1> HIDE DEF hdr, map
<1>16. /\ op'.pc = "writeHeader" /\ op'.name = n /\ op'.sector = s /\ op'.hdr = hdr
       /\ op'.dir = dir /\ op'.map = map
  BY <1>3 DEF Prepared, hdr, map
<1>17. op' \in OpType
  BY <1>3, <1>6, <1>8, <1>9, <1>10 DEF Prepared, OpType, hdr, map
<1>18. TypeOK'
  BY <1>1, <1>4, <1>17 DEF TypeOK, OpType
<1>19. NewFile'
  BY <1>4, <1>6, <1>11, <1>12, <1>13, <1>14, <1>15, <1>16 DEF NewFile
<1>20. FilesInv'
  BY <1>1, <1>4, <1>16, <1>19 DEF FilesInv
<1> QED
  BY <1>1, <1>4, <1>18, <1>20 DEF IInv

\* A file n in free sectors, with its header in s, is added: dl is the disk dk with
\* the header written, new the directory dir with the entry.
Adds(dk, dl, dir, new, n, s) ==
    /\ n \in Name
    /\ \A d \in Entry : dir[d].name # n
    /\ \E e \in Entry : dir[e].name = NULL
                        /\ new = [dir EXCEPT ![e] = [name |-> n, sector |-> s]]
    /\ s \in Sector /\ s \notin Marked(dk, dir)
    /\ Complete(dl[s])
    /\ DataSectors(dl[s]) \cap (Marked(dk, dir) \cup {s}) = {}
    /\ \A r \in Marked(dk, dir) : dl[r] = dk[r]

LEMMA AddedFile ==
    ASSUME NEW dk, NEW dl, NEW table, NEW dir \in Directory, NEW new, NEW n, NEW s,
           NamesIn(table),
           Sound(dk, table, dir),
           Adds(dk, dl, dir, new, n, s)
    PROVE  /\ Sound(dl, table, dir)
           /\ Sound(dl, table, new)
           /\ Marked(dl, dir) = Marked(dk, dir)
           /\ \A x : x \in Marked(dl, new)
                       <=> x \in Marked(dk, dir) \/ x = s \/ x \in DataSectors(dl[s])
<1> DEFINE map == Marked(dk, dir)
<1>1. /\ n \in Name /\ \A d \in Entry : dir[d].name # n
      /\ s \in Sector /\ s \notin map
      /\ Complete(dl[s])
      /\ DataSectors(dl[s]) \cap (map \cup {s}) = {}
      /\ \A r \in map : dl[r] = dk[r]
  BY DEF Adds
<1>2. PICK e \in Entry : /\ dir[e].name = NULL
                         /\ new = [dir EXCEPT ![e] = [name |-> n, sector |-> s]]
  BY DEF Adds
<1>3. /\ \A d \in Entry : new[d] = IF d = e THEN [name |-> n, sector |-> s] ELSE dir[d]
      /\ new \in Directory
  BY <1>1, <1>2 DEF Directory
<1>4. InUse(new) = InUse(dir) \cup {e} /\ e \notin InUse(dir)
  BY <1>3, <1>1, <1>2 DEF InUse
<1>5. \A d \in InUse(dir) : SectorsOf(dk, dir, d) \subseteq map
  BY DEF Marked
<1>6. \A d \in InUse(dir) : dl[dir[d].sector] = dk[dir[d].sector]
  BY <1>5, <1>1 DEF SectorsOf
<1>7. Sound(dl, table, dir) /\ Marked(dl, dir) = map
  BY <1>6, SameHeaders
<1>8. \A d \in InUse(dir) : SectorsOf(dl, new, d) = SectorsOf(dk, dir, d) /\ new[d] = dir[d]
  BY <1>3, <1>4, <1>6 DEF SectorsOf, InUse
<1>9. /\ SectorsOf(dl, new, e) = {s} \cup DataSectors(dl[s])
      /\ new[e].name = n /\ new[e].sector = s
      /\ SectorsOf(dl, new, e) \cap map = {}
  BY <1>3, <1>1 DEF SectorsOf
<1>10. \A x : x \in Marked(dl, new) <=> x \in map \/ x = s \/ x \in DataSectors(dl[s])
  <2>1. \A x : x \in Marked(dl, new)
                 <=> x \in Reserved \/ \E d \in InUse(new) : x \in SectorsOf(dl, new, d)
    BY DEF Marked
  <2>2. \A x : x \in map
                 <=> x \in Reserved \/ \E d \in InUse(dir) : x \in SectorsOf(dk, dir, d)
    BY DEF Marked
  <2>3. \A x : x \in Marked(dl, new) <=> x \in map \/ x \in SectorsOf(dl, new, e)
    BY <1>4, <1>8, <2>1, <2>2
  <2> QED
    BY <1>9, <2>3
<1>11. Apart(dl, new)
  <2> SUFFICES ASSUME NEW c \in InUse(new), NEW d \in InUse(new), c # d
               PROVE  /\ new[c].name # new[d].name
                      /\ SectorsOf(dl, new, c) \cap SectorsOf(dl, new, d) = {}
    BY DEF Apart
  <2>1. CASE c \in InUse(dir) /\ d \in InUse(dir)
    BY <1>8, <2>1 DEF Sound, Apart
  <2>2. \A f \in InUse(dir) : new[f].name # n /\ SectorsOf(dl, new, f) \subseteq map
    BY <1>5, <1>8, <1>1 DEF InUse
  <2> QED
    BY <1>4, <1>9, <2>1, <2>2
<1>12. Good(dl, new)
  <2>1. Reserved \subseteq map
    BY DEF Marked
  <2>2. \A d \in InUse(dir) : /\ Complete(dl[dir[d].sector])
                              /\ dir[d].sector \notin DataSectors(dl[dir[d].sector])
                              /\ SectorsOf(dl, new, d) \cap Reserved = {}
    BY <1>6, <1>8 DEF Sound, Good
  <2>3. s \notin DataSectors(dl[s]) /\ SectorsOf(dl, new, e) \cap Reserved = {}
    BY <1>9, <1>1, <2>1
  <2> SUFFICES ASSUME NEW d \in InUse(new)
               PROVE  /\ Complete(dl[new[d].sector])
                      /\ new[d].sector \notin DataSectors(dl[new[d].sector])
                      /\ SectorsOf(dl, new, d) \cap Reserved = {}
    BY DEF Good
  <2>4. CASE d \in InUse(dir)
    BY <1>8, <2>2, <2>4
  <2>5. CASE d = e
    BY <1>9, <1>1, <2>3, <2>5
  <2> QED
    BY <1>4, <2>4, <2>5
<1>13. OpenIn(dl, table, new)
  BY <1>3, <1>7, <1>1, <1>2 DEF Sound, OpenIn, NamesIn
<1> QED
  BY <1>7, <1>10, <1>11, <1>12, <1>13 DEF Sound

\* The header of the new file is written: its sector was free.
LEMMA WriteHeaderStep ==
    ASSUME IInv, WriteHeader
    PROVE  IInv'
<1>1. TypeOK /\ FilesInv /\ op.pc = "writeHeader" /\ ~torn
  BY DEF IInv, WriteHeader
<1>2. /\ disk' = [disk EXCEPT ![op.sector] = op.hdr]
      /\ op' = [op EXCEPT !.pc = "writeDirectory"]
      /\ UNCHANGED <<diskMap, diskDir, fileTable, torn>>
  BY DEF WriteHeader
<1>3. /\ op \in OpType /\ op.sector \in Sector /\ op.hdr \in Contents
      /\ op.dir \in Directory /\ diskDir \in Directory /\ disk \in [Sector -> Contents]
      /\ diskMap \in SUBSET Sector
  BY <1>1 DEF TypeOK, OpType
<1>4. /\ op' \in OpType /\ op'.pc = "writeDirectory" /\ op'.dir = op.dir /\ op'.map = op.map
  BY <1>2, <1>3 DEF OpType
<1>5. /\ disk' \in [Sector -> Contents]
      /\ disk'[op.sector] = op.hdr
      /\ \A r \in Sector : r # op.sector => disk'[r] = disk[r]
  BY <1>2, <1>3
<1>6. TypeOK'
  BY <1>1, <1>2, <1>4, <1>5 DEF TypeOK, OpType
<1>7. NewFile /\ Sound(disk, fileTable, diskDir) /\ diskMap = Marked(disk, diskDir)
  BY <1>1 DEF FilesInv
<1>8. /\ Sound(disk', fileTable, diskDir)
      /\ Sound(disk', fileTable, op.dir)
      /\ Marked(disk', diskDir) = diskMap
      /\ Marked(disk', op.dir) = op.map
  <2>1. op.map = Marked(disk, diskDir) \cup {op.sector} \cup DataSectors(disk'[op.sector])
    BY <1>5, <1>7 DEF NewFile
  <2>2. Adds(disk, disk', diskDir, op.dir, op.name, op.sector)
    BY <1>3, <1>5, <1>7 DEF Adds, NewFile
  <2>3. PICK dl, new, n, r : dl = disk' /\ new = op.dir /\ n = op.name /\ r = op.sector
    OBVIOUS
  <2>4. Adds(disk, dl, diskDir, new, n, r)
    BY <2>2, <2>3
  <2>5. Sound(dl, fileTable, diskDir) /\ Marked(dl, diskDir) = Marked(disk, diskDir)
    BY <1>1, <1>3, <1>7, <2>4, AddedFile, TableNames
  <2>6. Sound(dl, fileTable, new)
    BY <1>1, <1>3, <1>7, <2>4, AddedFile, TableNames
  <2>7. \A x : x \in Marked(dl, new)
                 <=> x \in Marked(disk, diskDir) \/ x = r \/ x \in DataSectors(dl[r])
    BY <1>1, <1>3, <1>7, <2>4, AddedFile, TableNames
  <2> QED
    BY <1>7, <2>1, <2>3, <2>5, <2>6, <2>7
<1>9. FilesInv'
  BY <1>2, <1>4, <1>8 DEF FilesInv
<1> QED
  BY <1>1, <1>2, <1>6, <1>9 DEF IInv

\* The directory goes to the disk with the map of the old one still there.
LEMMA WriteDirectoryStep ==
    ASSUME IInv, WriteDirectory
    PROVE  IInv'
<1>1. TypeOK /\ FilesInv /\ op.pc = "writeDirectory" /\ ~torn
  BY DEF IInv, WriteDirectory
<1>2. /\ diskDir' = op.dir
      /\ op' = [op EXCEPT !.pc = "writeMap"]
      /\ UNCHANGED <<disk, diskMap, fileTable, torn>>
  BY DEF WriteDirectory
<1>3. op \in OpType /\ op.dir \in Directory
  BY <1>1 DEF TypeOK, OpType
<1>4. op' \in OpType /\ op'.pc = "writeMap" /\ op'.dir = op.dir /\ op'.map = op.map
  BY <1>2, <1>3 DEF OpType
<1>5. TypeOK'
  BY <1>1, <1>2, <1>3, <1>4 DEF TypeOK, OpType
<1>6. FilesInv'
  BY <1>1, <1>2, <1>4 DEF FilesInv
<1> QED
  BY <1>1, <1>2, <1>5, <1>6 DEF IInv

LEMMA CreateEndStep ==
    ASSUME IInv, CreateEnd
    PROVE  IInv'
<1>1. TypeOK /\ FilesInv /\ op.pc = "writeMap" /\ ~torn
  BY DEF IInv, CreateEnd
<1>2. diskMap' = op.map /\ op' = NoOp /\ UNCHANGED <<disk, diskDir, fileTable, torn>>
  BY DEF CreateEnd
<1>3. TypeOK'
  BY <1>1, <1>2, NoOpType DEF TypeOK, OpType
<1>4. FilesInv'
  BY <1>1, <1>2, NoOpType DEF FilesInv
<1> QED
  BY <1>1, <1>2, <1>3, <1>4 DEF IInv

-----------------------------------------------------------------------------
(* FileSystem::Remove *)

NotOpen(table, n) ==
    \A h \in Handle : table[h] # NULL => table[h].name \in Name /\ table[h].name # n

\* Without the entry of a file that nobody has open, the rest is as sound as
\* before, and the map without its sectors belongs to it.
LEMMA RemovedFile ==
    ASSUME NEW dk, NEW table, NEW dir \in Directory, NEW e \in InUse(dir), NEW new,
           Sound(dk, table, dir), NotOpen(table, dir[e].name),
           new = [dir EXCEPT ![e] = Unused]
    PROVE  /\ new \in Directory
           /\ Sound(dk, table, new)
           /\ \A x : x \in Marked(dk, new)
                       <=> x \in Marked(dk, dir) /\ x \notin SectorsOf(dk, dir, e)
<1>1. /\ e \in Entry
      /\ \A d \in Entry : new[d] = IF d = e THEN Unused ELSE dir[d]
      /\ new \in Directory
  BY EmptyDirectory DEF Directory, InUse
<1>2. InUse(new) = InUse(dir) \ {e}
  BY <1>1, EmptyDirectory DEF InUse
<1>3. \A d \in InUse(new) : new[d] = dir[d] /\ SectorsOf(dk, new, d) = SectorsOf(dk, dir, d)
  BY <1>1, <1>2 DEF SectorsOf, InUse
<1>4. Apart(dk, new)
  <2> SUFFICES ASSUME NEW c \in InUse(new), NEW d \in InUse(new), c # d
               PROVE  /\ new[c].name # new[d].name
                      /\ SectorsOf(dk, new, c) \cap SectorsOf(dk, new, d) = {}
    BY DEF Apart
  <2>1. /\ dir[c].name # dir[d].name
        /\ SectorsOf(dk, dir, c) \cap SectorsOf(dk, dir, d) = {}
    BY <1>2 DEF Sound, Apart
  <2> QED
    BY <1>3, <2>1
<1>5. Good(dk, new)
  BY <1>2, <1>3 DEF Sound, Good
<1>6. OpenIn(dk, table, new)
  BY <1>1 DEF Sound, OpenIn, NotOpen
<1>7. \A x : x \in Marked(dk, new) <=> x \in Marked(dk, dir) /\ x \notin SectorsOf(dk, dir, e)
  <2>1. \A x : x \in Marked(dk, new)
                 <=> x \in Reserved \/ \E d \in InUse(new) : x \in SectorsOf(dk, new, d)
    BY DEF Marked
  <2>2. \A x : x \in Marked(dk, dir)
                 <=> x \in Reserved \/ \E d \in InUse(dir) : x \in SectorsOf(dk, dir, d)
    BY DEF Marked
  <2>3. \A x \in SectorsOf(dk, dir, e) :
           x \notin Reserved /\ \A d \in InUse(new) : x \notin SectorsOf(dk, dir, d)
    BY <1>2 DEF Sound, Apart, Good
  <2>4. ASSUME NEW x
        PROVE  x \in Marked(dk, new) <=> x \in Marked(dk, dir) /\ x \notin SectorsOf(dk, dir, e)
    <3>1. x \in Marked(dk, new)
             <=> x \in Reserved \/ \E d \in InUse(new) : x \in SectorsOf(dk, dir, d)
      BY <1>3, <2>1
    <3>2. x \in Marked(dk, dir)
             <=> \/ x \in Reserved \/ \E d \in InUse(new) : x \in SectorsOf(dk, dir, d)
                 \/ x \in SectorsOf(dk, dir, e)
      BY <1>2, <2>2
    <3> QED
      BY <2>3, <3>1, <3>2
  <2> QED
    BY <2>4
<1> QED
  BY <1>1, <1>4, <1>5, <1>6, <1>7 DEF Sound

LEMMA RemoveStep ==
    ASSUME IInv, NEW n \in Name, Remove(n)
    PROVE  IInv'
<1>1. TypeOK /\ FilesInv /\ op.pc = "idle" /\ ~torn
  BY DEF IInv, Remove, Idle
<1>2. PICK e \in Named(diskDir, n) :
         op' = [NoOp EXCEPT !.pc = "removeMap", !.name = n,
                  !.sector = diskDir[e].sector,
                  !.dir = [diskDir EXCEPT ![e] = Unused],
                  !.map = Cleared(diskMap, diskDir[e].sector)]
  BY DEF Remove
<1>3. UNCHANGED <<disk, diskMap, diskDir, fileTable, torn>>
  BY DEF Remove
<1>4. /\ e \in InUse(diskDir) /\ diskDir[e].name = n
      /\ diskDir \in Directory /\ diskDir[e].sector \in Sector
  BY <1>1 DEF Named, InUse, TypeOK, Directory
<1>5. NotOpen(fileTable, diskDir[e].name)
  BY <1>1, <1>4, TableNames DEF Remove, NotOpen, NamesIn
<1>6. PICK dir : dir = [diskDir EXCEPT ![e] = Unused]
  OBVIOUS
<1>7. PICK map : map = Cleared(diskMap, diskDir[e].sector)
  OBVIOUS
<1>8. /\ dir \in Directory
      /\ Sound(disk, fileTable, dir)
      /\ Marked(disk, dir) = Marked(disk, diskDir) \ SectorsOf(disk, diskDir, e)
  <2>1. Sound(disk, fileTable, diskDir)
    BY <1>1 DEF FilesInv
  <2>2. dir \in Directory
    BY <1>4, <1>6, EmptyDirectory DEF Directory
  <2>3. Sound(disk, fileTable, dir)
    BY <1>4, <1>5, <1>6, <2>1, RemovedFile
  <2>4. \A x : x \in Marked(disk, dir)
                 <=> x \in Marked(disk, diskDir) /\ x \notin SectorsOf(disk, diskDir, e)
    BY <1>4, <1>5, <1>6, <2>1, RemovedFile
  <2> QED
    BY <2>2, <2>3, <2>4
<1>9. map = Marked(disk, dir) /\ map \in SUBSET Sector
  BY <1>1, <1>7, <1>8 DEF FilesInv, Cleared, SectorsOf, TypeOK
<1>10. /\ op' \in OpType /\ op'.pc = "removeMap" /\ op'.dir = dir /\ op'.map = map
  BY <1>2, <1>4, <1>6, <1>7, <1>8, <1>9, NoOpType DEF OpType
<1>11. TypeOK'
  BY <1>1, <1>3, <1>10 DEF TypeOK, OpType
<1>12. FilesInv'
  BY <1>1, <1>3, <1>8, <1>9, <1>10 DEF FilesInv
<1> QED
  BY <1>1, <1>3, <1>11, <1>12 DEF IInv

LEMMA RemoveMapStep ==
    ASSUME IInv, RemoveMap
    PROVE  IInv'
<1>1. TypeOK /\ FilesInv /\ op.pc = "removeMap" /\ ~torn
  BY DEF IInv, RemoveMap
<1>2. /\ diskMap' = op.map
      /\ op' = [op EXCEPT !.pc = "removeDirectory"]
      /\ UNCHANGED <<disk, diskDir, fileTable, torn>>
  BY DEF RemoveMap
<1>3. op \in OpType
  BY <1>1 DEF TypeOK, OpType
<1>4. op' \in OpType /\ op'.pc = "removeDirectory" /\ op'.dir = op.dir /\ op'.map = op.map
  BY <1>2, <1>3 DEF OpType
<1>5. TypeOK'
  BY <1>1, <1>2, <1>3, <1>4 DEF TypeOK, OpType
<1>6. FilesInv'
  BY <1>1, <1>2, <1>4 DEF FilesInv
<1> QED
  BY <1>1, <1>2, <1>5, <1>6 DEF IInv

LEMMA RemoveEndStep ==
    ASSUME IInv, RemoveEnd
    PROVE  IInv'
<1>1. TypeOK /\ FilesInv /\ op.pc = "removeDirectory" /\ ~torn
  BY DEF IInv, RemoveEnd
<1>2. diskDir' = op.dir /\ op' = NoOp /\ UNCHANGED <<disk, diskMap, fileTable, torn>>
  BY DEF RemoveEnd
<1>3. TypeOK'
  BY <1>1, <1>2, NoOpType DEF TypeOK, OpType
<1>4. FilesInv'
  BY <1>1, <1>2, NoOpType DEF FilesInv
<1> QED
  BY <1>1, <1>2, <1>3, <1>4 DEF IInv

-----------------------------------------------------------------------------
(* Open files *)

OpenType == [name : Name, hdr : Contents, seekPosition : Nat]

\* Calls that change the table of open files only, and keep it sound.
LEMMA TableStep ==
    ASSUME IInv, Idle, UNCHANGED <<disk, diskMap, diskDir, op, torn>>,
           fileTable' \in [Handle -> OpenType \cup {NULL}],
           OpenIn(disk, fileTable', diskDir)
    PROVE  IInv'
<1>1. TypeOK /\ FilesInv /\ op.pc = "idle" /\ ~torn
  BY DEF IInv, Idle
<1>2. TypeOK'
  BY <1>1 DEF TypeOK, OpenType
<1>3. FilesInv'
  BY <1>1 DEF FilesInv, Sound
<1> QED
  BY <1>1, <1>2, <1>3 DEF IInv

LEMMA OpenFileStep ==
    ASSUME IInv, NEW n \in Name, OpenFile(n)
    PROVE  IInv'
<1>1. TypeOK /\ FilesInv /\ Idle
  BY DEF IInv, OpenFile, Idle
<1>2. PICK e \in Named(diskDir, n), h \in Handle :
         fileTable' = [fileTable EXCEPT ![h] =
                         [name |-> n, hdr |-> disk[diskDir[e].sector], seekPosition |-> 0]]
  BY DEF OpenFile
<1>3. UNCHANGED <<disk, diskMap, diskDir, op, torn>>
  BY DEF OpenFile
<1>4. e \in Entry /\ diskDir[e].name = n /\ disk[diskDir[e].sector] \in Contents
  BY <1>1 DEF Named, TypeOK, Directory
<1>5. fileTable \in [Handle -> OpenType \cup {NULL}]
  BY <1>1 DEF TypeOK, OpenType
<1> DEFINE f == [name |-> n, hdr |-> disk[diskDir[e].sector], seekPosition |-> 0]
<1>6. f \in OpenType /\ f.name = n /\ f.hdr = disk[diskDir[e].sector]
  BY <1>4 DEF OpenType
<1> HIDE DEF f
<1>7. \A g \in Handle : fileTable'[g] = IF g = h THEN f ELSE fileTable[g]
  BY <1>2, <1>5 DEF f
<1>8. fileTable' \in [Handle -> OpenType \cup {NULL}]
  BY <1>2, <1>5, <1>6 DEF f
<1>9. OpenIn(disk, fileTable', diskDir)
  BY <1>1, <1>4, <1>6, <1>7 DEF FilesInv, Sound, OpenIn
<1> QED
  BY <1>1, <1>3, <1>8, <1>9, TableStep

LEMMA CloseStep ==
    ASSUME IInv, NEW h \in Handle, Close(h)
    PROVE  IInv'
<1>1. TypeOK /\ FilesInv /\ Idle
  BY DEF IInv, Close, Idle
<1>2. /\ fileTable' = [fileTable EXCEPT ![h] = NULL]
      /\ UNCHANGED <<disk, diskMap, diskDir, op, torn>>
  BY DEF Close
<1>3. fileTable \in [Handle -> OpenType \cup {NULL}]
  BY <1>1 DEF TypeOK, OpenType
<1>4. fileTable' \in [Handle -> OpenType \cup {NULL}]
  BY <1>2, <1>3
<1>5. OpenIn(disk, fileTable', diskDir)
  BY <1>1, <1>2, <1>3 DEF FilesInv, Sound, OpenIn
<1> QED
  BY <1>1, <1>2, <1>4, <1>5, TableStep

\* A move of the position in an open file keeps the table sound.
LEMMA Moved ==
    ASSUME NEW dk, NEW dir, NEW table \in [Handle -> OpenType \cup {NULL}], NEW new,
           NEW h \in Handle, table[h] # NULL, NEW k \in Nat,
           new = [table EXCEPT ![h].seekPosition = @ + k],
           OpenIn(dk, table, dir)
    PROVE  /\ new \in [Handle -> OpenType \cup {NULL}]
           /\ OpenIn(dk, new, dir)
<1> DEFINE f == [table[h] EXCEPT !.seekPosition = @ + k]
<1>1. table[h] \in OpenType
  OBVIOUS
<1>2. f \in OpenType /\ f.name = table[h].name /\ f.hdr = table[h].hdr
  BY <1>1 DEF OpenType
<1>3. new = [table EXCEPT ![h] = f]
  BY <1>1 DEF OpenType
<1> HIDE DEF f
<1>4. new \in [Handle -> OpenType \cup {NULL}]
  BY <1>2, <1>3
<1>5. \A g \in Handle : new[g] = IF g = h THEN f ELSE table[g]
  BY <1>3
<1>6. OpenIn(dk, new, dir)
  BY <1>2, <1>5 DEF OpenIn
<1> QED
  BY <1>4, <1>6

\* Never more bytes than were asked for, and none behind the end of the file.
LEMMA TransferredInside ==
    ASSUME NEW hdr \in Contents, NEW n \in Nat, NEW position \in Nat
    PROVE  /\ Transferred(hdr, n, position) \in 0 .. n
           /\ Transferred(hdr, n, position) > 0
                 => position + Transferred(hdr, n, position) <= hdr.length
<1>1. hdr.length \in Nat
  BY DEF Contents
<1> QED
  BY <1>1 DEF Transferred

LEMMA LenOfFunction ==
    ASSUME NEW n \in Nat, NEW S, NEW f \in [1 .. n -> S]
    PROVE  Len(f) = n
<1>1. f \in Seq(S)
  BY SeqDef
<1>2. Len(f) \in Nat /\ DOMAIN f = 1 .. Len(f)
  BY <1>1, LenProperties
<1> QED
  BY <1>2

LEMMA ReadStep ==
    ASSUME IInv, NEW h \in Handle, NEW n \in 1 .. SectorSize + 1, Read(h, n)
    PROVE  IInv'
<1>1. TypeOK /\ FilesInv /\ Idle /\ n \in Nat
  BY DEF IInv, Read, Idle
<1> DEFINE f == fileTable[h]
           into == ReadAt(f.hdr, n, f.seekPosition)
           k == Transferred(f.hdr, n, f.seekPosition)
<1>2. /\ f # NULL
      /\ fileTable' = [fileTable EXCEPT ![h].seekPosition = @ + Len(into)]
      /\ UNCHANGED <<disk, diskMap, diskDir, op, torn>>
  BY DEF Read
<1>3. fileTable \in [Handle -> OpenType \cup {NULL}]
  BY <1>1 DEF TypeOK, OpenType
<1>4. f.hdr \in Contents /\ f.seekPosition \in Nat
  BY <1>2, <1>3 DEF OpenType
<1>5. k \in Nat
  <2>1. k \in 0 .. n
    BY <1>1, <1>4, TransferredInside
  <2> HIDE DEF k
  <2> QED
    BY <1>1, <2>1
<1>6. Len(into) = k
  <2> DEFINE S == {ByteAt(f.hdr, f.seekPosition + j - 1) : j \in 1 .. k}
  <2>1. into \in [1 .. k -> S]
    BY DEF ReadAt
  <2> HIDE DEF S, into, k
  <2> QED
    BY <1>5, <2>1, LenOfFunction
<1>7. OpenIn(disk, fileTable, diskDir)
  BY <1>1 DEF FilesInv, Sound
<1> HIDE DEF into, k
<1>8. fileTable' \in [Handle -> OpenType \cup {NULL}] /\ OpenIn(disk, fileTable', diskDir)
  BY <1>2, <1>3, <1>5, <1>6, <1>7, Moved
<1> QED
  BY <1>1, <1>2, <1>8, TableStep

\* What is read from a file is a byte, or what a sector held before.
LEMMA ByteType ==
    ASSUME disk \in [Sector -> Contents], NEW hdr \in Contents, Complete(hdr),
           NEW at \in Nat, at < hdr.length
    PROVE  ByteAt(hdr, at) \in Byte \cup {Junk}
<1> DEFINE i == at \div SectorSize + 1
<1>1. hdr.length \in Nat
  BY DEF Contents
<1>2. i \in 1 .. NumSectorsFor(hdr.length)
  BY <1>1, ByteInside
<1>3. i \in 1 .. Len(hdr.sectors)
  BY <1>2 DEF Complete
<1> HIDE DEF i
<1>4. hdr.sectors[i] \in Sector
  BY <1>3, HeaderSectors
<1>5. (at % SectorSize) + 1 \in 1 .. SectorSize
  OBVIOUS
<1>6. disk[hdr.sectors[i]].bytes \in [1 .. SectorSize -> Byte \cup {Junk}]
  BY <1>4 DEF Contents
<1> QED
  BY <1>5, <1>6 DEF ByteAt, ByteToSector, i

\* The sectors that OpenFile::WriteAt fills hold bytes.
LEMMA WrittenType ==
    ASSUME disk \in [Sector -> Contents], NEW hdr \in Contents, Complete(hdr),
           NEW from \in Buffer, NEW n \in 0 .. Len(from), NEW position \in Nat, NEW i \in Nat
    PROVE  Written(hdr, from, n, position, i) \in [1 .. SectorSize -> Byte \cup {Junk}]
<1>1. PICK m \in 1 .. SectorSize + 1 : from \in [1 .. m -> Byte]
  BY DEF Buffer
<1>2. m \in Nat /\ Len(from) = m
  BY <1>1, LenOfFunction
<1>3. ASSUME NEW at \in Nat, at >= position, at < position + n
      PROVE  from[at - position + 1] \in Byte
  BY <1>1, <1>2, <1>3
<1>4. \A k \in 1 .. SectorSize : i * SectorSize + k - 1 \in Nat
  <2>1. i * SectorSize \in Nat
    OBVIOUS
  <2> QED
    BY <2>1
<1> QED
  BY <1>3, <1>4, ByteType DEF Written

\* A write goes to sectors of its file that hold data, no header among them.
LEMMA WriteStep ==
    ASSUME IInv, NEW h \in Handle, NEW from \in Buffer, Write(h, from)
    PROVE  IInv'
<1>1. TypeOK /\ FilesInv /\ op.pc = "idle" /\ ~torn
  BY DEF IInv, Write, Idle
<1>2. PICK hdr, position, n, touched :
         /\ hdr = fileTable[h].hdr /\ position = fileTable[h].seekPosition
         /\ n = Transferred(hdr, Len(from), position)
         /\ touched = IF n = 0 THEN {}
                      ELSE position \div SectorSize .. (position + n - 1) \div SectorSize
  OBVIOUS
<1>3. /\ fileTable[h] # NULL
      /\ disk' = [s \in Sector |->
            IF \E i \in touched : hdr.sectors[i + 1] = s
            THEN Block(Written(hdr, from, n, position,
                               CHOOSE i \in touched : hdr.sectors[i + 1] = s))
            ELSE disk[s]]
      /\ fileTable' = [fileTable EXCEPT ![h].seekPosition = @ + n]
      /\ UNCHANGED <<diskMap, diskDir, op, torn>>
  BY <1>2 DEF Write
<1>4. /\ disk \in [Sector -> Contents] /\ diskDir \in Directory
      /\ fileTable \in [Handle -> OpenType \cup {NULL}]
  BY <1>1 DEF TypeOK, OpenType
<1>5. hdr \in Contents /\ position \in Nat
  BY <1>2, <1>3, <1>4 DEF OpenType
<1>6. Len(from) \in Nat
  <2>1. PICK m \in 1 .. SectorSize + 1 : from \in [1 .. m -> Byte]
    BY DEF Buffer
  <2> QED
    BY <2>1, LenOfFunction
<1>7. n \in 0 .. Len(from) /\ (n > 0 => position + n <= hdr.length)
  BY <1>2, <1>5, <1>6, TransferredInside
<1>8. PICK e \in InUse(diskDir) : disk[diskDir[e].sector] = hdr
  <2>1. OpenIn(disk, fileTable, diskDir) /\ NamesIn(fileTable)
    BY <1>1, TableNames DEF FilesInv, Sound
  <2> QED
    BY <1>2, <1>3, <2>1 DEF OpenIn, InUse, NamesIn
<1>9. Apart(disk, diskDir) /\ Good(disk, diskDir)
  BY <1>1 DEF FilesInv, Sound
<1>10. Complete(hdr)
  BY <1>8, <1>9 DEF Good
<1>11. \A i \in touched : i \in Nat /\ hdr.sectors[i + 1] \in DataSectors(hdr)
  <2> SUFFICES ASSUME NEW i \in touched
               PROVE  i \in Nat /\ i + 1 \in 1 .. Len(hdr.sectors)
    BY <1>5, HeaderSectors DEF DataSectors
  <2>1. hdr.length \in Nat
    BY <1>5 DEF Contents
  <2>2. n > 0 /\ n \in Nat /\ position + n - 1 \in Nat /\ position + n - 1 < hdr.length
    <3>1. n # 0
      BY <1>2
    <3>2. n \in Nat
      BY <1>6, <1>7
    <3> QED
      BY <1>5, <1>7, <2>1, <3>1, <3>2
  <2>3. PICK last : last = (position + n - 1) \div SectorSize
    OBVIOUS
  <2>4. last \in Nat /\ last + 1 \in 1 .. Len(hdr.sectors)
    BY <1>10, <2>1, <2>2, <2>3, ByteInside, DivNat DEF Complete
  <2>5. position \div SectorSize \in Nat
    BY <1>5, DivNat
  <2>6. i \in position \div SectorSize .. last
    BY <1>2, <2>2, <2>3
  <2> QED
    BY <2>4, <2>5, <2>6
<1>12. \A d \in InUse(diskDir) : /\ diskDir[d].sector \in Sector
                                 /\ diskDir[d].sector \notin DataSectors(hdr)
  <2> SUFFICES ASSUME NEW d \in InUse(diskDir)
               PROVE  diskDir[d].sector \notin DataSectors(hdr)
    BY <1>4 DEF Directory, InUse
  <2>1. CASE d = e
    BY <1>8, <1>9, <2>1 DEF Good
  <2>2. CASE d # e
    BY <1>8, <1>9, <2>2 DEF Apart, SectorsOf
  <2> QED
    BY <2>1, <2>2
<1>13. \A d \in InUse(diskDir) : disk'[diskDir[d].sector] = disk[diskDir[d].sector]
  BY <1>3, <1>11, <1>12
<1>14. disk' \in [Sector -> Contents]
  <2> SUFFICES ASSUME NEW s \in Sector PROVE disk'[s] \in Contents
    BY <1>3
  <2>1. CASE \E i \in touched : hdr.sectors[i + 1] = s
    <3>1. PICK i : i = CHOOSE j \in touched : hdr.sectors[j + 1] = s
      OBVIOUS
    <3>2. i \in touched
      BY <2>1, <3>1
    <3>3. Written(hdr, from, n, position, i) \in [1 .. SectorSize -> Byte \cup {Junk}]
      BY <1>4, <1>5, <1>7, <1>10, <1>11, <3>2, WrittenType
    <3>4. disk'[s] = Block(Written(hdr, from, n, position, i))
      BY <1>3, <2>1, <3>1
    <3> QED
      BY <3>3, <3>4, BlockType
  <2>2. CASE ~\E i \in touched : hdr.sectors[i + 1] = s
    BY <1>3, <1>4, <2>2
  <2> QED
    BY <2>1, <2>2
<1>15. PICK dl, table : dl = disk' /\ table = fileTable'
  OBVIOUS
<1>16. table \in [Handle -> OpenType \cup {NULL}] /\ OpenIn(disk, table, diskDir)
  <2>1. n \in Nat /\ OpenIn(disk, fileTable, diskDir)
    BY <1>1, <1>6, <1>7 DEF FilesInv, Sound
  <2> QED
    BY <1>3, <1>4, <1>15, <2>1, Moved
<1>17. NamesIn(table)
  BY <1>16 DEF NamesIn, OpenType
<1>18. \A d \in InUse(diskDir) : dl[diskDir[d].sector] = disk[diskDir[d].sector]
  BY <1>13, <1>15
<1>19. Sound(disk, table, diskDir)
  BY <1>9, <1>16 DEF Sound
<1>20. Sound(dl, table, diskDir)
  BY <1>4, <1>17, <1>18, <1>19, SameHeaders
<1>21. Marked(dl, diskDir) = Marked(disk, diskDir)
  BY <1>4, <1>17, <1>18, <1>19, SameHeaders
<1>22. TypeOK'
  BY <1>1, <1>3, <1>14, <1>15, <1>16 DEF TypeOK, OpenType
<1>23. FilesInv'
  BY <1>1, <1>3, <1>15, <1>20, <1>21 DEF FilesInv
<1> QED
  BY <1>1, <1>3, <1>22, <1>23 DEF IInv

-----------------------------------------------------------------------------
(* Halts *)

\* With no file open a directory is as sound as with some.
LEMMA NoneOpen ==
    ASSUME NEW dk, NEW dir, NEW table, NEW new,
           \A h \in Handle : new[h] = NULL,
           Sound(dk, table, dir)
    PROVE  Sound(dk, new, dir)
BY DEF Sound, OpenIn

LEMMA RestartStep ==
    ASSUME IInv, Restart
    PROVE  IInv'
<1>1. /\ torn' = (torn \/ op.pc \in {"writeMap", "removeDirectory"})
      /\ op' = NoOp
      /\ fileTable' = [h \in Handle |-> NULL]
      /\ UNCHANGED <<disk, diskMap, diskDir>>
  BY DEF Restart
<1>2. TypeOK'
  BY <1>1, NoOpType DEF IInv, TypeOK, OpType
<1>3. ASSUME ~torn'
      PROVE  FilesInv'
  <2>1. ~torn /\ FilesInv /\ op.pc \notin {"writeMap", "removeDirectory"}
    BY <1>1, <1>3 DEF IInv
  <2>2. op.pc \in {"idle", "writeHeader", "writeDirectory", "removeMap"}
    BY <2>1 DEF IInv, TypeOK
  <2>3. diskMap = Marked(disk, diskDir) /\ Sound(disk, fileTable, diskDir)
    BY <2>1, <2>2 DEF FilesInv
  <2>4. Sound(disk, fileTable', diskDir)
    BY <1>1, <2>3, NoneOpen
  <2> QED
    BY <1>1, <2>3, <2>4, NoOpType DEF FilesInv
<1> QED
  BY <1>1, <1>2, <1>3, NoOpType DEF IInv

LEMMA FormatStep ==
    ASSUME IInv, Format
    PROVE  IInv'
<1>1. /\ diskMap' = Reserved
      /\ diskDir' = [e \in Entry |-> Unused]
      /\ op' = NoOp
      /\ fileTable' = [h \in Handle |-> NULL]
      /\ torn' = FALSE
      /\ UNCHANGED disk
  BY DEF Format
<1>2. TypeOK'
  BY <1>1, NoOpType, EmptyDirectory, ReservedSectors DEF IInv, TypeOK, OpType
<1>3. FilesInv'
  BY <1>1, NoOpType, EmptyDisk DEF FilesInv
<1> QED
  BY <1>1, <1>2, <1>3 DEF IInv

-----------------------------------------------------------------------------
(* The theorems about the disk *)

\* Every call, every write of a call and every halt keeps the invariant.
LEMMA NextIInv == IInv /\ [Next]_vars => IInv'
<1> SUFFICES ASSUME IInv, [Next]_vars PROVE IInv'
  OBVIOUS
<1>1. ASSUME NEW n \in Name, NEW size \in 0 .. MaxFileSize, Create(n, size)
      PROVE  IInv'
  BY <1>1, CreateStep
<1>2. ASSUME NEW n \in Name, Remove(n) \/ OpenFile(n)
      PROVE  IInv'
  BY <1>2, RemoveStep, OpenFileStep
<1>3. ASSUME NEW h \in Handle,
             \/ Close(h)
             \/ \E n \in 1 .. SectorSize + 1 : Read(h, n)
             \/ \E from \in Buffer : Write(h, from)
      PROVE  IInv'
  BY <1>3, CloseStep, ReadStep, WriteStep
<1>4. ASSUME \/ WriteHeader \/ WriteDirectory \/ CreateEnd
             \/ RemoveMap \/ RemoveEnd \/ Restart \/ Format
      PROVE  IInv'
  BY <1>4, WriteHeaderStep, WriteDirectoryStep, CreateEndStep, RemoveMapStep,
     RemoveEndStep, RestartStep, FormatStep
<1>5. ASSUME UNCHANGED vars
      PROVE  IInv'
  BY <1>5 DEF IInv, TypeOK, FilesInv, NewFile, vars
<1> QED
  BY <1>1, <1>2, <1>3, <1>4, <1>5 DEF Next

\* Directory, headers, map and open files stay sound in every run, also while
\* Create and Remove are writing, unless a halt tears them.
THEOREM Invariance == Spec => []IInv
<1> QED
  BY InitIInv, NextIInv, PTL DEF Spec

\* The order of the writes in Create and Remove: whatever a halt interrupts, each
\* file on the disk has a whole header and sectors of its own; between two calls
\* BitMap::Find can neither give a sector of a file out again nor miss one that is
\* free; and an OpenFile has the header of its file.
THEOREM DiskIsSound == Spec => []DiskSound
<1>1. IInv => DiskSound
  <2> SUFFICES ASSUME IInv PROVE DiskSound
    OBVIOUS
  <2>1. TypeOK
    BY DEF IInv
  <2>2. ASSUME ~torn PROVE NoSharing /\ MapAgrees /\ HeadersAgree
    <3>1. NoSharing /\ MapAgrees
      BY <2>2, NoSharingIsSound, MapAgreesIsMarked DEF IInv, FilesInv, Sound
    <3>2. HeadersAgree
      BY <2>2 DEF IInv, FilesInv, Sound, OpenIn, HeadersAgree, Named
    <3> QED
      BY <3>1, <3>2
  <2> QED
    BY <2>1, <2>2 DEF DiskSound
<1> QED
  BY <1>1, Invariance, PTL

-----------------------------------------------------------------------------
(* Files as their callers see them *)

BytesOf(dk, hdr) ==
    [k \in 1 .. hdr.length |->
        dk[ByteToSector(hdr, k - 1)].bytes[((k - 1) % SectorSize) + 1]]

FileIn(dk, dir, e) == BytesOf(dk, dk[dir[e].sector])

\* The files of a directory, but for those that are not there yet.
FilesOf(dk, dir, hidden) ==
    [n \in Name |->
        IF \E e \in Named(dir, n) : n \notin hidden
        THEN FileIn(dk, dir, CHOOSE e \in Named(dir, n) : TRUE) ELSE NULL]

Hidden == IF op.pc = "writeMap" THEN {op.name} ELSE {}

LEMMA FilesNow ==
    /\ files = FilesOf(disk, diskDir, Hidden)
    /\ files' = FilesOf(disk', diskDir', Hidden')
<1>1. \A n \in Name : Visible(n) <=> \E e \in Named(diskDir, n) : n \notin Hidden
  BY DEF Visible, Hidden
<1>2. \A n \in Name : Visible(n)' <=> \E e \in Named(diskDir', n) : n \notin Hidden'
  BY DEF Visible, Hidden, Named
<1>3. \A n : FileBytes(n) = FileIn(disk, diskDir, CHOOSE e \in Named(diskDir, n) : TRUE)
  BY DEF FileBytes, FileIn, BytesOf, ByteAt, ByteToSector
<1>4. \A n : FileBytes(n)' = FileIn(disk', diskDir', CHOOSE e \in Named(diskDir', n) : TRUE)
  BY DEF FileBytes, FileIn, BytesOf, ByteAt, ByteToSector, Named
<1> DEFINE e(n) == CHOOSE e \in Named(diskDir, n) : TRUE
           d(n) == CHOOSE d \in Named(diskDir', n) : TRUE
<1>5. \A n \in Name : (IF Visible(n) THEN FileBytes(n) ELSE NULL)
                      = IF \E x \in Named(diskDir, n) : n \notin Hidden
                        THEN FileIn(disk, diskDir, e(n)) ELSE NULL
  BY <1>1, <1>3
<1>6. \A n \in Name : (IF Visible(n)' THEN FileBytes(n)' ELSE NULL)
                      = IF \E x \in Named(diskDir', n) : n \notin Hidden'
                        THEN FileIn(disk', diskDir', d(n)) ELSE NULL
  BY <1>2, <1>4
<1>7. files = FilesOf(disk, diskDir, Hidden)
  BY <1>5 DEF files, FilesOf
<1>8. files' = FilesOf(disk', diskDir', Hidden')
  BY <1>6 DEF files, FilesOf
<1> QED
  BY <1>7, <1>8

LEMMA FilesAt ==
    ASSUME NEW dk, NEW dir \in Directory, Apart(dk, dir), NEW hidden, NEW n \in Name
    PROVE  /\ n \in hidden \/ (\A e \in Entry : dir[e].name # n)
              => FilesOf(dk, dir, hidden)[n] = NULL
           /\ \A e \in Entry : n \notin hidden /\ dir[e].name = n
              => FilesOf(dk, dir, hidden)[n] = FileIn(dk, dir, e)
<1>1. \A e \in Entry : dir[e].name = n
                       => (CHOOSE d \in Named(dir, n) : TRUE) = e
  <2> SUFFICES ASSUME NEW e \in Entry, dir[e].name = n
               PROVE  (CHOOSE d \in Named(dir, n) : TRUE) = e
    OBVIOUS
  <2>1. Named(dir, n) = {e}
    BY DEF Named, Apart, InUse
  <2> QED
    BY <2>1
<1> QED
  BY <1>1 DEF FilesOf, Named

\* The bytes of a file are in its sectors, and are no NULL.
LEMMA FileIsBytes ==
    ASSUME NEW dk \in [Sector -> Contents], NEW hdr \in Contents, Complete(hdr)
    PROVE  /\ \A k \in 1 .. hdr.length : ByteToSector(hdr, k - 1) \in DataSectors(hdr)
           /\ BytesOf(dk, hdr) \in [1 .. hdr.length -> Byte \cup {Junk}]
           /\ BytesOf(dk, hdr) \in Seq(Byte \cup {Junk})
           /\ Len(BytesOf(dk, hdr)) = hdr.length
           /\ BytesOf(dk, hdr) # NULL
<1>1. hdr.length \in Nat
  BY DEF Contents
<1>2. ASSUME NEW k \in 1 .. hdr.length
      PROVE  /\ ByteToSector(hdr, k - 1) \in DataSectors(hdr)
             /\ dk[ByteToSector(hdr, k - 1)].bytes[((k - 1) % SectorSize) + 1]
                \in Byte \cup {Junk}
  <2>1. k - 1 \in Nat /\ k - 1 < hdr.length
    BY <1>1
  <2>2. (k - 1) \div SectorSize + 1 \in 1 .. NumSectorsFor(hdr.length)
    BY <1>1, <2>1, ByteInside
  <2> DEFINE i == (k - 1) \div SectorSize + 1
             j == ((k - 1) % SectorSize) + 1
  <2>3. i \in 1 .. Len(hdr.sectors)
    BY <2>2 DEF Complete
  <2>4. j \in 1 .. SectorSize
    BY <2>1
  <2> HIDE DEF i, j
  <2>5. hdr.sectors[i] \in DataSectors(hdr) /\ hdr.sectors[i] \in Sector
    BY <2>3, HeaderSectors DEF DataSectors
  <2>6. dk[hdr.sectors[i]].bytes \in [1 .. SectorSize -> Byte \cup {Junk}]
    BY <2>5 DEF Contents
  <2>7. dk[hdr.sectors[i]].bytes[j] \in Byte \cup {Junk}
    BY <2>4, <2>6
  <2> QED
    BY <2>5, <2>7 DEF ByteToSector, i, j
<1>3. BytesOf(dk, hdr) \in [1 .. hdr.length -> Byte \cup {Junk}]
  BY <1>2 DEF BytesOf
<1>4. BytesOf(dk, hdr) \in Seq(Byte \cup {Junk})
  BY <1>1, <1>3, SeqDef
<1>5. Len(BytesOf(dk, hdr)) = hdr.length
  BY <1>1, <1>3, LenOfFunction
<1> QED
  BY <1>2, <1>3, <1>4, <1>5, NullAssumption

LEMMA SameBytes ==
    ASSUME NEW dk \in [Sector -> Contents], NEW dl, NEW hdr \in Contents, Complete(hdr),
           \A r \in DataSectors(hdr) : dl[r] = dk[r]
    PROVE  BytesOf(dl, hdr) = BytesOf(dk, hdr)
BY FileIsBytes DEF BytesOf

\* The file in an entry of a sound directory.
LEMMA FileInEntry ==
    ASSUME NEW dk \in [Sector -> Contents], NEW dir \in Directory, Good(dk, dir),
           NEW e \in InUse(dir)
    PROVE  /\ dk[dir[e].sector] \in Contents /\ Complete(dk[dir[e].sector])
           /\ dir[e].name \in Name /\ dir[e].sector \in Sector
           /\ Len(FileIn(dk, dir, e)) = dk[dir[e].sector].length
           /\ FileIn(dk, dir, e) \in [1 .. dk[dir[e].sector].length -> Byte \cup {Junk}]
           /\ FileIn(dk, dir, e) # NULL
<1>1. dir[e].name \in Name /\ dir[e].sector \in Sector /\ Complete(dk[dir[e].sector])
  BY DEF InUse, Directory, Good
<1> QED
  BY <1>1, FileIsBytes DEF FileIn

\* A file is the same as long as nothing is written to its sectors.
LEMMA SameFile ==
    ASSUME NEW dk \in [Sector -> Contents], NEW dl, NEW dir \in Directory, Good(dk, dir),
           NEW e \in InUse(dir), \A r \in SectorsOf(dk, dir, e) : dl[r] = dk[r]
    PROVE  FileIn(dl, dir, e) = FileIn(dk, dir, e)
<1>1. dk[dir[e].sector] \in Contents /\ Complete(dk[dir[e].sector])
  BY FileInEntry
<1>2. dl[dir[e].sector] = dk[dir[e].sector]
  BY DEF SectorsOf
<1> QED
  BY <1>1, <1>2, SameBytes DEF FileIn, SectorsOf

-----------------------------------------------------------------------------
(* The room on the disk *)

NamedFiles(f) == {n \in Name : f[n] # NULL}

SectorsFor(size) == 1 + NumSectorsFor(size)

Needs(f) == UNION {{n} \X (1 .. SectorsFor(Len(f[n]))) : n \in NamedFiles(f)}

LEMMA StoreCardinality == ASSUME NEW S PROVE Store!Cardinality(S) = Cardinality(S)
BY Zenon DEF Store!Cardinality, Cardinality

LEMMA StoreCanCreate ==
    ASSUME NEW n, NEW size
    PROVE  Store!CanCreate(n, size)
           <=> /\ files[n] = NULL
               /\ Cardinality(NamedFiles(files)) < NumDirEntries
               /\ Cardinality(Needs(files)) + SectorsFor(size) <= NumSectors - NumReserved
BY StoreCardinality DEF Store!CanCreate, Store!Files, Store!InUse, Store!SectorsFor, NumSectorsFor,
   NamedFiles, Needs, SectorsFor

LEMMA NamesInUse ==
    ASSUME NEW dk \in [Sector -> Contents], NEW dir \in Directory,
           Apart(dk, dir), Good(dk, dir)
    PROVE  NamedFiles(FilesOf(dk, dir, {})) = {dir[e].name : e \in InUse(dir)}
<1> DEFINE f == FilesOf(dk, dir, {})
<1>1. ASSUME NEW e \in InUse(dir)
      PROVE  dir[e].name \in Name /\ f[dir[e].name] # NULL
  <2>1. dir[e].name \in Name /\ FileIn(dk, dir, e) # NULL
    BY FileInEntry
  <2>2. f[dir[e].name] = FileIn(dk, dir, e)
    BY <2>1, FilesAt DEF InUse
  <2> QED
    BY <2>1, <2>2
<1>2. ASSUME NEW n \in Name, f[n] # NULL
      PROVE  \E e \in InUse(dir) : dir[e].name = n
  <2>1. \E e \in Entry : dir[e].name = n
    BY <1>2, FilesAt
  <2> QED
    BY <2>1 DEF InUse
<1> QED
  BY <1>1, <1>2 DEF NamedFiles

LEMMA EntriesAreFinite ==
    ASSUME NEW dir
    PROVE  /\ IsFiniteSet(InUse(dir)) /\ Cardinality(InUse(dir)) \in Nat
           /\ Cardinality(InUse(dir)) <= NumDirEntries
           /\ Cardinality(InUse(dir)) < NumDirEntries
              <=> \E e \in Entry : dir[e].name = NULL
<1>1. IsFiniteSet(Entry) /\ Cardinality(Entry) = NumDirEntries
  BY FS_Interval DEF Entry
<1>2. InUse(dir) \in SUBSET Entry
  BY DEF InUse
<1>3. IsFiniteSet(InUse(dir)) /\ Cardinality(InUse(dir)) <= NumDirEntries
      /\ (Cardinality(InUse(dir)) = NumDirEntries => InUse(dir) = Entry)
  BY <1>1, <1>2, FS_Subset
<1>4. Cardinality(InUse(dir)) \in Nat
  BY <1>3, FS_CardinalityType
<1>5. InUse(dir) = Entry <=> ~\E e \in Entry : dir[e].name = NULL
  BY DEF InUse
<1> QED
  BY <1>1, <1>3, <1>4, <1>5

LEMMA FilesCounted ==
    ASSUME NEW dk \in [Sector -> Contents], NEW dir \in Directory,
           Apart(dk, dir), Good(dk, dir)
    PROVE  LET S == NamedFiles(FilesOf(dk, dir, {}))
           IN  IsFiniteSet(S) /\ Cardinality(S) = Cardinality(InUse(dir))
<1> DEFINE S == NamedFiles(FilesOf(dk, dir, {}))
           F == [e \in InUse(dir) |-> dir[e].name]
<1>1. S = {dir[e].name : e \in InUse(dir)}
  BY NamesInUse
<1> HIDE DEF S
<1>2. F \in [InUse(dir) -> S] /\ \A d, e \in InUse(dir) : F[d] = F[e] => d = e
  BY <1>1 DEF Apart
<1>3. \A n \in S : \E e \in InUse(dir) : F[e] = n
  BY <1>1
<1> HIDE DEF F
<1>4. F \in Bijection(InUse(dir), S)
  BY <1>2, <1>3, Fun_IsBij
<1>5. ExistsBijection(InUse(dir), S)
  BY <1>4 DEF ExistsBijection
<1> QED
  BY <1>5, EntriesAreFinite, FS_Bijection DEF S

\* The number of sectors that the files need is the number of those that the map
\* of the directory marks for them: each header and each block is in a sector.
LEMMA SectorsCounted ==
    ASSUME NEW dk \in [Sector -> Contents], NEW dir \in Directory,
           Apart(dk, dir), Good(dk, dir)
    PROVE  LET S == Needs(FilesOf(dk, dir, {}))
           IN  IsFiniteSet(S) /\ Cardinality(S) = Cardinality(Marked(dk, dir) \ Reserved)
<1> DEFINE f == FilesOf(dk, dir, {})
           S == Needs(f)
           T == Marked(dk, dir) \ Reserved
           E(n) == CHOOSE e \in InUse(dir) : dir[e].name = n
           hdr(n) == dk[dir[E(n)].sector]
           At(n, i) == IF i = 1 THEN dir[E(n)].sector ELSE hdr(n).sectors[i - 1]
           F == [p \in S |-> At(p[1], p[2])]
<1>1. ASSUME NEW n \in NamedFiles(f)
      PROVE  /\ E(n) \in InUse(dir) /\ dir[E(n)].name = n
             /\ hdr(n) \in Contents /\ hdr(n).length \in Nat
             /\ Len(f[n]) = hdr(n).length
             /\ Len(hdr(n).sectors) = NumSectorsFor(Len(f[n]))
  <2>1. \E e \in InUse(dir) : dir[e].name = n
    BY NamesInUse
  <2>2. E(n) \in InUse(dir) /\ dir[E(n)].name = n
    BY <2>1
  <2>3. /\ hdr(n) \in Contents /\ Complete(hdr(n))
        /\ Len(FileIn(dk, dir, E(n))) = hdr(n).length
    BY <2>2, FileInEntry
  <2>4. f[n] = FileIn(dk, dir, E(n))
    BY <2>2, FilesAt DEF NamedFiles, InUse
  <2>5. hdr(n).length \in Nat
    BY <2>3 DEF Contents
  <2> QED
    BY <2>2, <2>3, <2>4, <2>5 DEF Complete
<1>2. ASSUME NEW n \in NamedFiles(f)
      PROVE  NumSectorsFor(Len(f[n])) \in Nat
  BY <1>1, SizeNat
<1>3. \A p \in S : /\ p = <<p[1], p[2]>> /\ p[1] \in NamedFiles(f)
                   /\ p[2] \in 1 .. SectorsFor(Len(f[p[1]]))
  BY DEF Needs
<1>4. \A n \in NamedFiles(f) : \A i \in 1 .. SectorsFor(Len(f[n])) : <<n, i>> \in S
  BY DEF Needs
<1> HIDE DEF f, S, E
\* The sectors of a file, one by one.
<1>5. ASSUME NEW n \in NamedFiles(f)
      PROVE  /\ \A i \in 1 .. SectorsFor(Len(f[n])) : At(n, i) \in SectorsOf(dk, dir, E(n))
             /\ \A s \in SectorsOf(dk, dir, E(n)) :
                    \E i \in 1 .. SectorsFor(Len(f[n])) : At(n, i) = s
             /\ \A i, j \in 1 .. SectorsFor(Len(f[n])) : At(n, i) = At(n, j) => i = j
  <2> DEFINE h == hdr(n)
             k == NumSectorsFor(Len(f[n]))
             s == dir[E(n)].sector
  <2>1. h \in Contents /\ Len(h.sectors) = k /\ k \in Nat
    BY <1>1, <1>2, <1>5
  <2>2. DOMAIN h.sectors = 1 .. k
    BY <2>1, HeaderSectors
  <2>3. Complete(h) /\ s \notin DataSectors(h)
    BY <1>1, <1>5 DEF Good
  <2>4. SectorsOf(dk, dir, E(n)) = {s} \cup {h.sectors[i] : i \in 1 .. k}
    BY <2>2 DEF SectorsOf, DataSectors
  <2>5. \A i : At(n, i) = IF i = 1 THEN s ELSE h.sectors[i - 1]
    OBVIOUS
  <2> HIDE DEF h, k, s, At
  <2>6. /\ \A i, j \in 1 .. k : i # j => h.sectors[i] # h.sectors[j]
        /\ \A i \in 1 .. k : h.sectors[i] # s
    BY <2>2, <2>3 DEF Complete, DataSectors
  <2>7. SectorsFor(Len(f[n])) = 1 + k
    BY DEF SectorsFor, k
  <2>8. \A i \in 1 .. 1 + k : i = 1 \/ i - 1 \in 1 .. k
    BY <2>1
  <2>9. \A i \in 1 .. 1 + k : At(n, i) \in SectorsOf(dk, dir, E(n))
    BY <2>4, <2>5, <2>8
  <2>10. \A r \in SectorsOf(dk, dir, E(n)) : \E i \in 1 .. 1 + k : At(n, i) = r
    <3>1. At(n, 1) = s /\ 1 \in 1 .. 1 + k
      BY <2>1, <2>5
    <3>2. \A i \in 1 .. k : /\ i + 1 \in 1 .. 1 + k
                            /\ At(n, i + 1) = h.sectors[i]
      BY <2>1, <2>5
    <3> QED
      BY <2>4, <3>1, <3>2
  <2>11. \A i, j \in 1 .. 1 + k : At(n, i) = At(n, j) => i = j
    <3> SUFFICES ASSUME NEW i \in 1 .. 1 + k, NEW j \in 1 .. 1 + k, At(n, i) = At(n, j)
                 PROVE  i = j
      OBVIOUS
    <3>1. At(n, i) = IF i = 1 THEN s ELSE h.sectors[i - 1]
      BY <2>5
    <3>2. At(n, j) = IF j = 1 THEN s ELSE h.sectors[j - 1]
      BY <2>5
    <3>3. (i = 1) <=> (j = 1)
      BY <2>6, <2>8, <3>1, <3>2
    <3>4. ASSUME i # 1, j # 1 PROVE i - 1 = j - 1
      BY <2>6, <2>8, <3>1, <3>2, <3>4
    <3> QED
      BY <2>1, <3>3, <3>4
  <2> QED
    BY <2>7, <2>9, <2>10, <2>11
<1> HIDE DEF At
<1>6. \A e \in InUse(dir) : SectorsOf(dk, dir, e) \subseteq T
  BY DEF Good, Marked
<1>7. F \in [S -> T]
  BY <1>1, <1>3, <1>5, <1>6
<1>8. ASSUME NEW p \in S, NEW q \in S, F[p] = F[q]
      PROVE  p = q
  <2>1. At(p[1], p[2]) = At(q[1], q[2])
    BY <1>8
  <2>2. p[1] = q[1]
    <3>1. At(p[1], p[2]) \in SectorsOf(dk, dir, E(p[1]))
          /\ At(q[1], q[2]) \in SectorsOf(dk, dir, E(q[1]))
      BY <1>3, <1>5
    <3>2. E(p[1]) = E(q[1])
      BY <1>1, <1>3, <2>1, <3>1 DEF Apart
    <3> QED
      BY <1>1, <1>3, <3>2
  <2>3. p[2] = q[2]
    BY <1>3, <1>5, <2>1, <2>2
  <2> QED
    BY <1>3, <2>2, <2>3
<1>9. ASSUME NEW t \in T
      PROVE  \E p \in S : F[p] = t
  <2>1. PICK e \in InUse(dir) : t \in SectorsOf(dk, dir, e)
    BY DEF Marked
  <2>2. dir[e].name \in NamedFiles(f)
    BY NamesInUse DEF f
  <2>3. E(dir[e].name) = e
    BY <1>1, <2>2 DEF Apart
  <2>4. PICK i \in 1 .. SectorsFor(Len(f[dir[e].name])) : At(dir[e].name, i) = t
    BY <1>5, <2>1, <2>2, <2>3
  <2>5. PICK p \in S : p = <<dir[e].name, i>>
    BY <1>4, <2>2
  <2> QED
    BY <2>4, <2>5
<1> HIDE DEF F
<1>10. F \in Bijection(S, T)
  BY <1>7, <1>8, <1>9, Fun_IsBij
<1>11. IsFiniteSet(T)
  <2>1. T \in SUBSET Sector
    <3>1. \A e \in InUse(dir) : SectorsOf(dk, dir, e) \in SUBSET Sector
      BY FileInEntry, HeaderSectors DEF SectorsOf
    <3> QED
      BY <3>1 DEF Marked
  <2>2. IsFiniteSet(Sector)
    BY FS_Interval DEF Sector
  <2> QED
    BY <2>1, <2>2, FS_Subset
<1>12. ExistsBijection(T, S)
  BY <1>10, Fun_BijInverse DEF ExistsBijection
<1> QED
  BY <1>11, <1>12, FS_Bijection DEF S, f

\* What the map leaves free is what the files leave of the disk.
LEMMA FreeCounted ==
    ASSUME NEW dk \in [Sector -> Contents], NEW dir \in Directory,
           Apart(dk, dir), Good(dk, dir)
    PROVE  LET k == Cardinality(Needs(FilesOf(dk, dir, {})))
               free == Free(Marked(dk, dir))
           IN  /\ k \in Nat
               /\ IsFiniteSet(free)
               /\ Cardinality(free) \in Nat
               /\ Cardinality(free) = NumSectors - NumReserved - k
<1> DEFINE f == FilesOf(dk, dir, {})
           used == Marked(dk, dir) \ Reserved
           data == Sector \ Reserved
<1>1. IsFiniteSet(Sector) /\ Cardinality(Sector) = NumSectors
  BY FS_Interval DEF Sector
<1>2. Reserved \in SUBSET Sector /\ Cardinality(Reserved) = NumReserved
  BY FS_Interval, ReservedSectors DEF Reserved
<1>3. Sector \cap Reserved = Reserved
  BY <1>2
<1>4. IsFiniteSet(data) /\ Cardinality(data) = NumSectors - NumReserved
  BY <1>1, <1>2, <1>3, FS_Difference
<1>5. used \in SUBSET data
  <2>1. \A e \in InUse(dir) : SectorsOf(dk, dir, e) \in SUBSET Sector
    BY FileInEntry, HeaderSectors DEF SectorsOf
  <2> QED
    BY <2>1 DEF Marked
<1>6. Free(Marked(dk, dir)) = data \ used
  BY DEF Free, Marked
<1>7. IsFiniteSet(Needs(f)) /\ Cardinality(Needs(f)) = Cardinality(used)
  BY SectorsCounted
<1> HIDE DEF f, used, data
<1>8. data \cap used = used /\ IsFiniteSet(used)
  BY <1>4, <1>5, FS_Subset
<1>9. IsFiniteSet(data \ used) /\ Cardinality(data \ used) = Cardinality(data) - Cardinality(used)
  BY <1>4, <1>8, FS_Difference
<1>10. Cardinality(Needs(f)) \in Nat /\ Cardinality(data \ used) \in Nat
  BY <1>7, <1>9, FS_CardinalityType
<1>11. /\ Cardinality(Needs(f)) \in Nat
       /\ IsFiniteSet(Free(Marked(dk, dir)))
       /\ Cardinality(Free(Marked(dk, dir))) \in Nat
       /\ Cardinality(Free(Marked(dk, dir))) = NumSectors - NumReserved - Cardinality(Needs(f))
  BY <1>4, <1>6, <1>7, <1>9, <1>10
<1> QED
  BY <1>11 DEF f

\* Create finds its sectors and its entry just when there is room for the file.
LEMMA RoomFound ==
    ASSUME IInv
    PROVE  RoomIsFound
<1> SUFFICES ASSUME op.pc = "idle", ~torn, NEW n \in Name, NEW size \in 0 .. MaxFileSize
             PROVE  CanCreate(n, size) <=> Store!CanCreate(n, size)
  BY DEF RoomIsFound
<1>1. /\ disk \in [Sector -> Contents] /\ diskDir \in Directory
      /\ Apart(disk, diskDir) /\ Good(disk, diskDir)
      /\ diskMap = Marked(disk, diskDir)
  BY DEF IInv, TypeOK, FilesInv, Sound
<1>2. files = FilesOf(disk, diskDir, {})
  BY FilesNow DEF Hidden
<1>3. Named(diskDir, n) = {} <=> files[n] = NULL
  <2>1. ASSUME Named(diskDir, n) = {} PROVE files[n] = NULL
    BY <1>1, <1>2, <2>1, FilesAt DEF Named
  <2>2. ASSUME NEW e \in Named(diskDir, n) PROVE files[n] # NULL
    <3>1. e \in InUse(diskDir) /\ diskDir[e].name = n
      BY DEF Named, InUse
    <3>2. files[n] = FileIn(disk, diskDir, e)
      BY <1>1, <1>2, <3>1, FilesAt DEF InUse
    <3> QED
      BY <1>1, <3>1, <3>2, FileInEntry
  <2> QED
    BY <2>1, <2>2
<1>4. (\E e \in Entry : diskDir[e].name = NULL)
      <=> Cardinality(NamedFiles(files)) < NumDirEntries
  BY <1>1, <1>2, FilesCounted, EntriesAreFinite
<1> DEFINE k == Cardinality(Needs(files))
           free == Free(diskMap)
           m == NumSectorsFor(size)
<1>5. /\ k \in Nat /\ IsFiniteSet(free) /\ Cardinality(free) \in Nat
      /\ Cardinality(free) = NumSectors - NumReserved - k
  BY <1>1, <1>2, FreeCounted
<1>6. m \in Nat
  BY SizeNat
<1>7. free # {} <=> Cardinality(free) # 0
  BY <1>5, FS_EmptySet
<1> HIDE DEF k, free, m
<1>8. free # {} /\ Cardinality(free) - 1 >= m <=> k + (1 + m) <= NumSectors - NumReserved
  BY <1>5, <1>6, <1>7
<1>9. CanCreate(n, size) <=> /\ Named(diskDir, n) = {}
                             /\ free # {}
                             /\ \E e \in Entry : diskDir[e].name = NULL
                             /\ Cardinality(free) - 1 >= m
  BY DEF CanCreate, free, m
<1>10. Store!CanCreate(n, size) <=> /\ files[n] = NULL
                                    /\ Cardinality(NamedFiles(files)) < NumDirEntries
                                    /\ k + (1 + m) <= NumSectors - NumReserved
  BY StoreCanCreate DEF SectorsFor, k, m
<1> QED
  BY <1>3, <1>4, <1>8, <1>9, <1>10

\* The call that is writing to the disk: the file that it adds or takes away.
Pending ==
    /\ op.pc = "writeHeader" => op.hdr.length <= MaxFileSize
    /\ op.pc \in {"writeDirectory", "writeMap"} =>
          op.name \in Name /\ disk[op.sector].length <= MaxFileSize
    /\ op.pc = "writeDirectory" =>
          /\ \A e \in Entry : diskDir[e].name # op.name
          /\ \E e \in Entry :
                /\ diskDir[e].name = NULL
                /\ op.dir = [diskDir EXCEPT ![e] = [name |-> op.name, sector |-> op.sector]]
    /\ op.pc = "writeMap" =>
          \E e \in Entry : diskDir[e] = [name |-> op.name, sector |-> op.sector]
    /\ op.pc \in {"removeMap", "removeDirectory"} =>
          /\ op.name \in Name
          /\ \E e \in Entry : /\ diskDir[e].name = op.name
                              /\ op.dir = [diskDir EXCEPT ![e] = Unused]

StoreInv == IInv /\ (~torn => Pending)

\* What holds of the disk at every moment that no halt has torn.
LEMMA WholeDisk ==
    ASSUME IInv, ~torn
    PROVE  /\ TypeOK /\ FilesInv
           /\ disk \in [Sector -> Contents] /\ diskDir \in Directory
           /\ Apart(disk, diskDir) /\ Good(disk, diskDir)
           /\ OpenIn(disk, fileTable, diskDir)
           /\ fileTable \in [Handle -> OpenType \cup {NULL}]
           /\ op \in OpType
BY DEF IInv, FilesInv, Sound, TypeOK, OpType, OpenType

LEMMA FilesEqual ==
    ASSUME NEW dk, NEW dir, NEW hidden, NEW dl, NEW new, NEW shown,
           \A n \in Name : FilesOf(dl, new, shown)[n] = FilesOf(dk, dir, hidden)[n]
    PROVE  FilesOf(dl, new, shown) = FilesOf(dk, dir, hidden)
<1>1. /\ FilesOf(dl, new, shown) = [n \in Name |-> FilesOf(dl, new, shown)[n]]
      /\ FilesOf(dk, dir, hidden) = [n \in Name |-> FilesOf(dk, dir, hidden)[n]]
  BY DEF FilesOf
<1> QED
  BY <1>1

\* Files stay as they are when nothing is written to sectors in use.
LEMMA FilesSame ==
    ASSUME NEW dk \in [Sector -> Contents], NEW dl, NEW dir \in Directory,
           Apart(dk, dir), Good(dk, dir), NEW hidden,
           \A r \in Marked(dk, dir) : dl[r] = dk[r]
    PROVE  FilesOf(dl, dir, hidden) = FilesOf(dk, dir, hidden)
<1>1. ASSUME NEW n \in Name
      PROVE  FilesOf(dl, dir, hidden)[n] = FilesOf(dk, dir, hidden)[n]
  <2>1. CASE \E e \in Named(dir, n) : n \notin hidden
    <3>1. PICK e : e = CHOOSE d \in Named(dir, n) : TRUE
      OBVIOUS
    <3>2. e \in Named(dir, n)
      BY <2>1, <3>1
    <3>3. e \in InUse(dir)
      BY <3>2 DEF Named, InUse
    <3>4. \A r \in SectorsOf(dk, dir, e) : dl[r] = dk[r]
      BY <3>3 DEF Marked
    <3>5. FileIn(dl, dir, e) = FileIn(dk, dir, e)
      BY <3>3, <3>4, SameFile
    <3> QED
      BY <2>1, <3>1, <3>5 DEF FilesOf
  <2>2. CASE ~\E e \in Named(dir, n) : n \notin hidden
    BY <2>2 DEF FilesOf
  <2> QED
    BY <2>1, <2>2
<1> QED
  BY <1>1, FilesEqual

-----------------------------------------------------------------------------
(* What callers see of the steps of Create and Remove *)

Unseen == UNCHANGED <<files, openFiles>>

LEMMA TableUnseen ==
    ASSUME UNCHANGED fileTable
    PROVE  UNCHANGED openFiles
BY DEF openFiles

LEMMA CreateUnseen ==
    ASSUME IInv, NEW n \in Name, NEW size \in 0 .. MaxFileSize, Create(n, size)
    PROVE  Pending' /\ Unseen
<1>1. op.pc = "idle" /\ UNCHANGED <<disk, diskDir, fileTable>>
  BY DEF Create, Idle
<1>2. op'.pc = "writeHeader" /\ op'.hdr.length = size
  BY DEF Create, Header
<1>3. Pending'
  BY <1>2 DEF Pending
<1>4. Hidden' = Hidden
  BY <1>1, <1>2 DEF Hidden
<1> QED
  BY <1>1, <1>3, <1>4, FilesNow, TableUnseen DEF Unseen

LEMMA WriteHeaderUnseen ==
    ASSUME StoreInv, WriteHeader
    PROVE  Pending' /\ Unseen
<1>1. IInv /\ Pending /\ op.pc = "writeHeader" /\ ~torn
  BY DEF StoreInv, IInv, WriteHeader
<1>2. NewFile /\ diskMap = Marked(disk, diskDir)
  BY <1>1 DEF IInv, FilesInv
<1>3. /\ disk' = [disk EXCEPT ![op.sector] = op.hdr]
      /\ op' = [op EXCEPT !.pc = "writeDirectory"]
      /\ UNCHANGED <<diskMap, diskDir, fileTable, torn>>
  BY DEF WriteHeader
<1>4. /\ op'.pc = "writeDirectory" /\ op'.name = op.name /\ op'.sector = op.sector
      /\ op'.dir = op.dir /\ op.sector \in Sector
  BY <1>1, <1>3, WholeDisk DEF OpType
<1>5. disk'[op.sector] = op.hdr /\ \A r \in Sector : r # op.sector => disk'[r] = disk[r]
  BY <1>1, <1>3, <1>4, WholeDisk
<1>6. Pending'
  BY <1>1, <1>2, <1>3, <1>4, <1>5 DEF Pending, NewFile
<1>7. \A r \in Marked(disk, diskDir) : disk'[r] = disk[r]
  <2>1. diskMap \in SUBSET Sector /\ op.sector \notin diskMap
    BY <1>1, <1>2, WholeDisk DEF TypeOK, NewFile
  <2> QED
    BY <1>2, <1>5, <2>1
<1>8. Hidden = {} /\ Hidden' = {}
  BY <1>1, <1>4 DEF Hidden
<1>9. PICK dl : dl = disk'
  OBVIOUS
<1>10. FilesOf(dl, diskDir, {}) = FilesOf(disk, diskDir, {})
  BY <1>1, <1>7, <1>9, FilesSame, WholeDisk
<1> QED
  BY <1>3, <1>6, <1>8, <1>9, <1>10, FilesNow, TableUnseen DEF Unseen

LEMMA WriteDirectoryUnseen ==
    ASSUME StoreInv, WriteDirectory
    PROVE  Pending' /\ Unseen
<1>1. IInv /\ Pending /\ op.pc = "writeDirectory" /\ ~torn
  BY DEF StoreInv, IInv, WriteDirectory
<1>2. /\ diskDir' = op.dir
      /\ op' = [op EXCEPT !.pc = "writeMap"]
      /\ UNCHANGED <<disk, fileTable>>
  BY DEF WriteDirectory
<1>3. /\ op'.pc = "writeMap" /\ op'.name = op.name /\ op'.sector = op.sector
      /\ op.dir \in Directory /\ op.sector \in Sector
  BY <1>1, <1>2, WholeDisk DEF OpType
<1>4. PICK e \in Entry :
         /\ diskDir[e].name = NULL
         /\ op.dir = [diskDir EXCEPT ![e] = [name |-> op.name, sector |-> op.sector]]
  BY <1>1 DEF Pending
<1>5. op.name \in Name /\ \A d \in Entry : diskDir[d].name # op.name
  BY <1>1 DEF Pending
<1>6. /\ op.dir[e] = [name |-> op.name, sector |-> op.sector]
      /\ \A d \in Entry : d # e => op.dir[d] = diskDir[d]
  BY <1>1, <1>4, WholeDisk DEF Directory
<1>7. Pending'
  BY <1>1, <1>2, <1>3, <1>6 DEF Pending
<1>8. Apart(disk, op.dir)
  BY <1>1 DEF IInv, FilesInv, Sound
<1>9. Hidden = {} /\ Hidden' = {op.name}
  BY <1>1, <1>3 DEF Hidden
<1>10. PICK new, m : new = op.dir /\ m = op.name
  OBVIOUS
<1>11. ASSUME NEW n \in Name
       PROVE  FilesOf(disk, new, {m})[n] = FilesOf(disk, diskDir, {})[n]
  <2>1. CASE n = m
    <3>1. new \in Directory /\ Apart(disk, new) /\ n \in {m}
      BY <1>3, <1>8, <1>10, <2>1
    <3>2. FilesOf(disk, new, {m})[n] = NULL
      BY <3>1, FilesAt
    <3>3. FilesOf(disk, diskDir, {})[n] = NULL
      BY <1>1, <1>5, <1>10, <2>1, FilesAt, WholeDisk
    <3> QED
      BY <3>2, <3>3
  <2>2. CASE n # m /\ \E d \in Entry : diskDir[d].name = n
    <3>1. PICK d \in Entry : diskDir[d].name = n
      BY <2>2
    <3>2. d # e /\ new[d] = diskDir[d]
      BY <1>4, <1>6, <1>10, <3>1
    <3>3. /\ FilesOf(disk, new, {m})[n] = FileIn(disk, new, d)
          /\ FilesOf(disk, diskDir, {})[n] = FileIn(disk, diskDir, d)
      BY <1>1, <1>3, <1>8, <1>10, <2>2, <3>1, <3>2, FilesAt, WholeDisk
    <3> QED
      BY <3>2, <3>3 DEF FileIn
  <2>3. CASE n # m /\ \A d \in Entry : diskDir[d].name # n
    <3>1. \A d \in Entry : new[d].name # n
      BY <1>6, <1>10, <2>3
    <3> QED
      BY <1>1, <1>3, <1>8, <1>10, <2>3, <3>1, FilesAt, WholeDisk
  <2> QED
    BY <2>1, <2>2, <2>3
<1>12. FilesOf(disk, new, {m}) = FilesOf(disk, diskDir, {})
  BY <1>11, FilesEqual
<1> QED
  BY <1>2, <1>7, <1>9, <1>10, <1>12, FilesNow, TableUnseen DEF Unseen

LEMMA RemoveUnseen ==
    ASSUME IInv, NEW n \in Name, Remove(n)
    PROVE  Pending' /\ Unseen
<1>1. op.pc = "idle" /\ UNCHANGED <<disk, diskDir, fileTable>>
  BY DEF Remove, Idle
<1>2. PICK e \in Entry :
         /\ diskDir[e].name = n
         /\ op'.pc = "removeMap" /\ op'.name = n
         /\ op'.dir = [diskDir EXCEPT ![e] = Unused]
  BY DEF Remove, Named, NoOp
<1>3. Pending'
  BY <1>1, <1>2 DEF Pending
<1>4. Hidden' = Hidden
  BY <1>1, <1>2 DEF Hidden
<1> QED
  BY <1>1, <1>3, <1>4, FilesNow, TableUnseen DEF Unseen

LEMMA RemoveMapUnseen ==
    ASSUME StoreInv, RemoveMap
    PROVE  Pending' /\ Unseen
<1>1. IInv /\ Pending /\ op.pc = "removeMap" /\ ~torn
  BY DEF StoreInv, IInv, RemoveMap
<1>2. op' = [op EXCEPT !.pc = "removeDirectory"] /\ UNCHANGED <<disk, diskDir, fileTable>>
  BY DEF RemoveMap
<1>3. op'.pc = "removeDirectory" /\ op'.name = op.name /\ op'.dir = op.dir
  BY <1>1, <1>2, WholeDisk DEF OpType
<1>4. Pending'
  BY <1>1, <1>2, <1>3 DEF Pending
<1>5. Hidden' = Hidden
  BY <1>1, <1>3 DEF Hidden
<1> QED
  BY <1>2, <1>4, <1>5, FilesNow, TableUnseen DEF Unseen

-----------------------------------------------------------------------------
(* The ends of Create and Remove *)

\* The sectors of one more file.
LEMMA NeedsOneMore ==
    ASSUME NEW f, NEW g, NEW n \in Name, f[n] = NULL, g[n] # NULL,
           \A x \in Name : x # n => g[x] = f[x],
           SectorsFor(Len(g[n])) \in Nat,
           IsFiniteSet(Needs(g)), IsFiniteSet(NamedFiles(g))
    PROVE  /\ Cardinality(Needs(g)) = Cardinality(Needs(f)) + SectorsFor(Len(g[n]))
           /\ Cardinality(NamedFiles(g)) = Cardinality(NamedFiles(f)) + 1
           /\ Cardinality(Needs(f)) \in Nat /\ Cardinality(NamedFiles(f)) \in Nat
<1> DEFINE k == SectorsFor(Len(g[n]))
           new == {n} \X (1 .. k)
<1>1. NamedFiles(f) = NamedFiles(g) \ {n} /\ n \in NamedFiles(g)
  BY DEF NamedFiles
<1>2. /\ \A p \in Needs(g) \cup Needs(f) : p = <<p[1], p[2]>>
      /\ \A x, i : <<x, i>> \in Needs(g) <=> x \in NamedFiles(g) /\ i \in 1 .. SectorsFor(Len(g[x]))
      /\ \A x, i : <<x, i>> \in Needs(f) <=> x \in NamedFiles(f) /\ i \in 1 .. SectorsFor(Len(f[x]))
  BY DEF Needs
<1>3. \A x \in NamedFiles(f) : x # n /\ g[x] = f[x]
  BY <1>1 DEF NamedFiles
<1>4. Needs(f) = Needs(g) \ new
  <2>1. ASSUME NEW p \in Needs(f) PROVE p \in Needs(g) \ new
    BY <1>1, <1>2, <1>3
  <2>2. ASSUME NEW p \in Needs(g) \ new PROVE p \in Needs(f)
    BY <1>1, <1>2, <1>3
  <2> QED
    BY <2>1, <2>2
<1>5. new \in SUBSET Needs(g)
  BY <1>1, <1>2
<1>6. IsFiniteSet(1 .. k) /\ Cardinality(1 .. k) = k
  BY FS_Interval
<1>7. IsFiniteSet({n}) /\ Cardinality({n}) = 1
  BY FS_Singleton
<1> HIDE DEF k
<1>8. IsFiniteSet(new) /\ Cardinality(new) = k
  <2>1. IsFiniteSet(new) /\ Cardinality(new) = 1 * Cardinality(1 .. k)
    BY <1>6, <1>7, FS_Product
  <2> QED
    BY <1>6, <2>1 DEF k
<1> HIDE DEF new
<1>9. Needs(g) \cap new = new
  BY <1>5
<1>10. /\ IsFiniteSet(Needs(f))
       /\ Cardinality(Needs(f)) = Cardinality(Needs(g)) - k
  BY <1>4, <1>8, <1>9, FS_Difference
<1>11. /\ IsFiniteSet(NamedFiles(f))
       /\ Cardinality(NamedFiles(f)) = Cardinality(NamedFiles(g)) - 1
  BY <1>1, FS_RemoveElement
<1>12. /\ Cardinality(Needs(f)) \in Nat /\ Cardinality(Needs(g)) \in Nat
       /\ Cardinality(NamedFiles(f)) \in Nat /\ Cardinality(NamedFiles(g)) \in Nat
  BY <1>10, <1>11, FS_CardinalityType
<1> QED
  BY <1>10, <1>11, <1>12 DEF k

\* With the map, the file is there.
LEMMA CreateEndSeen ==
    ASSUME StoreInv, CreateEnd
    PROVE  Pending' /\ Store!Next
<1>1. IInv /\ Pending /\ op.pc = "writeMap" /\ ~torn
  BY DEF StoreInv, IInv, CreateEnd
<1>2. op' = NoOp /\ UNCHANGED <<disk, diskDir, fileTable>>
  BY DEF CreateEnd
<1>3. Pending'
  BY <1>2, NoOpType DEF Pending
<1>4. Hidden = {op.name} /\ Hidden' = {} /\ op.name \in Name
  BY <1>1, <1>2, NoOpType DEF Hidden, Pending
<1>5. PICK n, f, g : n = op.name /\ f = files /\ g = files'
  OBVIOUS
<1>6. f = FilesOf(disk, diskDir, {n}) /\ g = FilesOf(disk, diskDir, {})
  BY <1>2, <1>4, <1>5, FilesNow
<1>7. PICK e \in Entry : diskDir[e] = [name |-> n, sector |-> op.sector]
  BY <1>1, <1>5 DEF Pending
<1>8. /\ n \in Name /\ e \in InUse(diskDir) /\ diskDir[e].name = n
      /\ disk[diskDir[e].sector].length <= MaxFileSize
  BY <1>1, <1>4, <1>5, <1>7 DEF InUse, Pending
<1> DEFINE size == disk[diskDir[e].sector].length
<1>9. f[n] = NULL /\ g[n] = FileIn(disk, diskDir, e)
  <2>1. n \in {n} /\ n \notin {}
    OBVIOUS
  <2>2. f[n] = NULL
    BY <1>1, <1>6, <1>8, <2>1, FilesAt, WholeDisk
  <2>3. g[n] = FileIn(disk, diskDir, e)
    BY <1>1, <1>6, <1>8, <2>1, FilesAt, WholeDisk
  <2> QED
    BY <2>2, <2>3
<1>10. \A x \in Name : x # n => g[x] = f[x]
  BY <1>6 DEF FilesOf
<1>11. /\ g[n] # NULL /\ Len(g[n]) = size /\ size \in 0 .. MaxFileSize
       /\ g[n] \in [1 .. size -> Byte \cup {Junk}]
  <2>1. size \in Nat
    BY <1>1, <1>8, FileInEntry, WholeDisk DEF Contents
  <2> QED
    BY <1>1, <1>8, <1>9, <2>1, FileInEntry, WholeDisk
<1> HIDE DEF size
<1>12. NumSectorsFor(size) \in Nat /\ SectorsFor(Len(g[n])) = 1 + NumSectorsFor(size)
  BY <1>11, SizeNat DEF SectorsFor
<1>13. /\ IsFiniteSet(NamedFiles(g)) /\ Cardinality(NamedFiles(g)) <= NumDirEntries
       /\ IsFiniteSet(Needs(g)) /\ Cardinality(Needs(g)) <= NumSectors - NumReserved
  <2>1. Cardinality(Needs(g)) \in Nat /\ NumSectors - NumReserved - Cardinality(Needs(g)) \in Nat
    BY <1>1, <1>6, FreeCounted, WholeDisk
  <2>2. IsFiniteSet(Needs(g))
    BY <1>1, <1>6, SectorsCounted, WholeDisk
  <2>3. IsFiniteSet(NamedFiles(g)) /\ Cardinality(NamedFiles(g)) <= NumDirEntries
    BY <1>1, <1>6, FilesCounted, EntriesAreFinite, WholeDisk
  <2> QED
    BY <2>1, <2>2, <2>3
<1>14. /\ Cardinality(Needs(g)) = Cardinality(Needs(f)) + SectorsFor(Len(g[n]))
       /\ Cardinality(NamedFiles(g)) = Cardinality(NamedFiles(f)) + 1
       /\ Cardinality(Needs(f)) \in Nat /\ Cardinality(NamedFiles(f)) \in Nat
  <2>1. SectorsFor(Len(g[n])) \in Nat
    BY <1>12
  <2>2. n \in Name /\ f[n] = NULL /\ g[n] # NULL
    BY <1>8, <1>9, <1>11
  <2>3. IsFiniteSet(Needs(g)) /\ IsFiniteSet(NamedFiles(g))
    BY <1>13
  <2> QED
    BY <1>10, <2>1, <2>2, <2>3, NeedsOneMore, ZenonT(60)
<1>15. Store!CanCreate(n, Len(g[n]))
  <2>1. Cardinality(NamedFiles(f)) < NumDirEntries
    BY <1>13, <1>14
  <2>2. Cardinality(Needs(f)) + SectorsFor(Len(g[n])) <= NumSectors - NumReserved
    BY <1>13, <1>14
  <2> QED
    BY <1>5, <1>9, <2>1, <2>2, StoreCanCreate
<1>16. g = [f EXCEPT ![n] = g[n]]
  <2>1. f = [x \in Name |-> f[x]] /\ g = [x \in Name |-> g[x]]
    BY <1>6 DEF FilesOf
  <2> QED
    BY <1>8, <1>10, <2>1
<1>17. UNCHANGED openFiles
  BY <1>2, TableUnseen
<1>18. Store!Create(n, g[n])
  BY <1>5, <1>15, <1>16, <1>17 DEF Store!Create
<1> QED
  BY <1>3, <1>8, <1>11, <1>18 DEF Store!Next

\* Without the entry, the file is not there any more.
LEMMA RemoveEndSeen ==
    ASSUME StoreInv, RemoveEnd
    PROVE  Pending' /\ Store!Next
<1>1. IInv /\ Pending /\ op.pc = "removeDirectory" /\ ~torn
  BY DEF StoreInv, IInv, RemoveEnd
<1>2. diskDir' = op.dir /\ op' = NoOp /\ UNCHANGED <<disk, fileTable>>
  BY DEF RemoveEnd
<1>3. Pending'
  BY <1>2, NoOpType DEF Pending
<1>4. Hidden = {} /\ Hidden' = {}
  BY <1>1, <1>2, NoOpType DEF Hidden
<1>5. PICK n, new : n = op.name /\ new = op.dir
  OBVIOUS
<1>6. PICK e \in Entry : diskDir[e].name = n /\ new = [diskDir EXCEPT ![e] = Unused]
  BY <1>1, <1>5 DEF Pending
<1>7. n \in Name /\ new \in Directory /\ Apart(disk, new)
  BY <1>1, <1>5, WholeDisk DEF Pending, OpType, FilesInv, Sound
<1>8. /\ new[e].name = NULL
      /\ \A d \in Entry : d # e => new[d] = diskDir[d]
  BY <1>1, <1>6, WholeDisk DEF Directory, Unused
<1> DEFINE f == FilesOf(disk, diskDir, {})
           g == FilesOf(disk, new, {})
<1>9. ASSUME NEW x \in Name
      PROVE  g[x] = IF x = n THEN NULL ELSE f[x]
  <2>1. CASE x = n
    <3>1. \A d \in Entry : new[d].name # n
      BY <1>1, <1>6, <1>7, <1>8, WholeDisk DEF Apart, InUse
    <3> QED
      BY <1>7, <2>1, <3>1, FilesAt
  <2>2. CASE x # n /\ \E d \in Entry : diskDir[d].name = x
    <3>1. PICK d \in Entry : diskDir[d].name = x
      BY <2>2
    <3>2. new[d] = diskDir[d]
      BY <1>6, <1>8, <2>2, <3>1
    <3>3. g[x] = FileIn(disk, new, d)
      BY <1>7, <3>1, <3>2, FilesAt
    <3>4. f[x] = FileIn(disk, diskDir, d)
      BY <1>1, <3>1, FilesAt, WholeDisk
    <3> QED
      BY <2>2, <3>2, <3>3, <3>4 DEF FileIn
  <2>3. CASE x # n /\ \A d \in Entry : diskDir[d].name # x
    <3>1. \A d \in Entry : new[d].name # x
      BY <1>8, <2>3
    <3>2. g[x] = NULL
      BY <1>7, <3>1, FilesAt
    <3>3. f[x] = NULL
      BY <1>1, <2>3, FilesAt, WholeDisk
    <3> QED
      BY <2>3, <3>2, <3>3
  <2> QED
    BY <2>1, <2>2, <2>3
<1>10. files = f /\ files' = g
  BY <1>2, <1>4, <1>5, FilesNow
<1>11. g = [f EXCEPT ![n] = NULL]
  <2>1. f = [x \in Name |-> f[x]] /\ g = [x \in Name |-> g[x]]
    BY DEF FilesOf
  <2> HIDE DEF f, g
  <2> QED
    BY <1>7, <1>9, <2>1
<1>12. Store!Remove(n)
  BY <1>2, <1>10, <1>11, TableUnseen DEF Store!Remove
<1> QED
  BY <1>3, <1>7, <1>12 DEF Store!Next

-----------------------------------------------------------------------------
(* Open files as their callers see them *)

SeenAs(f) == [name |-> f.name, position |-> f.seekPosition]
OpenAs(table) == [h \in Handle |-> IF table[h] = NULL THEN NULL ELSE SeenAs(table[h])]

LEMMA OpenNow == openFiles = OpenAs(fileTable) /\ openFiles' = OpenAs(fileTable')
BY DEF openFiles, OpenAs, SeenAs

LEMMA OpenAt ==
    ASSUME NEW table \in [Handle -> OpenType \cup {NULL}], NEW h \in Handle
    PROVE  /\ table[h] = NULL => OpenAs(table)[h] = NULL
           /\ table[h] # NULL =>
                 OpenAs(table)[h] # NULL /\ OpenAs(table)[h] = SeenAs(table[h])
<1>1. CASE table[h] # NULL
  <2>1. table[h].name \in Name /\ table[h].seekPosition \in Nat
    BY <1>1 DEF OpenType
  <2>2. PICK x \in [name : Name, position : Nat] :
           x = SeenAs(table[h])
    BY <2>1 DEF SeenAs
  <2>3. x # NULL
    BY NullAssumption
  <2> QED
    BY <1>1, <2>2, <2>3 DEF OpenAs
<1> QED
  BY <1>1 DEF OpenAs

\* A slot of the table is the only one that changes.
LEMMA OpenChanged ==
    ASSUME NEW table \in [Handle -> OpenType \cup {NULL}], NEW h \in Handle,
           NEW f \in OpenType, f # NULL, NEW new, new = [table EXCEPT ![h] = f]
    PROVE  OpenAs(new) = [OpenAs(table) EXCEPT ![h] = SeenAs(f)]
BY DEF OpenAs

LEMMA OpenEnded ==
    ASSUME NEW table \in [Handle -> OpenType \cup {NULL}], NEW h \in Handle,
           NEW new, new = [table EXCEPT ![h] = NULL]
    PROVE  OpenAs(new) = [OpenAs(table) EXCEPT ![h] = NULL]
BY DEF OpenAs

\* An open file has the header, and so the bytes, of the file on the disk.
LEMMA OpenFileIs ==
    ASSUME IInv, Idle, NEW h \in Handle, fileTable[h] # NULL
    PROVE  \E e \in InUse(diskDir) :
              /\ diskDir[e].name = fileTable[h].name
              /\ disk[diskDir[e].sector] = fileTable[h].hdr
              /\ fileTable[h].name \in Name /\ fileTable[h].hdr \in Contents
              /\ fileTable[h].seekPosition \in Nat
              /\ Complete(fileTable[h].hdr)
              /\ files[fileTable[h].name] = BytesOf(disk, fileTable[h].hdr)
              /\ Len(files[fileTable[h].name]) = fileTable[h].hdr.length
<1>1. op.pc = "idle" /\ ~torn
  BY DEF Idle
<1>2. fileTable[h] \in OpenType
  BY <1>1, WholeDisk
<1>3. PICK n, hdr : n = fileTable[h].name /\ hdr = fileTable[h].hdr
  OBVIOUS
<1>4. n \in Name /\ hdr \in Contents /\ fileTable[h].seekPosition \in Nat
  BY <1>2, <1>3 DEF OpenType
<1>5. PICK e \in Entry : diskDir[e].name = n /\ disk[diskDir[e].sector] = hdr
  BY <1>1, <1>3, WholeDisk DEF OpenIn
<1>6. e \in InUse(diskDir)
  BY <1>4, <1>5 DEF InUse
<1>7. Complete(hdr)
  BY <1>1, <1>5, <1>6, FileInEntry, WholeDisk
<1>8. files = FilesOf(disk, diskDir, {})
  BY <1>1, FilesNow DEF Hidden
<1>9. files[n] = BytesOf(disk, hdr)
  BY <1>1, <1>4, <1>5, <1>8, FilesAt, WholeDisk DEF FileIn
<1>10. Len(files[n]) = hdr.length
  BY <1>1, <1>4, <1>7, <1>9, FileIsBytes, WholeDisk
<1> QED
  BY <1>3, <1>4, <1>5, <1>6, <1>7, <1>9, <1>10

\* The position moves by as many bytes as there are.
LEMMA Advanced ==
    ASSUME IInv, Idle, NEW h \in Handle, NEW n \in Nat, fileTable[h] # NULL,
           fileTable' = [fileTable EXCEPT ![h].seekPosition =
                           @ + Transferred(fileTable[h].hdr, n, fileTable[h].seekPosition)]
    PROVE  Store!Advance(h, n)
<1>1. ~torn /\ fileTable \in [Handle -> OpenType \cup {NULL}]
  BY WholeDisk DEF Idle
<1>2. PICK f, x : f = fileTable[h] /\ x = OpenAs(fileTable)
  OBVIOUS
<1>3. /\ f \in OpenType /\ f.hdr \in Contents /\ f.seekPosition \in Nat
      /\ f.name \in Name /\ Len(files[f.name]) = f.hdr.length
  BY <1>1, <1>2, OpenFileIs
<1>4. x[h] # NULL /\ x[h] = SeenAs(f)
  BY <1>1, <1>2, OpenAt
<1>5. PICK k : k = Transferred(f.hdr, n, f.seekPosition)
  OBVIOUS
<1>6. k = Store!Available(f.name, f.seekPosition, n)
  BY <1>3, <1>5 DEF Transferred, Store!Available
<1>7. k \in Nat
  <2>1. k \in 0 .. n
    BY <1>3, <1>5, TransferredInside
  <2> QED
    BY <2>1
<1>8. PICK g : g = [f EXCEPT !.seekPosition = @ + k]
  OBVIOUS
<1>9. g \in OpenType /\ g.name = f.name /\ g.seekPosition = f.seekPosition + k
  BY <1>3, <1>7, <1>8 DEF OpenType
<1>10. g # NULL
  BY <1>9, NullAssumption DEF OpenType
<1>11. PICK new : new = fileTable'
  OBVIOUS
<1>12. new = [fileTable EXCEPT ![h] = g]
  BY <1>1, <1>2, <1>5, <1>8, <1>11
<1>13. OpenAs(new) = [x EXCEPT ![h] = SeenAs(g)]
  <2>1. g \in OpenType
    BY <1>9
  <2>2. OpenAs(new) = [OpenAs(fileTable) EXCEPT ![h] = SeenAs(g)]
    BY <1>1, <1>10, <1>12, <2>1, OpenChanged
  <2> QED
    BY <1>2, <2>2
<1>14. /\ SeenAs(g) = [x[h] EXCEPT !.position = @ + k]
       /\ x[h].name = f.name /\ x[h].position = f.seekPosition
  BY <1>4, <1>9 DEF SeenAs
<1>15. openFiles = x /\ openFiles' = OpenAs(new)
  BY <1>2, <1>11, OpenNow
<1>16. openFiles[h] # NULL /\ openFiles' = [openFiles EXCEPT ![h].position = @ + k]
  BY <1>4, <1>13, <1>14, <1>15
<1>17. k = Store!Available(openFiles[h].name, openFiles[h].position, n)
  BY <1>6, <1>14, <1>15
<1> QED
  BY <1>16, <1>17 DEF Store!Advance

LEMMA OpenFileSeen ==
    ASSUME IInv, NEW n \in Name, OpenFile(n)
    PROVE  Pending' /\ Store!Next
<1>1. Idle /\ ~torn /\ op.pc = "idle" /\ UNCHANGED <<disk, diskMap, diskDir, op, torn>>
  BY DEF OpenFile, Idle
<1>2. PICK e \in Entry, h \in Handle :
         /\ diskDir[e].name = n /\ fileTable[h] = NULL
         /\ fileTable' = [fileTable EXCEPT ![h] =
               [name |-> n, hdr |-> disk[diskDir[e].sector], seekPosition |-> 0]]
  BY DEF OpenFile, Named
<1>3. Pending'
  BY <1>1 DEF Pending
<1>4. files = FilesOf(disk, diskDir, {}) /\ files' = files
  BY <1>1, FilesNow DEF Hidden
<1>5. e \in InUse(diskDir)
  BY <1>2 DEF InUse
<1>6. files[n] # NULL
  <2>1. files[n] = FileIn(disk, diskDir, e)
    BY <1>1, <1>2, <1>4, FilesAt, WholeDisk
  <2> QED
    BY <1>1, <1>5, <2>1, FileInEntry, WholeDisk
<1>7. PICK f, new, x : /\ new = fileTable' /\ x = OpenAs(fileTable)
                       /\ f = [name |-> n, hdr |-> disk[diskDir[e].sector],
                               seekPosition |-> 0]
  OBVIOUS
<1>8. f \in OpenType /\ f.name = n /\ f.seekPosition = 0
  <2>1. disk[diskDir[e].sector] \in Contents
    BY <1>1, <1>5, FileInEntry, WholeDisk
  <2> QED
    BY <1>7, <2>1 DEF OpenType
<1>9. f # NULL
  BY <1>8, NullAssumption DEF OpenType
<1>10. new = [fileTable EXCEPT ![h] = f] /\ fileTable \in [Handle -> OpenType \cup {NULL}]
  BY <1>1, <1>2, <1>7, WholeDisk
<1>11. OpenAs(new) = [x EXCEPT ![h] = [name |-> n, position |-> 0]]
  <2>1. OpenAs(new) = [OpenAs(fileTable) EXCEPT ![h] = SeenAs(f)]
    BY <1>8, <1>9, <1>10, OpenChanged
  <2> QED
    BY <1>7, <1>8, <2>1 DEF SeenAs
<1>12. x[h] = NULL
  BY <1>2, <1>7, <1>10, OpenAt
<1>13. openFiles = x /\ openFiles' = OpenAs(new)
  BY <1>7, OpenNow
<1>14. Store!Open(n, h)
  BY <1>4, <1>6, <1>11, <1>12, <1>13 DEF Store!Open
<1> QED
  BY <1>3, <1>14 DEF Store!Next

LEMMA CloseSeen ==
    ASSUME IInv, NEW h \in Handle, Close(h)
    PROVE  Pending' /\ Store!Next
<1>1. Idle /\ ~torn /\ op.pc = "idle" /\ UNCHANGED <<disk, diskMap, diskDir, op, torn>>
  BY DEF Close, Idle
<1>2. Pending'
  BY <1>1 DEF Pending
<1>3. files' = files
  BY <1>1, FilesNow DEF Hidden
<1>4. PICK new, x : new = fileTable' /\ x = OpenAs(fileTable)
  OBVIOUS
<1>5. /\ new = [fileTable EXCEPT ![h] = NULL]
      /\ fileTable \in [Handle -> OpenType \cup {NULL}]
  BY <1>1, <1>4, WholeDisk DEF Close
<1>6. OpenAs(new) = [x EXCEPT ![h] = NULL]
  BY <1>4, <1>5, OpenEnded
<1>7. Store!Close(h)
  BY <1>3, <1>4, <1>6, OpenNow DEF Store!Close
<1> QED
  BY <1>2, <1>7 DEF Store!Next

LEMMA ReadSeen ==
    ASSUME IInv, NEW h \in Handle, NEW n \in 1 .. SectorSize + 1, Read(h, n)
    PROVE  Pending' /\ Store!Next
<1>1. /\ Idle /\ ~torn /\ op.pc = "idle" /\ UNCHANGED <<disk, diskMap, diskDir, op, torn>>
      /\ fileTable[h] # NULL
  BY DEF Read, Idle
<1>2. Pending'
  BY <1>1 DEF Pending
<1>3. files' = files
  BY <1>1, FilesNow DEF Hidden
<1>4. PICK hdr, p, k : /\ hdr = fileTable[h].hdr /\ p = fileTable[h].seekPosition
                       /\ k = Transferred(hdr, n, p)
  OBVIOUS
<1>5. hdr \in Contents /\ p \in Nat /\ n \in Nat
  BY <1>1, <1>4, OpenFileIs
<1>6. k \in Nat
  <2>1. k \in 0 .. n
    BY <1>4, <1>5, TransferredInside
  <2> QED
    BY <1>5, <2>1
<1>7. Len(ReadAt(hdr, n, p)) = k
  <2>1. PICK S : S = {ByteAt(hdr, p + j - 1) : j \in 1 .. k}
    OBVIOUS
  <2>2. ReadAt(hdr, n, p) \in [1 .. k -> S]
    BY <1>4, <2>1 DEF ReadAt
  <2> QED
    BY <1>6, <2>2, LenOfFunction
<1>8. fileTable' = [fileTable EXCEPT ![h].seekPosition = @ + k]
  BY <1>4, <1>7 DEF Read
<1>9. Store!Advance(h, n)
  BY <1>1, <1>4, <1>5, <1>8, Advanced
<1>10. Store!Read(h, n)
  BY <1>3, <1>9 DEF Store!Read
<1> QED
  BY <1>2, <1>10 DEF Store!Next

-----------------------------------------------------------------------------
(* OpenFile::WriteAt *)

LEMMA DivBounds ==
    ASSUME NEW x \in Nat
    PROVE  /\ x \div SectorSize \in Nat
           /\ x % SectorSize \in 0 .. SectorSize - 1
           /\ x = (x \div SectorSize) * SectorSize + (x % SectorSize)
           /\ x < (x \div SectorSize + 1) * SectorSize
OBVIOUS

LEMMA DivMonotonic ==
    ASSUME NEW x \in Nat, NEW y \in Nat, x <= y
    PROVE  x \div SectorSize <= y \div SectorSize
OBVIOUS

\* The sectors from position on that take n bytes.
Touched(n, position) ==
    IF n = 0 THEN {} ELSE position \div SectorSize .. (position + n - 1) \div SectorSize

\* What is not overwritten in a sector is filled with what it held: before the
\* new bytes it is in the first sector, behind them in the last.
LEMMA OutsideFilledBack ==
    ASSUME NEW position \in Nat, NEW n \in Nat \ {0}, NEW at \in Nat,
           at \div SectorSize \in Touched(n, position),
           ~(at >= position /\ at < position + n)
    PROVE  LET first == position \div SectorSize
               last == (position + n - 1) \div SectorSize
           IN  FilledBack(first, last, at \div SectorSize,
                          position = first * SectorSize,
                          position + n = (last + 1) * SectorSize)
<1>1. PICK first, last, i : /\ first = position \div SectorSize
                            /\ last = (position + n - 1) \div SectorSize
                            /\ i = at \div SectorSize
  OBVIOUS
<1>2. position + n - 1 \in Nat
  OBVIOUS
<1>3. /\ first \in Nat /\ last \in Nat /\ i \in Nat
      /\ i * SectorSize <= at /\ at < (i + 1) * SectorSize
      /\ first * SectorSize <= position /\ last * SectorSize <= position + n - 1
  <2>1. first \in Nat /\ first * SectorSize <= position
    BY <1>1, DivBounds
  <2>2. last \in Nat /\ last * SectorSize <= position + n - 1
    BY <1>1, <1>2, DivBounds
  <2>3. i \in Nat /\ i * SectorSize <= at /\ at < (i + 1) * SectorSize
    BY <1>1, DivBounds
  <2> QED
    BY <2>1, <2>2, <2>3
<1>4. first <= i /\ i <= last
  BY <1>1, <1>3 DEF Touched
<1>5. CASE at < position
  <2>1. i <= first
    BY <1>1, <1>5, DivMonotonic
  <2>2. i = first
    BY <1>3, <1>4, <2>1
  <2>3. position # first * SectorSize
    BY <1>3, <1>5, <2>2
  <2> QED
    BY <1>1, <2>2, <2>3 DEF FilledBack
<1>6. CASE at >= position + n
  <2>1. last <= i
    BY <1>1, <1>2, <1>6, DivMonotonic
  <2>2. i = last
    BY <1>3, <1>4, <2>1
  <2>3. position + n # (last + 1) * SectorSize
    BY <1>3, <1>6, <2>2
  <2> QED
    BY <1>1, <2>2, <2>3 DEF FilledBack
<1> QED
  BY <1>5, <1>6

\* The sectors of the bytes of a write, and of no others.
LEMMA InsideTouched ==
    ASSUME NEW position \in Nat, NEW n \in Nat, NEW at \in Nat,
           at >= position, at < position + n
    PROVE  at \div SectorSize \in Touched(n, position)
<1>1. n # 0 /\ position + n - 1 \in Nat /\ at <= position + n - 1
  OBVIOUS
<1>2. PICK first, last, i : /\ first = position \div SectorSize
                            /\ last = (position + n - 1) \div SectorSize
                            /\ i = at \div SectorSize
  OBVIOUS
<1>3. first <= i
  BY <1>2, DivMonotonic
<1>4. i <= last
  BY <1>1, <1>2, DivMonotonic
<1>5. first \in Nat /\ last \in Nat /\ i \in Nat
  BY <1>1, <1>2, DivNat
<1> QED
  BY <1>1, <1>2, <1>3, <1>4, <1>5 DEF Touched

\* Which bytes are transferred: those asked for that the file has.
LEMMA TransferredBytes ==
    ASSUME NEW hdr \in Contents, NEW m \in Nat, NEW position \in Nat,
           NEW k \in 1 .. hdr.length
    PROVE  k - position \in 1 .. m
           <=> k - 1 >= position /\ k - 1 < position + Transferred(hdr, m, position)
<1>1. hdr.length \in Nat
  BY DEF Contents
<1> QED
  BY <1>1 DEF Transferred

\* A write touches sectors of its file only.
LEMMA TouchedInside ==
    ASSUME NEW hdr \in Contents, Complete(hdr), NEW m \in Nat, NEW position \in Nat,
           NEW n \in Nat, n = Transferred(hdr, m, position), NEW i \in Touched(n, position)
    PROVE  /\ i \in Nat /\ i + 1 \in 1 .. Len(hdr.sectors)
           /\ hdr.sectors[i + 1] \in DataSectors(hdr)
<1>1. hdr.length \in Nat
  BY DEF Contents
<1>2. n # 0 /\ position + n <= hdr.length
  <2>1. n # 0
    BY DEF Touched
  <2>2. n > 0 => position + n <= hdr.length
    BY TransferredInside
  <2> QED
    BY <2>1, <2>2
<1>3. position + n - 1 \in Nat /\ position + n - 1 < hdr.length
  BY <1>1, <1>2
<1>4. PICK first, last : /\ first = position \div SectorSize
                         /\ last = (position + n - 1) \div SectorSize
  OBVIOUS
<1>5. last \in Nat /\ last + 1 \in 1 .. Len(hdr.sectors)
  BY <1>1, <1>3, <1>4, ByteInside, DivNat DEF Complete
<1>6. first \in Nat /\ i \in first .. last
  BY <1>2, <1>4, DivNat DEF Touched
<1>7. i \in Nat /\ i + 1 \in 1 .. Len(hdr.sectors)
  BY <1>5, <1>6
<1> QED
  BY <1>7, HeaderSectors DEF DataSectors

LEMMA BufferLength ==
    ASSUME NEW from \in Buffer
    PROVE  Len(from) \in Nat /\ DOMAIN from = 1 .. Len(from)
<1>1. PICK m \in 1 .. SectorSize + 1 : from \in [1 .. m -> Byte]
  BY DEF Buffer
<1> QED
  BY <1>1, LenOfFunction

\* The disk after a write.
IsWritten(dl, hdr, from, n, position) ==
    LET touched == Touched(n, position) IN
    \A s \in Sector :
        dl[s] = IF \E i \in touched : hdr.sectors[i + 1] = s
                THEN Block(Written(hdr, from, n, position,
                                   CHOOSE i \in touched : hdr.sectors[i + 1] = s))
                ELSE disk[s]

\* After a write of n bytes the file holds them from position on, and what it held
\* before elsewhere.
LEMMA BytesWritten ==
    ASSUME disk \in [Sector -> Contents], NEW hdr \in Contents, Complete(hdr),
           NEW from \in Buffer, NEW position \in Nat,
           NEW n, n = Transferred(hdr, Len(from), position),
           NEW dl, IsWritten(dl, hdr, from, n, position), NEW k \in 1 .. hdr.length
    PROVE  BytesOf(dl, hdr)[k] =
              IF k - position \in 1 .. Len(from) THEN from[k - position]
              ELSE BytesOf(disk, hdr)[k]
<1>1. hdr.length \in Nat /\ Len(from) \in Nat
  BY BufferLength DEF Contents
<1>2. n \in Nat
  <2>1. n \in 0 .. Len(from)
    BY <1>1, TransferredInside
  <2> QED
    BY <1>1, <2>1
<1>3. PICK at, touched : at = k - 1 /\ touched = Touched(n, position)
  OBVIOUS
<1>4. at \in Nat /\ at < hdr.length /\ k = at + 1
  BY <1>1, <1>3
<1>5. \A r \in Sector :
          dl[r] = IF \E d \in touched : hdr.sectors[d + 1] = r
                  THEN Block(Written(hdr, from, n, position,
                                     CHOOSE d \in touched : hdr.sectors[d + 1] = r))
                  ELSE disk[r]
  BY <1>3 DEF IsWritten
<1>6. PICK i, j : i = at \div SectorSize /\ j = (at % SectorSize) + 1
  OBVIOUS
<1>7. /\ i \in Nat /\ j \in 1 .. SectorSize /\ i * SectorSize + j - 1 = at
  <2>1. /\ i \in Nat /\ at % SectorSize \in 0 .. SectorSize - 1
        /\ at = i * SectorSize + (at % SectorSize)
    BY <1>4, <1>6, DivBounds
  <2>2. PICK r, x : r = at % SectorSize /\ x = i * SectorSize
    OBVIOUS
  <2>3. x \in Int /\ r \in 0 .. SectorSize - 1 /\ at = x + r /\ j = r + 1
    BY <1>6, <2>1, <2>2
  <2>4. j \in 1 .. SectorSize /\ x + j - 1 = at
    BY <2>3
  <2> QED
    BY <2>1, <2>2, <2>4
<1>8. i + 1 \in 1 .. Len(hdr.sectors)
  BY <1>1, <1>4, <1>6, ByteInside DEF Complete
<1>9. PICK s : s = hdr.sectors[i + 1]
  OBVIOUS
<1>10. s \in Sector
  BY <1>8, <1>9, HeaderSectors
<1>11. /\ BytesOf(dl, hdr)[k] = dl[s].bytes[j]
       /\ BytesOf(disk, hdr)[k] = disk[s].bytes[j]
       /\ ByteAt(hdr, at) = disk[s].bytes[j]
  BY <1>3, <1>6, <1>9 DEF BytesOf, ByteToSector, ByteAt
<1>12. k - position \in 1 .. Len(from) <=> at >= position /\ at < position + n
  BY <1>1, <1>3, TransferredBytes
<1>13. \A d \in touched : hdr.sectors[d + 1] = s => d = i
  <2> SUFFICES ASSUME NEW d \in touched, hdr.sectors[d + 1] = s
               PROVE  d = i
    OBVIOUS
  <2>1. d \in Nat /\ d + 1 \in 1 .. Len(hdr.sectors)
    BY <1>1, <1>2, <1>3, TouchedInside
  <2>2. d + 1 = i + 1
    BY <1>8, <1>9, <2>1, HeaderSectors DEF Complete
  <2> QED
    BY <1>7, <2>1, <2>2
<1>14. CASE i \in touched
  <2>1. (CHOOSE d \in touched : hdr.sectors[d + 1] = s) = i
    BY <1>9, <1>13, <1>14
  <2>2. dl[s] = Block(Written(hdr, from, n, position, i))
    BY <1>5, <1>9, <1>10, <1>14, <2>1
  <2>3. dl[s].bytes[j] = Written(hdr, from, n, position, i)[j]
    BY <2>2 DEF Block
  <2>4. ASSUME ~(at >= position /\ at < position + n)
        PROVE  FilledBack(position \div SectorSize, (position + n - 1) \div SectorSize, i,
                          position = (position \div SectorSize) * SectorSize,
                          position + n
                            = ((position + n - 1) \div SectorSize + 1) * SectorSize)
    <3>1. n \in Nat \ {0}
      BY <1>2, <1>3, <1>14 DEF Touched
    <3> QED
      BY <1>3, <1>4, <1>6, <1>14, <2>4, <3>1, OutsideFilledBack
  <2>5. Written(hdr, from, n, position, i)[j]
          = IF at >= position /\ at < position + n THEN from[at - position + 1]
            ELSE ByteAt(hdr, at)
    BY <1>4, <1>7, <2>4 DEF Written
  <2>6. k - position = at - position + 1
    BY <1>4
  <2> QED
    BY <1>11, <1>12, <2>3, <2>5, <2>6
<1>15. CASE i \notin touched
  <2>1. ~(at >= position /\ at < position + n)
    BY <1>2, <1>3, <1>4, <1>6, <1>15, InsideTouched
  <2>2. ~\E d \in touched : hdr.sectors[d + 1] = s
    BY <1>13, <1>15
  <2>3. dl[s] = disk[s]
    BY <1>5, <1>10, <2>2
  <2> QED
    BY <1>11, <1>12, <2>1, <2>3
<1> QED
  BY <1>14, <1>15

LEMMA WriteSeen ==
    ASSUME IInv, NEW h \in Handle, NEW from \in Buffer, Write(h, from)
    PROVE  Pending' /\ Store!Next
<1>1. /\ Idle /\ ~torn /\ op.pc = "idle" /\ fileTable[h] # NULL
      /\ UNCHANGED <<diskMap, diskDir, op, torn>>
  BY DEF Write, Idle
<1>2. Pending'
  BY <1>1 DEF Pending
<1>3. PICK hdr, position, name, n, dl :
         /\ hdr = fileTable[h].hdr /\ position = fileTable[h].seekPosition
         /\ name = fileTable[h].name
         /\ n = Transferred(hdr, Len(from), position)
         /\ dl = disk'
  OBVIOUS
<1>4. /\ IsWritten(dl, hdr, from, n, position)
      /\ fileTable' = [fileTable EXCEPT ![h].seekPosition = @ + n]
  BY <1>3 DEF Write, Touched, IsWritten
<1>5. PICK e \in InUse(diskDir) :
         /\ diskDir[e].name = name /\ disk[diskDir[e].sector] = hdr
         /\ name \in Name /\ hdr \in Contents /\ position \in Nat /\ Complete(hdr)
         /\ files[name] = BytesOf(disk, hdr)
  BY <1>1, <1>3, OpenFileIs
<1>6. Len(from) \in Nat /\ DOMAIN from = 1 .. Len(from) /\ n \in Nat
  <2>1. Len(from) \in Nat /\ DOMAIN from = 1 .. Len(from)
    BY BufferLength
  <2>2. n \in 0 .. Len(from)
    BY <1>3, <1>5, <2>1, TransferredInside
  <2> QED
    BY <2>1, <2>2
<1>7. Store!Advance(h, Len(from))
  BY <1>1, <1>3, <1>4, <1>6, Advanced
<1>8. \A s \in Sector \ DataSectors(hdr) : dl[s] = disk[s]
  <2>1. \A i \in Touched(n, position) : hdr.sectors[i + 1] \in DataSectors(hdr)
    BY <1>3, <1>5, <1>6, TouchedInside
  <2> QED
    BY <1>4, <2>1 DEF IsWritten
<1>9. files = FilesOf(disk, diskDir, {}) /\ files' = FilesOf(dl, diskDir, {})
  BY <1>1, <1>3, FilesNow DEF Hidden
<1>10. /\ \A d \in InUse(diskDir) : SectorsOf(disk, diskDir, d) \in SUBSET Sector
       /\ diskDir[e].sector \notin DataSectors(hdr)
  <2>1. \A d \in InUse(diskDir) : SectorsOf(disk, diskDir, d) \in SUBSET Sector
    BY <1>1, FileInEntry, HeaderSectors, WholeDisk DEF SectorsOf
  <2>2. diskDir[e].sector \notin DataSectors(hdr)
    BY <1>1, <1>5, WholeDisk DEF Good
  <2> QED
    BY <2>1, <2>2
<1>11. ASSUME NEW x \in Name, x # name
       PROVE  FilesOf(dl, diskDir, {})[x] = FilesOf(disk, diskDir, {})[x]
  <2>1. CASE \A d \in Entry : diskDir[d].name # x
    BY <2>1 DEF FilesOf, Named
  <2>2. CASE \E d \in Entry : diskDir[d].name = x
    <3>1. PICK d \in Entry : diskDir[d].name = x
      BY <2>2
    <3>2. d \in InUse(diskDir) /\ d # e
      BY <1>5, <1>11, <3>1 DEF InUse
    <3>3. SectorsOf(disk, diskDir, d) \cap DataSectors(hdr) = {}
      <4>1. SectorsOf(disk, diskDir, d) \cap SectorsOf(disk, diskDir, e) = {}
        BY <1>1, <3>2, WholeDisk DEF Apart
      <4> QED
        BY <1>5, <4>1 DEF SectorsOf
    <3>4. \A r \in SectorsOf(disk, diskDir, d) : dl[r] = disk[r]
      BY <1>8, <1>10, <3>2, <3>3
    <3>5. FileIn(dl, diskDir, d) = FileIn(disk, diskDir, d)
      BY <1>1, <3>2, <3>4, SameFile, WholeDisk
    <3>6. (CHOOSE y \in Named(diskDir, x) : TRUE) = d
      <4>1. Named(diskDir, x) = {d}
        BY <1>1, <3>1, <3>2, WholeDisk DEF Apart, InUse, Named
      <4> QED
        BY <4>1
    <3> QED
      BY <3>5, <3>6 DEF FilesOf
  <2> QED
    BY <2>1, <2>2
<1>12. FilesOf(dl, diskDir, {})[name] = BytesOf(dl, hdr)
  <2>1. dl[diskDir[e].sector] = hdr
    BY <1>5, <1>8, <1>10 DEF SectorsOf
  <2>2. Named(diskDir, name) = {e}
    BY <1>1, <1>5, WholeDisk DEF Apart, InUse, Named
  <2>3. (CHOOSE y \in Named(diskDir, name) : TRUE) = e
    BY <2>2
  <2>4. \E d \in Named(diskDir, name) : name \notin {}
    BY <2>2
  <2> QED
    BY <1>5, <2>1, <2>3, <2>4 DEF FilesOf, FileIn
<1>13. PICK old, new : old = files[name] /\ new = BytesOf(dl, hdr)
  OBVIOUS
<1>14. new = [k \in DOMAIN old |->
                IF k - position \in DOMAIN from THEN from[k - position] ELSE old[k]]
  <2>1. \A k \in 1 .. hdr.length :
           new[k] = IF k - position \in DOMAIN from THEN from[k - position] ELSE old[k]
    <3>1. ASSUME NEW k \in 1 .. hdr.length
          PROVE  BytesOf(dl, hdr)[k] = IF k - position \in 1 .. Len(from)
                                       THEN from[k - position] ELSE BytesOf(disk, hdr)[k]
      BY <1>1, <1>3, <1>4, <1>5, BytesWritten, WholeDisk
    <3> QED
      BY <1>5, <1>6, <1>13, <3>1
  <2>2. DOMAIN old = 1 .. hdr.length /\ new = [k \in 1 .. hdr.length |-> new[k]]
    BY <1>5, <1>13 DEF BytesOf
  <2> QED
    BY <2>1, <2>2
<1>15. files' = [files EXCEPT ![name] = new]
  <2>1. PICK f, g : f = files /\ g = files'
    OBVIOUS
  <2>2. f = [x \in Name |-> f[x]] /\ g = [x \in Name |-> g[x]]
    BY <2>1 DEF files
  <2>3. \A x \in Name : g[x] = IF x = name THEN new ELSE f[x]
    BY <1>9, <1>11, <1>12, <1>13, <2>1
  <2>4. g = [f EXCEPT ![name] = new]
    BY <1>5, <2>2, <2>3
  <2> QED
    BY <2>1, <2>4
<1>16. openFiles[h].name = name /\ openFiles[h].position = position
  <2>1. openFiles[h] = SeenAs(fileTable[h])
    BY <1>1, OpenNow, OpenAt, WholeDisk
  <2> QED
    BY <1>3, <2>1 DEF SeenAs
<1>17. Store!Write(h, from)
  BY <1>7, <1>13, <1>14, <1>16, <1>15 DEF Store!Write
<1>18. from \in Store!Buffers(SectorSize + 1)
  BY DEF Buffer, Store!Buffers
<1> QED
  BY <1>2, <1>17, <1>18 DEF Store!Next

-----------------------------------------------------------------------------
(* The start and the halts *)

LEMMA NoneOpenSeen ==
    ASSUME NEW table, table = [h \in Handle |-> NULL]
    PROVE  OpenAs(table) = [h \in Handle |-> NULL]
BY DEF OpenAs

LEMMA NoFiles ==
    ASSUME NEW dk, NEW dir, dir = [e \in Entry |-> Unused], NEW hidden
    PROVE  FilesOf(dk, dir, hidden) = [n \in Name |-> NULL]
<1>1. \A n \in Name : Named(dir, n) = {}
  BY EmptyDirectory DEF Named
<1> QED
  BY <1>1 DEF FilesOf

LEMMA InitSeen == Init => Store!Init /\ StoreInv
<1> SUFFICES ASSUME Init PROVE Store!Init /\ StoreInv
  OBVIOUS
<1>1. /\ diskDir = [e \in Entry |-> Unused]
      /\ fileTable = [h \in Handle |-> NULL]
      /\ op = NoOp
  BY DEF Init
<1>2. files = [n \in Name |-> NULL]
  BY <1>1, FilesNow, NoFiles
<1>3. openFiles = [h \in Handle |-> NULL]
  BY <1>1, OpenNow, NoneOpenSeen
<1>4. Pending
  BY <1>1, NoOpType DEF Pending
<1> QED
  BY <1>2, <1>3, <1>4, InitIInv DEF StoreInv, Store!Init

LEMMA RestartSeen ==
    ASSUME StoreInv, Restart, ~torn'
    PROVE  Pending' /\ Store!Next
<1>1. /\ op.pc # "writeMap" /\ op' = NoOp
      /\ fileTable' = [h \in Handle |-> NULL]
      /\ UNCHANGED <<disk, diskDir>>
  BY DEF Restart
<1>2. Pending'
  BY <1>1, NoOpType DEF Pending
<1>3. files' = files
  BY <1>1, FilesNow, NoOpType DEF Hidden
<1>4. PICK table : table = fileTable'
  OBVIOUS
<1>5. OpenAs(table) = [h \in Handle |-> NULL]
  BY <1>1, <1>4, NoneOpenSeen
<1>6. Store!Restart
  BY <1>3, <1>4, <1>5, OpenNow DEF Store!Restart
<1> QED
  BY <1>2, <1>6 DEF Store!Next

LEMMA FormatSeen ==
    ASSUME Format
    PROVE  Pending' /\ Store!Next
<1>1. /\ op' = NoOp /\ fileTable' = [h \in Handle |-> NULL]
      /\ diskDir' = [e \in Entry |-> Unused]
  BY DEF Format
<1>2. Pending'
  BY <1>1, NoOpType DEF Pending
<1>3. PICK table, dir, dl, hidden :
         table = fileTable' /\ dir = diskDir' /\ dl = disk' /\ hidden = Hidden'
  OBVIOUS
<1>4. FilesOf(dl, dir, hidden) = [n \in Name |-> NULL]
  BY <1>1, <1>3, NoFiles
<1>5. OpenAs(table) = [h \in Handle |-> NULL]
  BY <1>1, <1>3, NoneOpenSeen
<1>6. Store!Restart
  BY <1>3, <1>4, <1>5, FilesNow, OpenNow DEF Store!Restart
<1> QED
  BY <1>2, <1>6 DEF Store!Next

-----------------------------------------------------------------------------
(* The file system keeps the promise of FileStore *)

StoreStep == [Store!Next \/ torn \/ torn']_<<files, openFiles>>

LEMMA NextSeen ==
    ASSUME StoreInv, IInv', [Next]_vars
    PROVE  StoreInv' /\ StoreStep
<1>1. IInv
  BY DEF StoreInv
<1> SUFFICES (~torn' => Pending') /\ StoreStep
  BY DEF StoreInv
<1>2. ASSUME NEW n \in Name, NEW size \in 0 .. MaxFileSize, Create(n, size)
      PROVE  (~torn' => Pending') /\ StoreStep
  BY <1>1, <1>2, CreateUnseen DEF Unseen, StoreStep
<1>3. ASSUME NEW n \in Name, Remove(n) \/ OpenFile(n)
      PROVE  (~torn' => Pending') /\ StoreStep
  BY <1>1, <1>3, RemoveUnseen, OpenFileSeen DEF Unseen, StoreStep
<1>4. ASSUME NEW h \in Handle,
             \/ Close(h)
             \/ \E n \in 1 .. SectorSize + 1 : Read(h, n)
             \/ \E from \in Buffer : Write(h, from)
      PROVE  (~torn' => Pending') /\ StoreStep
  BY <1>1, <1>4, CloseSeen, ReadSeen, WriteSeen DEF StoreStep
<1>5. ASSUME WriteHeader \/ WriteDirectory \/ RemoveMap
      PROVE  (~torn' => Pending') /\ StoreStep
  BY <1>5, WriteHeaderUnseen, WriteDirectoryUnseen, RemoveMapUnseen DEF Unseen, StoreStep
<1>6. ASSUME CreateEnd \/ RemoveEnd \/ Restart \/ Format
      PROVE  (~torn' => Pending') /\ StoreStep
  BY <1>6, CreateEndSeen, RemoveEndSeen, RestartSeen, FormatSeen DEF StoreStep
<1>7. ASSUME UNCHANGED vars
      PROVE  (~torn' => Pending') /\ StoreStep
  <2>1. UNCHANGED <<files, openFiles>>
    BY <1>7, FilesNow, TableUnseen DEF vars, Hidden
  <2>2. ~torn' => Pending'
    BY <1>7 DEF StoreInv, Pending, vars
  <2> QED
    BY <2>1, <2>2 DEF StoreStep
<1> QED
  BY <1>2, <1>3, <1>4, <1>5, <1>6, <1>7 DEF Next

\* filesys.cc:188-208, 270-284 and openfile.cc: whatever calls are made and whichever
\* write a halt interrupts, callers see files that are created whole, stay as they
\* were written and go away whole, and Create succeeds whenever there is room; only
\* a halt between the last two writes of Create or Remove is left out.
THEOREM FilesAreKept == Spec => StoreUnlessTorn
<1>1. Spec => Store!Init
  BY InitSeen DEF Spec
<1>2. Spec => [][Store!Next \/ torn \/ torn']_<<files, openFiles>>
  <2>1. Init => StoreInv
    BY InitSeen
  <2>2. StoreInv /\ IInv' /\ [Next]_vars => StoreInv' /\ StoreStep
    BY NextSeen
  <2> QED
    BY <2>1, <2>2, Invariance, PTL DEF Spec, StoreStep
<1>3. IInv => RoomIsFound
  BY RoomFound
<1> QED
  BY <1>1, <1>2, <1>3, Invariance, PTL DEF StoreUnlessTorn

=============================================================================
