----------------------------- MODULE FileSystem -----------------------------
(***************************************************************************)
(* The Nachos file system (filesys/): files of a fixed length with a       *)
(* header sector, one directory, and a bit map of the sectors in use, on a *)
(* disk of numbered sectors.                                               *)
(*                                                                         *)
(* FileSystem::Create says that nobody else uses the file system at the    *)
(* same time, so there is one caller.  What makes it hard is that the      *)
(* machine may halt between any two writes to the disk (any program may     *)
(* call Halt): Create and Remove change the header, the directory and the  *)
(* bit map one after the other, and the next start reads what is there.    *)
(* A halt between the writes of directory and bit map leaves a disk whose  *)
(* directory names sectors that the map calls free (`torn'); such a disk is *)
(* followed only to the next start that formats it.                        *)
(*                                                                         *)
(* Bytes stand for what is in them; Junk is what a buffer or a sector      *)
(* holds before anything was written to it.                                *)
(***************************************************************************)
EXTENDS Integers, Sequences, FiniteSets

CONSTANTS Name, Byte, Junk, NULL,
          NumSectors,       \* sectors of the disk
          NumReserved,      \* first sectors: headers and data of map and directory
          SectorSize,       \* bytes in a sector
          NumDirEntries,    \* entries of the directory
          NumHandles,       \* slots of a program's table of open files
          MaxFileSize       \* bound: largest file a program creates

ASSUME FileSystemAssumption ==
    /\ NULL \notin Name
    /\ Junk \notin Byte
    /\ NumSectors \in Nat \ {0}
    /\ NumReserved \in 0 .. NumSectors
    /\ SectorSize \in Nat \ {0}
    /\ NumDirEntries \in Nat
    /\ NumHandles \in Nat
    /\ MaxFileSize \in Nat

Sector == 0 .. NumSectors - 1
Reserved == 0 .. NumReserved - 1
Entry == 1 .. NumDirEntries
Handle == 0 .. NumHandles - 1

VARIABLES
    disk,       \* contents of the sectors, but for those of map and directory
    diskMap,    \* the bit map on the disk: the sectors marked in it
    diskDir,    \* the directory on the disk
    op,         \* the call that is writing to the disk, with its copies
    fileTable,  \* open files of the program: AddrSpace::fileTable
    torn        \* a halt has left a directory that does not agree with the map

vars == <<disk, diskMap, diskDir, op, fileTable, torn>>

-----------------------------------------------------------------------------
(* Sectors *)

\* A sector is read as a header or as a block, whatever was written to it.
JunkBytes == [k \in 1 .. SectorSize |-> Junk]
Header(length, sectors) == [length |-> length, sectors |-> sectors, bytes |-> JunkBytes]
Block(bytes) == [length |-> 0, sectors |-> <<>>, bytes |-> bytes]

Free(map) == Sector \ map

\* BitMap::Find: s is the first sector whose bit is clear.
IsFound(map, s) == s \in Free(map) /\ \A r \in Free(map) : s <= r

NumSectorsFor(size) == (size + SectorSize - 1) \div SectorSize

\* FileHeader::Allocate: one Find after the other.
IsAllocation(map, sectors) ==
    /\ \A i \in DOMAIN sectors, j \in DOMAIN sectors :
          i < j => sectors[i] < sectors[j]
    /\ \A i \in DOMAIN sectors, r \in Free(map) :
          r < sectors[i] => \E j \in DOMAIN sectors : sectors[j] = r

DataSectors(hdr) == {hdr.sectors[i] : i \in DOMAIN hdr.sectors}

-----------------------------------------------------------------------------
(* Directory *)

Unused == [name |-> NULL, sector |-> 0]

\* Directory::FindIndex.
Named(dir, n) == {e \in Entry : dir[e].name = n}

\* Directory::Add: the first entry that is not in use.
IsFirstUnused(dir, e) ==
    /\ dir[e].name = NULL
    /\ \A d \in Entry : dir[d].name = NULL => e <= d

NoOp == [pc |-> "idle", name |-> NULL, sector |-> 0, hdr |-> Header(0, <<>>),
         dir |-> [e \in Entry |-> Unused], map |-> {}]

\* FileSystem::FileSystem with format = TRUE.
Init ==
    /\ diskMap = Reserved
    /\ diskDir = [e \in Entry |-> Unused]
    /\ disk = [s \in Sector |-> Block(JunkBytes)]
    /\ op = NoOp
    /\ fileTable = [h \in Handle |-> NULL]
    /\ torn = FALSE

Idle == op.pc = "idle" /\ ~torn

-----------------------------------------------------------------------------
(* FileSystem::Create *)

\* The name is new, and there is a sector for the header, an entry of the
\* directory and enough sectors for the data.
CanCreate(n, size) ==
    /\ Named(diskDir, n) = {}
    /\ Free(diskMap) # {}
    /\ \E e \in Entry : diskDir[e].name = NULL
    /\ Cardinality(Free(diskMap)) - 1 >= NumSectorsFor(size)

\* Up to the first write: directory and map are changed in memory.
Create(n, size) ==
    /\ Idle
    /\ CanCreate(n, size)
    /\ \E s \in Free(diskMap), e \in Entry :
       \E sectors \in [1 .. NumSectorsFor(size) -> Free(diskMap \cup {s})] :
          /\ IsFound(diskMap, s)
          /\ IsFirstUnused(diskDir, e)
          /\ IsAllocation(diskMap \cup {s}, sectors)
          /\ op' = [pc |-> "writeHeader", name |-> n, sector |-> s,
                    hdr |-> Header(size, sectors),
                    dir |-> [diskDir EXCEPT ![e] = [name |-> n, sector |-> s]],
                    map |-> diskMap \cup {s} \cup {sectors[i] : i \in DOMAIN sectors}]
    /\ UNCHANGED <<disk, diskMap, diskDir, fileTable, torn>>

WriteHeader ==
    /\ op.pc = "writeHeader"
    /\ disk' = [disk EXCEPT ![op.sector] = op.hdr]
    /\ op' = [op EXCEPT !.pc = "writeDirectory"]
    /\ UNCHANGED <<diskMap, diskDir, fileTable, torn>>

WriteDirectory ==
    /\ op.pc = "writeDirectory"
    /\ diskDir' = op.dir
    /\ op' = [op EXCEPT !.pc = "writeMap"]
    /\ UNCHANGED <<disk, diskMap, fileTable, torn>>

CreateEnd ==
    /\ op.pc = "writeMap"
    /\ diskMap' = op.map
    /\ op' = NoOp
    /\ UNCHANGED <<disk, diskDir, fileTable, torn>>

-----------------------------------------------------------------------------
(* FileSystem::Remove.  Its callers, the option -r and the performance test,  *)
(* remove a file when nobody has it open.                                     *)

\* Mutant: the sector of the header is not given back.
ClearedDataOnly(map, sector) == map \ DataSectors(disk[sector])

\* FileHeader::Deallocate, and the header's own sector.
Cleared(map, sector) == map \ (DataSectors(disk[sector]) \cup {sector})

Remove(n) ==
    /\ Idle
    /\ \A h \in Handle : fileTable[h] # NULL => fileTable[h].name # n
    /\ \E e \in Named(diskDir, n) :
          op' = [NoOp EXCEPT !.pc = "removeMap", !.name = n,
                   !.sector = diskDir[e].sector,
                   !.dir = [diskDir EXCEPT ![e] = Unused],
                   !.map = Cleared(diskMap, diskDir[e].sector)]
    /\ UNCHANGED <<disk, diskMap, diskDir, fileTable, torn>>

RemoveMap ==
    /\ op.pc = "removeMap"
    /\ diskMap' = op.map
    /\ op' = [op EXCEPT !.pc = "removeDirectory"]
    /\ UNCHANGED <<disk, diskDir, fileTable, torn>>

RemoveEnd ==
    /\ op.pc = "removeDirectory"
    /\ diskDir' = op.dir
    /\ op' = NoOp
    /\ UNCHANGED <<disk, diskMap, fileTable, torn>>

-----------------------------------------------------------------------------
(* Open files *)

\* FileSystem::Open and Open_Syscall: an OpenFile keeps a copy of the header.
\* With no such file, or the table full, nothing changes.
OpenFile(n) ==
    LET unused == {h \in Handle : fileTable[h] = NULL} IN
    /\ Idle
    /\ \E e \in Named(diskDir, n), h \in unused :
          /\ \A g \in unused : h <= g
          /\ fileTable' = [fileTable EXCEPT ![h] =
                [name |-> n, hdr |-> disk[diskDir[e].sector], seekPosition |-> 0]]
    /\ UNCHANGED <<disk, diskMap, diskDir, op, torn>>

Close(h) ==
    /\ Idle
    /\ fileTable[h] # NULL
    /\ fileTable' = [fileTable EXCEPT ![h] = NULL]
    /\ UNCHANGED <<disk, diskMap, diskDir, op, torn>>

\* FileHeader::ByteToSector, and the byte of the file at an offset.
ByteToSector(hdr, offset) == hdr.sectors[offset \div SectorSize + 1]
ByteAt(hdr, offset) ==
    disk[ByteToSector(hdr, offset)].bytes[(offset % SectorSize) + 1]

\* The number of bytes that ReadAt and WriteAt transfer.
Transferred(hdr, n, position) ==
    IF position >= hdr.length THEN 0
    ELSE IF position + n > hdr.length THEN hdr.length - position ELSE n

\* OpenFile::ReadAt.
ReadAt(hdr, n, position) ==
    [k \in 1 .. Transferred(hdr, n, position) |-> ByteAt(hdr, position + k - 1)]

Read(h, n) ==
    LET f == fileTable[h]
        into == ReadAt(f.hdr, n, f.seekPosition)
    IN
    /\ Idle
    /\ f # NULL
    /\ fileTable' = [fileTable EXCEPT ![h].seekPosition = @ + Len(into)]
    /\ UNCHANGED <<disk, diskMap, diskDir, op, torn>>

\* Mutant: the last sector is not read back when it is the first one, too.
FilledBackOnce(first, last, i, firstAligned, lastAligned) ==
    \/ i = first /\ ~firstAligned
    \/ i = last /\ ~lastAligned /\ first # last

\* Sector i of a write is filled with what it holds before the new bytes go in.
FilledBack(first, last, i, firstAligned, lastAligned) ==
    \/ i = first /\ ~firstAligned
    \/ i = last /\ ~lastAligned /\ (first # last \/ firstAligned)

\* OpenFile::WriteAt of n > 0 bytes: the contents of sector i of the file.
Written(hdr, from, n, position, i) ==
    LET first == position \div SectorSize
        last == (position + n - 1) \div SectorSize
        firstAligned == position = first * SectorSize
        lastAligned == position + n = (last + 1) * SectorSize
    IN [k \in 1 .. SectorSize |->
          LET at == i * SectorSize + k - 1 IN
          IF at >= position /\ at < position + n THEN from[at - position + 1]
          ELSE IF FilledBack(first, last, i, firstAligned, lastAligned) /\ at < hdr.length
               THEN ByteAt(hdr, at)
               ELSE Junk]

Write(h, from) ==
    LET f == fileTable[h]
        n == Transferred(f.hdr, Len(from), f.seekPosition)
        touched == IF n = 0 THEN {}
                   ELSE f.seekPosition \div SectorSize
                          .. (f.seekPosition + n - 1) \div SectorSize
    IN
    /\ Idle
    /\ f # NULL
    /\ disk' = [s \in Sector |->
          IF \E i \in touched : f.hdr.sectors[i + 1] = s
          THEN Block(Written(f.hdr, from, n, f.seekPosition,
                             CHOOSE i \in touched : f.hdr.sectors[i + 1] = s))
          ELSE disk[s]]
    /\ fileTable' = [fileTable EXCEPT ![h].seekPosition = @ + n]
    /\ UNCHANGED <<diskMap, diskDir, op, torn>>

-----------------------------------------------------------------------------
(* The machine halts and is started again *)

Restart ==
    /\ torn' = (torn \/ op.pc \in {"writeMap", "removeDirectory"})
    /\ op' = NoOp
    /\ fileTable' = [h \in Handle |-> NULL]
    /\ UNCHANGED <<disk, diskMap, diskDir>>

\* With the option -f.
Format ==
    /\ op.pc = "idle"
    /\ diskMap' = Reserved
    /\ diskDir' = [e \in Entry |-> Unused]
    /\ op' = NoOp
    /\ fileTable' = [h \in Handle |-> NULL]
    /\ torn' = FALSE
    /\ UNCHANGED disk

Buffer == UNION {[1 .. k -> Byte] : k \in 1 .. SectorSize + 1}

Next ==
    \/ \E n \in Name, size \in 0 .. MaxFileSize : Create(n, size)
    \/ WriteHeader \/ WriteDirectory \/ CreateEnd
    \/ \E n \in Name : Remove(n)
    \/ RemoveMap \/ RemoveEnd
    \/ \E n \in Name : OpenFile(n)
    \/ \E h \in Handle : \/ Close(h)
                         \/ \E n \in 1 .. SectorSize + 1 : Read(h, n)
                         \/ \E from \in Buffer : Write(h, from)
    \/ Restart \/ Format

Spec == Init /\ [][Next]_vars

-----------------------------------------------------------------------------
(* Properties *)

Contents == [length : Nat, sectors : Seq(Sector), bytes : [1 .. SectorSize -> Byte \cup {Junk}]]
Directory == [Entry -> [name : Name \cup {NULL}, sector : Sector]]

\* NULL is none of the things that are NULL when they are not there: an open file,
\* a file and an open file as callers see them.
ASSUME NullAssumption ==
    /\ NULL \notin [name : Name, hdr : Contents, seekPosition : Nat]
    /\ NULL \notin Seq(Byte \cup {Junk})
    /\ NULL \notin [name : Name, position : Nat]

TypeOK ==
    /\ disk \in [Sector -> Contents]
    /\ diskMap \subseteq Sector
    /\ diskDir \in Directory
    /\ op \in [pc : {"idle", "writeHeader", "writeDirectory", "writeMap",
                     "removeMap", "removeDirectory"},
               name : Name \cup {NULL}, sector : Sector, hdr : Contents,
               dir : Directory, map : SUBSET Sector]
    /\ fileTable \in [Handle -> [name : Name, hdr : Contents, seekPosition : Nat] \cup {NULL}]
    /\ torn \in BOOLEAN

InUse(dir) == {e \in Entry : dir[e].name # NULL}

\* The sectors of the file in entry e of a directory.
FileSectors(dir, e) == {dir[e].sector} \cup DataSectors(disk[dir[e].sector])

\* The entry of a file names a header that is on the disk and complete.
GoodHeader(dir, e) ==
    LET hdr == disk[dir[e].sector] IN
    /\ Len(hdr.sectors) = NumSectorsFor(hdr.length)
    /\ \A i, j \in DOMAIN hdr.sectors : i # j => hdr.sectors[i] # hdr.sectors[j]
    /\ dir[e].sector \notin DataSectors(hdr)

\* At every moment, between any two writes of Create and Remove, each file of
\* the directory on the disk has sectors that no other file has and that hold
\* neither the map nor the directory (filesys.cc:193-208, 278-283).
NoSharing ==
    /\ \A d, e \in InUse(diskDir) : d # e =>
          /\ diskDir[d].name # diskDir[e].name
          /\ FileSectors(diskDir, d) \cap FileSectors(diskDir, e) = {}
    /\ \A e \in InUse(diskDir) :
          /\ GoodHeader(diskDir, e)
          /\ FileSectors(diskDir, e) \cap Reserved = {}

\* Between two calls the map marks the sectors of the files and no others: none
\* is lost and none is given out twice (filesys.cc:207, 282).
MapAgrees ==
    op.pc = "idle" =>
        diskMap = Reserved \cup UNION {FileSectors(diskDir, e) : e \in InUse(diskDir)}

\* The files, as their callers see them: a file is there from the end of Create
\* to the end of Remove.
Visible(n) ==
    \E e \in Named(diskDir, n) : op.pc # "writeMap" \/ op.name # n

FileBytes(n) ==
    LET e == CHOOSE e \in Named(diskDir, n) : TRUE
        hdr == disk[diskDir[e].sector]
    IN [k \in 1 .. hdr.length |-> ByteAt(hdr, k - 1)]

files == [n \in Name |-> IF Visible(n) THEN FileBytes(n) ELSE NULL]
openFiles == [h \in Handle |->
                IF fileTable[h] = NULL THEN NULL
                ELSE [name |-> fileTable[h].name, position |-> fileTable[h].seekPosition]]

Store == INSTANCE FileStore WITH store <- files, open <- openFiles,
                                 Capacity <- NumSectors - NumReserved

\* An open file's copy of the header is the one on the disk, so that a read returns
\* the bytes of the file (openfile.cc:34).
HeadersAgree ==
    \A h \in Handle : fileTable[h] # NULL =>
        \E e \in Named(diskDir, fileTable[h].name) :
            disk[diskDir[e].sector] = fileTable[h].hdr

\* The directory, the headers, the map and the open files agree with each other
\* at every moment, whatever call is writing to the disk.
DiskSound == TypeOK /\ (~torn => NoSharing /\ MapAgrees /\ HeadersAgree)

\* Create succeeds just when there is room for the file, so that no sector is
\* ever lost (filesys.cc:188-202).
RoomIsFound ==
    op.pc = "idle" /\ ~torn =>
        \A n \in Name, size \in 0 .. MaxFileSize :
            CanCreate(n, size) <=> Store!CanCreate(n, size)

\* The file system does what FileStore says: a halt leaves a file as it was, not
\* there or complete, and calls change no other file than their own, but for a
\* halt between the writes of directory and map (filesys.cc:205-207, 282-283).
\* Nor does it refuse what FileStore allows.
StoreUnlessTorn ==
    /\ Store!Init /\ [][Store!Next \/ torn \/ torn']_<<files, openFiles>>
    /\ []RoomIsFound

=============================================================================
