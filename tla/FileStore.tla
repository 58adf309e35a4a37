------------------------------ MODULE FileStore ------------------------------
(***************************************************************************)
(* What the callers of the file system are promised: a map from names to  *)
(* contents of a fixed length.  A file can be created if and only if its   *)
(* name is new, the directory has an entry left and the disk has room for  *)
(* its header and its data; the bytes of a new file are whatever the disk  *)
(* holds.  Nothing but a write to a file changes its contents.             *)
(***************************************************************************)
EXTENDS Naturals, Sequences, FiniteSets

CONSTANTS Name, Handle,
          Byte, Junk,       \* what programs write, and what was there before
          SectorSize,
          MaxFileSize,      \* largest file that is created
          NumDirEntries,    \* most files there are
          Capacity,         \* sectors for headers and data
          NULL

VARIABLES store,    \* the contents of each file, NULL when there is none
          open      \* the open files: a name and a position

Files == {n \in Name : store[n] # NULL}
SectorsFor(size) == 1 + (size + SectorSize - 1) \div SectorSize

\* The sectors in use, each with the file that uses it.
InUse == UNION {{n} \X (1 .. SectorsFor(Len(store[n]))) : n \in Files}

CanCreate(n, size) ==
    /\ store[n] = NULL
    /\ Cardinality(Files) < NumDirEntries
    /\ Cardinality(InUse) + SectorsFor(size) <= Capacity

Init ==
    /\ store = [n \in Name |-> NULL]
    /\ open = [h \in Handle |-> NULL]

Create(n, contents) ==
    /\ CanCreate(n, Len(contents))
    /\ store' = [store EXCEPT ![n] = contents]
    /\ UNCHANGED open

Remove(n) == store' = [store EXCEPT ![n] = NULL] /\ UNCHANGED open

Open(n, h) ==
    /\ store[n] # NULL
    /\ open[h] = NULL
    /\ open' = [open EXCEPT ![h] = [name |-> n, position |-> 0]]
    /\ UNCHANGED store

\* How many of k bytes there are from position p of file n on.
Available(n, p, k) ==
    IF p >= Len(store[n]) THEN 0 ELSE IF p + k > Len(store[n]) THEN Len(store[n]) - p ELSE k

\* A read or write goes on where the last one ended.
Advance(h, k) ==
    LET f == open[h] IN
    /\ f # NULL
    /\ open' = [open EXCEPT ![h].position = @ + Available(f.name, f.position, k)]

Read(h, k) == Advance(h, k) /\ UNCHANGED store

Write(h, bytes) ==
    /\ Advance(h, Len(bytes))
    /\ LET f == open[h] IN
       store' = [store EXCEPT ![f.name] = [k \in DOMAIN @ |->
          IF k - f.position \in DOMAIN bytes THEN bytes[k - f.position] ELSE @[k]]]

Close(h) == open' = [open EXCEPT ![h] = NULL] /\ UNCHANGED store

\* The machine starts again, with the files it had or with none.
Restart ==
    /\ store' \in {store, [n \in Name |-> NULL]}
    /\ open' = [h \in Handle |-> NULL]

Buffers(max) == UNION {[1 .. k -> Byte] : k \in 1 .. max}

Next ==
    \/ \E n \in Name, size \in 0 .. MaxFileSize :
          \E contents \in [1 .. size -> Byte \cup {Junk}] : Create(n, contents)
    \/ \E n \in Name : Remove(n) \/ \E h \in Handle : Open(n, h)
    \/ \E h \in Handle : \/ Close(h)
                         \/ \E k \in 1 .. SectorSize + 1 : Read(h, k)
                         \/ \E bytes \in Buffers(SectorSize + 1) : Write(h, bytes)
    \/ Restart

Spec == Init /\ [][Next]_<<store, open>>

=============================================================================
