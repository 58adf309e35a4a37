SPECIFICATION Spec
CONSTANTS
    Name = {f, g}
    Byte = {a}
    Junk = Junk
    NULL = NULL
    NumSectors = 6
    NumReserved = 2
    SectorSize = 2
    NumDirEntries = 2
    NumHandles = 1
    MaxFileSize = 3
INVARIANT DiskSound
 
