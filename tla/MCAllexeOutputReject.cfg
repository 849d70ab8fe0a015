SPECIFICATION Spec
CONSTANTS
    Handles = {p1, p2}
    Inodes = {i1, i2, i3}
    NoInode = NoInode
    Orig = Orig
    Pieces <- AllPieces
    MaxOpens = 1
    Tools = {"bc2allvm"}
    FlushFaults = FALSE
SYMMETRY Symmetry
PROPERTY RejectsExisting
CHECK_DEADLOCK FALSE
