SPECIFICATION Spec
CONSTANTS
    Handles = {p1, p2}
    Inodes = {i1, i2, i3}
    NoInode = NoInode
    Orig = Orig
    Pieces <- AllPieces
    MaxOpens = 1
    Tools = {"alltogether"}
    FlushFaults = FALSE
SYMMETRY Symmetry
INVARIANT SuccessMeansWritten
CHECK_DEADLOCK FALSE
