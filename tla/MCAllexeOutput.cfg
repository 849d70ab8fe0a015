SPECIFICATION Spec
CONSTANTS
    Handles = {p1, p2}
    Inodes = {i1, i2, i3}
    NoInode = NoInode
    Orig = Orig
    Pieces <- AllPieces
    MaxOpens = 1
    Tools = {"bc2allvm", "alltogether", "allmux", "allopt", "wllvm-extract", "alley"}
    FlushFaults = TRUE
SYMMETRY Symmetry
INVARIANTS
    OutputInv
    TempsAccounted
    ReaderSnapshot
    OutputExecutable
PROPERTIES
    ForcelessKeepsOriginal
    OnlyExtractRemoves
    OutputAtomic
CHECK_DEADLOCK FALSE
