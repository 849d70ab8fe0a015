SPECIFICATION SourceSpec
CONSTANTS
    Handles = {h1, h2}
    Inodes = {i1, i2, i3, i4}
    NoInode = NoInode
    Pieces = {d}
    MaxOpens = 2
SYMMETRY Symmetry
INVARIANTS
    RollbackHasTemp
    ReadersHaveFile
    PublishedIsClosed
CHECK_DEADLOCK FALSE
