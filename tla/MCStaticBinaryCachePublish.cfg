SPECIFICATION Spec
CONSTANTS
    Procs = {p1, p2, p3}
    Inodes = {i1, i2, i3, i4, i5}
    NoInode = NoInode
    NumBlocks = 1
    MaxFaults = 0
SYMMETRY Symmetry
INVARIANT CacheHoldsExecutable
