SPECIFICATION FairSpec
CONSTANTS
    Procs = {p1, p2}
    Inodes = {i1, i2, i3, i4}
    NoInode = NoInode
    NumBlocks = 2
    MaxFaults = 1
INVARIANTS
    RetrieveSucceeds
    ExecutesWholeBinary
    LoneFillsPublishWhole
    LoneFillsSucceed
    Inv
PROPERTIES
    EntryStays
    SomeFillPublishes
