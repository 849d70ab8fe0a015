SPECIFICATION FairSpec
CONSTANTS
    Procs = {p1, p2}
    Modules = {m1, m2}
    Dotted = {m1}
    Hole = Hole
    NoDot = NoDot
    NumBlocks = 2
    MaxFaults = 1
INVARIANTS
    JITInv
    CompilesMaterialised
    LoneObjectsWhole
PROPERTY RunsUnlessRaced
