SPECIFICATION Spec
CONSTANTS
    Procs = {p1, p2}
    Modules = {m1, m2}
    Dotted = {}
    Hole = Hole
    NoDot = NoDot
    NumBlocks = 2
    MaxFaults = 0
SYMMETRY Symmetry
INVARIANT CRCIdentifiesObject
