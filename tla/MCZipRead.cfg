SPECIFICATION Spec
CONSTANTS
    r1 = r1
    r2 = r2
    Readers = {r1, r2}
    NoReader = NoReader
    Entries <- MCEntries
    Inputs <- MCInputs
    Scenarios <- MCScenarios
    BufSize = 2
    MaxFaults = 1
INVARIANTS
    ReadsInPlace
    EofIsEnd
    EofIsIntact
    NoSpuriousErrors
    Lifetimes
    CompressorFaithful
    GetEntryWhole
CHECK_DEADLOCK FALSE
